---------------------------- MODULE FundingProofs ----------------------------
(***************************************************************************)
(* Proofs about FundingHistory, for every set of symbols and events, every *)
(* size of a page, and any number of commands, revisions and kills.        *)
(***************************************************************************)
EXTENDS FundingHistory, FiniteSetTheorems, SequenceTheorems, TLAPS

-----------------------------------------------------------------------------
(* Induction.  A claim about numbers is the set of those it holds of, a    *)
(* claim about finite sets the set of those it holds of.                   *)

LEMMA LeastNumber ==
  ASSUME NEW T \in SUBSET Nat, T # {}
  PROVE  \E n \in T : \A m \in T : n <= m
<1> DEFINE R == OpToRel(<, Nat)
<1>1. IsWellFoundedOn(R, Nat)
  BY NatLessThanWellFounded
<1>2. \A m, n \in Nat : <<m, n>> \in R <=> m < n
  BY DEF OpToRel
<1> HIDE DEF R
<1>3. PICK n \in T : \A m \in T : ~(<<m, n>> \in R)
  BY <1>1, WFMin
<1>4. \A m \in T : n <= m
  <2> TAKE m \in T
  <2>1. m \in Nat /\ n \in Nat
    OBVIOUS
  <2>2. ~(m < n)
    BY <1>2, <1>3, <2>1
  <2> QED
    BY <2>1, <2>2
<1> QED
  BY <1>4

(* A finite set of numbers that is not empty has a largest element. *)
LEMMA LargestExists ==
  ASSUME NEW S \in SUBSET Nat, IsFiniteSet(S), S # {}
  PROVE  \E x \in S : \A y \in S : x >= y
<1> DEFINE Unbounded(U) == U # {} /\ ~\E x \in U : \A y \in U : x >= y
           T == {n \in Nat : \E U \in SUBSET S : Cardinality(U) = n /\ Unbounded(U)}
<1> SUFFICES ASSUME Unbounded(S) PROVE FALSE
  OBVIOUS
<1>1. Cardinality(S) \in T
  BY FS_CardinalityType
<1>2. PICK n \in T : \A m \in T : n <= m
  BY <1>1, LeastNumber
<1>3. PICK U \in SUBSET S : Cardinality(U) = n /\ Unbounded(U)
  BY <1>2
<1>4. PICK u \in U : TRUE
  BY <1>3
<1> DEFINE V == U \ {u}
<1>5. IsFiniteSet(V) /\ Cardinality(V) = n - 1 /\ n - 1 \in Nat
  <2>1. IsFiniteSet(U)
    BY FS_Subset
  <2>2. IsFiniteSet(V) /\ Cardinality(V) = n - 1
    BY <1>3, <1>4, <2>1, FS_RemoveElement
  <2> QED
    BY <2>2, FS_CardinalityType
<1>6. ~Unbounded(V)
  <2>1. ~(n <= n - 1)
    BY <1>5
  <2>2. n - 1 \notin T
    BY <1>2, <2>1
  <2> QED
    BY <1>5, <2>2
<1>7. CASE V = {}
  BY <1>3, <1>4, <1>7
<1>8. CASE V # {}
  <2>1. PICK v \in V : \A y \in V : v >= y
    BY <1>6, <1>8
  <2>2. CASE v >= u
    BY <1>3, <2>1, <2>2
  <2>3. CASE ~(v >= u)
    BY <1>3, <1>4, <2>1, <2>3
  <2> QED
    BY <2>2, <2>3
<1> QED
  BY <1>7, <1>8

LEMMA MaxIsLargest ==
  ASSUME NEW S \in SUBSET Nat, IsFiniteSet(S), S # {}
  PROVE  Max(S) \in S /\ \A y \in S : Max(S) >= y
BY LargestExists DEF Max

-----------------------------------------------------------------------------
(* Pages. *)

LEMMA KeyFacts ==
  ASSUME NEW k \in Keys
  PROVE  k[1] \in Nat
BY FundingAssumption

LEMMA PageFinite ==
  ASSUME NEW s, NEW cursor, NEW end, NEW page \in Pages(s, cursor, end)
  PROVE  /\ IsFiniteSet(page) /\ Cardinality(page) \in Nat
         /\ page \subseteq Found(s, cursor, end) /\ page \subseteq Keys
<1>1. page \subseteq Found(s, cursor, end) /\ Found(s, cursor, end) \subseteq Keys
  BY DEF Pages, Found
<1>2. IsFiniteSet(page)
  BY <1>1, FundingAssumption, FS_Subset
<1> QED
  BY <1>1, <1>2, FS_CardinalityType

LEMMA PageTimes ==
  ASSUME NEW s, NEW cursor, NEW end, NEW page \in Pages(s, cursor, end), page # {}
  PROVE  LastTime(page) \in Nat /\ \E m \in page : m[1] = LastTime(page)
<1> DEFINE T == {x[1] : x \in page}
<1>1. IsFiniteSet(page) /\ \A x \in page : x[1] \in Nat
  BY PageFinite, KeyFacts
<1>2. IsFiniteSet(T) /\ T \in SUBSET Nat /\ T # {}
  <2>1. IsFiniteSet(T)
    <3> DEFINE f == [x \in page |-> x[1]]
    <3>1. f \in Surjection(page, T)
      BY DEF Surjection
    <3> HIDE DEF f, T
    <3> QED
      BY <1>1, <3>1, FS_Surjection
  <2> QED
    BY <1>1, <2>1
<1>3. Max(T) \in T
  BY <1>2, MaxIsLargest
<1> QED
  BY <1>2, <1>3 DEF LastTime

(* After a page, every event up to its last time has been received or was  *)
(* cut; if the loop ends, every event of the range.                        *)
LEMMA PageCovers ==
  ASSUME NEW s, NEW cursor, NEW end \in Nat, NEW page \in Pages(s, cursor, end),
         NEW k \in Found(s, cursor, end)
  PROVE  /\ page # {}
         /\ LastTime(page) \in Nat
         /\ k[1] <= LastTime(page) \/ Cardinality(page) < Limit \/ LastTime(page) >= end
              => k \in page \/ \E j \in page : j[1] = k[1]
<1>1. k[1] \in Nat /\ k[1] <= end
  BY KeyFacts DEF Found
<1>2. CASE k \in page
  BY <1>2, PageTimes
<1>3. CASE k \notin page
  <2>1. Cardinality(page) = Limit /\ \A j \in page : j[1] <= k[1]
    BY <1>3 DEF Pages
  <2>2. page # {}
    BY <2>1, FS_EmptySet, FundingAssumption
  <2>3. LastTime(page) \in Nat
    BY <2>2, PageTimes
  <2>4. PICK m \in page : m[1] = LastTime(page)
    BY <2>2, PageTimes
  <2>5. LastTime(page) <= k[1]
    BY <2>1, <2>4
  <2>6. ~(Cardinality(page) < Limit)
    BY <2>1, FundingAssumption
  <2>7. k[1] <= LastTime(page) \/ LastTime(page) >= end => m[1] = k[1]
    BY <1>1, <2>3, <2>4, <2>5
  <2> QED
    BY <2>2, <2>3, <2>6, <2>7
<1> QED
  BY <1>2, <1>3

(* An event has a rate in each revision, none before it is published. *)
LEMMA RateFacts ==
  ASSUME NEW s \in Symbols, NEW k \in Keys, NEW n \in Nat, n <= Len(RatesOf[s][k])
  PROVE  /\ Rate(s, k, n) \in Rates \cup {NoRate}
         /\ n > 0 => Rate(s, k, n) = RatesOf[s][k][n] /\ Rate(s, k, n) # NoRate
         /\ n = 0 => Rate(s, k, n) = NoRate
<1>1. RatesOf[s][k] \in Seq(Rates) /\ NoRate \notin Rates
  BY FundingAssumption
<1>2. n > 0 => RatesOf[s][k][n] \in Rates
  BY <1>1
<1> QED
  BY <1>1, <1>2 DEF Rate

LEMMA LenFacts ==
  ASSUME NEW s \in Symbols, NEW k \in Keys
  PROVE  Len(RatesOf[s][k]) \in Nat /\ (RatesOf[s][k] # <<>> => 1 <= Len(RatesOf[s][k]))
<1>1. RatesOf[s][k] \in Seq(Rates)
  BY FundingAssumption
<1> QED
  BY <1>1

-----------------------------------------------------------------------------
(* The inductive invariant. *)

Fetches ==
  [pc : {"get", "raw", "parquet", "manifest", "register"}, request : Requests,
   todo : Seq(Symbols) \ {<<>>}, range : Ranges, cursor : Nat, attempt : 1..MaxAttempts,
   events : Revisions, begun : Revisions, cut : SUBSET Keys]
Catalogs == [pc : {"catalog"}, request : Requests]

TypeInv ==
  /\ exchange \in [Symbols -> Revisions]
  /\ command \in {Idle} \cup Catalogs \cup Fetches
  /\ raw \subseteq Names /\ manifests \subseteq Names
  /\ registered \subseteq raw \cap manifests \cap {f.name : f \in files}
  /\ view \in [Symbols -> Revisions] /\ due \in [Symbols -> Revisions]
  /\ \A s \in Symbols, k \in Keys : /\ view[s][k] <= exchange[s][k]
                                     /\ exchange[s][k] <= Len(RatesOf[s][k])

(* Files hold what the exchange had published, the rates of their name,    *)
(* are numbered in the order in which they were written, and a later one   *)
(* of a symbol has no older revision of an event than an earlier one.      *)
Ordered(f, g) ==
  f.name.symbol = g.name.symbol /\ f.ingested <= g.ingested =>
    \A k \in Keys : f.events[k] > 0 /\ g.events[k] > 0 => f.events[k] <= g.events[k]

FilesInv ==
  /\ IsFiniteSet(files)
  /\ \A f \in files :
       /\ f.name \in Names /\ f.events \in Revisions
       /\ f.ingested \in 1..Cardinality(files)
       /\ \A k \in Keys : /\ f.events[k] <= exchange[f.name.symbol][k]
                          /\ f.name.rates[k] = Rate(f.name.symbol, k, f.events[k])
  /\ \A f, g \in files : f.ingested = g.ingested => f = g
  /\ \A f, g \in files : Ordered(f, g)

(* What the command has is published, and no older than any file; once it  *)
(* has written a file it finds it again.                                   *)
NoOlder ==
  \A f \in files : f.name.symbol = Symbol =>
    \A k \in Keys : f.events[k] > 0 /\ command.events[k] > 0 => f.events[k] <= command.events[k]

CommandInv ==
  command \in Fetches =>
    /\ \A k \in Keys : /\ command.events[k] <= exchange[Symbol][k]
                       /\ command.begun[k] <= exchange[Symbol][k]
    /\ command.pc \in {"get", "raw", "parquet"} => NoOlder
    /\ command.pc \in {"parquet", "manifest", "register"} => Name \in raw
    /\ command.pc \in {"manifest", "register"} => \E f \in files : f.name = Name
    /\ command.pc = "register" => Name \in manifests

(* Between two pages every event before the cursor has been received that  *)
(* was published when the command began, after the last one every event,   *)
(* but for those that a page cut.                                          *)
CoveredInv ==
  command \in Fetches =>
    \A k \in Keys :
      InRange(k) /\ k \notin command.cut /\ (command.pc = "get" => k[1] < command.cursor)
        => command.begun[k] <= command.events[k]

(* What a completed sync had to find is in a registered file: the one it   *)
(* wrote, or one of the same rates and so, unless a rate was restored, of  *)
(* the same revisions.                                                     *)
DueInv ==
  \A s \in Symbols, k \in Keys :
    due[s][k] > 0 /\ ~Restored(s, k) =>
      \E f \in files : /\ f.name \in registered /\ f.name.symbol = s
                       /\ due[s][k] <= f.events[k]

Inv == TypeInv /\ FilesInv /\ CommandInv /\ CoveredInv /\ DueInv

LEMMA NoneFacts ==
  /\ None \in Revisions /\ \A k \in Keys : None[k] = 0
  /\ \A e \in Revisions, k \in Keys : e[k] \in Nat
BY DEF None, Revisions

LEMMA CommandKinds ==
  /\ Idle.pc = "idle"
  /\ \A c \in Catalogs : c.pc = "catalog"
  /\ \A c \in Fetches : c.pc \in {"get", "raw", "parquet", "manifest", "register"}
  /\ Idle \notin Fetches /\ \A c \in Catalogs : c \notin Fetches
<1>1. \A c \in Fetches : c.pc \in {"get", "raw", "parquet", "manifest", "register"}
  BY DEF Fetches
<1>2. \A c \in Catalogs : c.pc = "catalog"
  BY DEF Catalogs
<1>3. Idle.pc = "idle"
  BY DEF Idle
<1> QED
  BY <1>1, <1>2, <1>3

LEMMA FetchFields ==
  ASSUME NEW c \in Fetches
  PROVE  /\ c = [pc |-> c.pc, request |-> c.request, todo |-> c.todo, range |-> c.range,
                 cursor |-> c.cursor, attempt |-> c.attempt, events |-> c.events,
                 begun |-> c.begun, cut |-> c.cut]
         /\ c.request \in Requests /\ c.todo \in Seq(Symbols) /\ c.todo # <<>>
         /\ Head(c.todo) \in Symbols /\ Tail(c.todo) \in Seq(Symbols)
         /\ c.range \in Ranges /\ c.range[1] \in Nat /\ c.range[2] \in Nat
         /\ c.cursor \in Nat /\ c.attempt \in 1..MaxAttempts
         /\ c.events \in Revisions /\ c.begun \in Revisions /\ c.cut \subseteq Keys
<1>1. /\ c = [pc |-> c.pc, request |-> c.request, todo |-> c.todo, range |-> c.range,
              cursor |-> c.cursor, attempt |-> c.attempt, events |-> c.events,
              begun |-> c.begun, cut |-> c.cut]
      /\ c.request \in Requests /\ c.todo \in Seq(Symbols) /\ c.todo # <<>>
      /\ c.range \in Ranges
      /\ c.cursor \in Nat /\ c.attempt \in 1..MaxAttempts
      /\ c.events \in Revisions /\ c.begun \in Revisions /\ c.cut \subseteq Keys
  BY DEF Fetches
<1>2. Head(c.todo) \in Symbols /\ Tail(c.todo) \in Seq(Symbols)
  BY <1>1, HeadTailProperties
<1>3. c.range[1] \in Nat /\ c.range[2] \in Nat
  BY <1>1, FundingAssumption
<1> QED
  BY <1>1, <1>2, <1>3

(* The pc says which kind a command is of. *)
LEMMA PcTells ==
  ASSUME TypeInv
  PROVE  /\ command.pc \in {"get", "raw", "parquet", "manifest", "register"} => command \in Fetches
         /\ command.pc = "catalog" => command \in Catalogs
BY CommandKinds DEF TypeInv

LEMMA InitInv == Init => Inv
<1> SUFFICES ASSUME Init PROVE Inv
  OBVIOUS
<1>1. TypeInv
  BY NoneFacts, LenFacts DEF Init, TypeInv
<1>2. FilesInv
  BY FS_EmptySet DEF Init, FilesInv
<1>3. CommandInv /\ CoveredInv
  BY CommandKinds DEF Init, CommandInv, CoveredInv
<1>4. DueInv
  BY NoneFacts DEF Init, DueInv
<1> QED
  BY <1>1, <1>2, <1>3, <1>4 DEF Inv

-----------------------------------------------------------------------------
(* Steps of the exchange, and steps that end the command. *)

stored == <<raw, files, manifests, registered, view, due>>

LEMMA ExchangeGrows ==
  ASSUME Inv, exchange' \in [Symbols -> Revisions], UNCHANGED <<command, stored>>,
         \A s \in Symbols, k \in Keys : /\ exchange[s][k] <= exchange'[s][k]
                                       /\ exchange'[s][k] <= Len(RatesOf[s][k])
  PROVE  Inv'
<1> USE DEF Inv, stored
<1>1. \A s \in Symbols, k \in Keys : exchange[s][k] \in Nat /\ exchange'[s][k] \in Nat
  BY NoneFacts DEF TypeInv
<1>2. TypeInv'
  BY <1>1, NoneFacts DEF TypeInv
<1>3. FilesInv'
  <2>1. ASSUME NEW f \in files, NEW k \in Keys
        PROVE  f.events[k] <= exchange'[f.name.symbol][k]
    <3>1. f.name.symbol \in Symbols /\ f.events[k] \in Nat
          /\ f.events[k] <= exchange[f.name.symbol][k]
      BY NoneFacts DEF FilesInv, Names
    <3> QED
      BY <1>1, <3>1
  <2> QED
    BY <2>1 DEF FilesInv, Ordered
<1>4. CommandInv'
  <2>1. ASSUME command \in Fetches, NEW k \in Keys
        PROVE  command.events[k] <= exchange'[Symbol][k] /\ command.begun[k] <= exchange'[Symbol][k]
    <3>1. Symbol \in Symbols /\ command.events[k] \in Nat /\ command.begun[k] \in Nat
      BY <2>1, FetchFields, NoneFacts DEF Symbol
    <3> QED
      BY <1>1, <2>1, <3>1 DEF CommandInv
  <2> QED
    BY <2>1 DEF CommandInv, NoOlder, Name, Symbol
<1>5. CoveredInv'
  BY DEF CoveredInv, InRange
<1>6. DueInv'
  <2>1. ASSUME NEW s \in Symbols, NEW k \in Keys, Restored(s, k) PROVE Restored(s, k)'
    <3>1. 1..exchange[s][k] \subseteq 1..exchange'[s][k]
      BY <1>1
    <3> QED
      BY <2>1, <3>1 DEF Restored
  <2> QED
    BY <2>1 DEF DueInv
<1> QED
  BY <1>2, <1>3, <1>4, <1>5, <1>6

LEMMA PublishKeeps ==
  ASSUME Inv, NEW s \in Symbols, NEW k \in Keys, Publish(s, k) \/ Revise(s, k)
  PROVE  Inv'
<1> DEFINE e == exchange[s][k]
<1>1. PICK r \in Nat : /\ r >= e /\ r <= Len(RatesOf[s][k])
                       /\ exchange' = [exchange EXCEPT ![s][k] = r]
  <2>1. e \in Nat /\ Len(RatesOf[s][k]) \in Nat
    BY NoneFacts, LenFacts DEF Inv, TypeInv
  <2>2. CASE Publish(s, k)
    <3>1. exchange' = [exchange EXCEPT ![s][k] = 1] /\ e = 0 /\ RatesOf[s][k] # <<>>
      BY <2>2 DEF Publish
    <3>2. 1 <= Len(RatesOf[s][k])
      BY <3>1, LenFacts
    <3>3. 1 \in Nat /\ 1 >= e
      BY <3>1
    <3> QED
      BY <3>1, <3>2, <3>3
  <2>3. CASE Revise(s, k)
    <3>1. exchange' = [exchange EXCEPT ![s][k] = e + 1] /\ e < Len(RatesOf[s][k])
      BY <2>3 DEF Revise
    <3>2. e + 1 \in Nat /\ e + 1 >= e /\ e + 1 <= Len(RatesOf[s][k])
      BY <2>1, <3>1
    <3> QED
      BY <3>1, <3>2
  <2> QED
    BY <2>2, <2>3
<1>2. exchange \in [Symbols -> Revisions]
  BY DEF Inv, TypeInv
<1>3. [exchange[s] EXCEPT ![k] = r] \in Revisions
  BY <1>2 DEF Revisions
<1>4. exchange' \in [Symbols -> Revisions]
  BY <1>1, <1>2, <1>3
<1>5. ASSUME NEW t \in Symbols, NEW j \in Keys
      PROVE  exchange[t][j] <= exchange'[t][j] /\ exchange'[t][j] <= Len(RatesOf[t][j])
  <2>1. exchange[t] \in Revisions /\ exchange[t][j] \in Nat
        /\ exchange[t][j] <= Len(RatesOf[t][j])
    BY <1>2, NoneFacts DEF Inv, TypeInv
  <2>2. exchange'[t][j] = IF t = s /\ j = k THEN r ELSE exchange[t][j]
    BY <1>1, <1>2, <2>1 DEF Revisions
  <2> QED
    BY <1>1, <2>1, <2>2
<1>6. UNCHANGED <<command, stored>>
  BY DEF Publish, Revise, stored
<1> QED
  BY <1>4, <1>5, <1>6, ExchangeGrows

LEMMA EndsKeep ==
  ASSUME Inv, command' \in {Idle} \cup Catalogs, UNCHANGED <<exchange, stored>>
  PROVE  Inv'
<1> USE DEF Inv, stored
<1>1. command' \notin Fetches
  BY CommandKinds
<1>2. TypeInv'
  BY DEF TypeInv
<1>3. FilesInv'
  BY DEF FilesInv, Ordered
<1>4. CommandInv' /\ CoveredInv'
  BY <1>1 DEF CommandInv, CoveredInv
<1>5. DueInv'
  BY DEF DueInv, Restored
<1> QED
  BY <1>2, <1>3, <1>4, <1>5

-----------------------------------------------------------------------------
(* Requests. *)

LEMMA FetchingKeeps ==
  ASSUME Inv, NEW request \in Requests, NEW todo \in Seq(Symbols) \ {<<>>}, NEW range \in Ranges
  PROVE  /\ Fetching(request, todo, range) \in Fetches
         /\ command' = Fetching(request, todo, range) /\ UNCHANGED <<exchange, files>>
              => CommandInv' /\ CoveredInv'
<1> DEFINE c == Fetching(request, todo, range)
<1>1. Head(todo) \in Symbols /\ range[1] \in Nat
  BY HeadTailProperties, FundingAssumption
<1>2. exchange[Head(todo)] \in Revisions /\ 1 \in 1..MaxAttempts
  BY <1>1, FundingAssumption DEF Inv, TypeInv
<1>3. c \in Fetches
  BY <1>1, <1>2, NoneFacts DEF Fetching, Fetches
<1>4. /\ c.pc = "get" /\ c.events = None /\ c.begun = exchange[Head(todo)] /\ c.todo = todo
      /\ c.range = range /\ c.cursor = range[1] /\ c.cut = {}
  BY DEF Fetching
<1> HIDE DEF c
<1>5. ASSUME command' = c, UNCHANGED <<exchange, files>>
      PROVE  CommandInv' /\ CoveredInv'
  <2>1. \A k \in Keys : c.events[k] = 0 /\ c.begun[k] = exchange'[Symbol'][k] /\ c.begun[k] \in Nat
    BY <1>2, <1>4, <1>5, NoneFacts DEF Symbol
  <2>2. CommandInv'
    BY <1>4, <1>5, <2>1 DEF CommandInv, NoOlder
  <2>3. CoveredInv'
    <3>1. ASSUME NEW k \in Keys, range[1] <= k[1] PROVE ~(k[1] < range[1])
      BY <1>1, <3>1, KeyFacts
    <3> QED
      BY <1>4, <1>5, <3>1 DEF CoveredInv, InRange
  <2> QED
    BY <2>2, <2>3
<1> QED
  BY <1>3, <1>5 DEF c

LEMMA StartKeeps ==
  ASSUME Inv, NEW request \in Requests, NEW range \in Ranges, Start(request, range)
  PROVE  Inv'
<1> USE DEF Start
<1>1. request \in Seq(Symbols) \ {<<>>}
  BY FundingAssumption
<1>2. command' \in Fetches /\ CommandInv' /\ CoveredInv'
  BY <1>1, FetchingKeeps
<1>3. TypeInv' /\ FilesInv' /\ DueInv'
  BY <1>2 DEF Inv, TypeInv, FilesInv, Ordered, DueInv, Restored
<1> QED
  BY <1>2, <1>3 DEF Inv

LEMMA Retries ==
  ASSUME Inv, GetFails
  PROVE  Inv'
<1> USE DEF GetFails, Retry, Fail
<1>1. command \in Fetches /\ command.pc = "get"
  BY PcTells DEF Inv
<1>2. CASE command.attempt < MaxAttempts
  <2>1. command' = [command EXCEPT !.attempt = @ + 1] /\ command.attempt + 1 \in 1..MaxAttempts
    BY <1>1, <1>2, FetchFields, FundingAssumption
  <2>2. command' \in Fetches
    BY <1>1, <2>1 DEF Fetches
  <2>3. /\ command'.pc = command.pc /\ command'.todo = command.todo /\ command'.range = command.range
        /\ command'.cursor = command.cursor /\ command'.events = command.events
        /\ command'.begun = command.begun /\ command'.cut = command.cut
    BY <1>1, <2>1 DEF Fetches
  <2>4. TypeInv' /\ FilesInv' /\ DueInv'
    BY <2>2 DEF Inv, TypeInv, FilesInv, Ordered, DueInv, Restored
  <2>5. CommandInv' /\ CoveredInv'
    BY <1>1, <2>2, <2>3 DEF Inv, CommandInv, NoOlder, CoveredInv, InRange, Symbol
  <2> QED
    BY <2>4, <2>5 DEF Inv
<1>3. CASE ~(command.attempt < MaxAttempts)
  BY <1>3, EndsKeep DEF stored
<1> QED
  BY <1>2, <1>3

-----------------------------------------------------------------------------
(* A page. *)

LEMMA PageKeeps ==
  ASSUME Inv, GetPage
  PROVE  Inv'
<1> DEFINE end == command.range[2]
<1>0. PICK page \in Pages(Symbol, command.cursor, end) :
        LET got == [k \in Keys |-> IF k \in page THEN exchange[Symbol][k]
                                   ELSE command.events[k]]
            received == [command EXCEPT !.events = got, !.cut = @ \cup CutBy(page)]
        IN command' = IF page # {} /\ MorePages(page) /\ NextCursor(page) <= end
                        THEN [received EXCEPT !.cursor = NextCursor(page), !.attempt = 1]
                        ELSE IF got = None THEN Idle
                        ELSE [received EXCEPT !.pc = "raw"]
  BY DEF GetPage
<1> DEFINE got == [k \in Keys |-> IF k \in page THEN exchange[Symbol][k] ELSE command.events[k]]
           more == page # {} /\ MorePages(page) /\ NextCursor(page) <= end
           lost == command.cut \cup CutBy(page)
<1>1. command \in Fetches /\ command.pc = "get"
  BY PcTells DEF Inv, GetPage
<1>2. Symbol \in Symbols /\ exchange[Symbol] \in Revisions /\ command.events \in Revisions
      /\ command.begun \in Revisions /\ end \in Nat /\ command.cursor \in Nat
  BY <1>1, FetchFields DEF Inv, TypeInv, Symbol
<1>3. got \in Revisions
  BY <1>2 DEF Revisions
<1>4. UNCHANGED <<exchange, stored>>
  BY DEF GetPage, stored
<1>5. command' = IF more THEN [[command EXCEPT !.events = got, !.cut = lost]
                                  EXCEPT !.cursor = NextCursor(page), !.attempt = 1]
                 ELSE IF got = None THEN Idle
                 ELSE [[command EXCEPT !.events = got, !.cut = lost] EXCEPT !.pc = "raw"]
  BY <1>0
<1>6. lost \subseteq Keys
  BY <1>1, FetchFields DEF CutBy, Found
<1>7. page # {} => LastTime(page) \in Nat
  BY PageTimes
<1>8. \A k \in Keys : got[k] = IF k \in page THEN exchange[Symbol][k] ELSE command.events[k]
  OBVIOUS
<1> HIDE DEF got, lost
<1>9. CASE ~more /\ got = None
  BY <1>4, <1>5, <1>9, EndsKeep
<1>10. CASE more \/ got # None
  <2>1. /\ command' \in Fetches
        /\ command'.pc = (IF more THEN "get" ELSE "raw")
        /\ command'.todo = command.todo /\ command'.range = command.range
        /\ command'.events = got /\ command'.begun = command.begun /\ command'.cut = lost
        /\ more => command'.cursor = LastTime(page) + 1
    <3> DEFINE received == [command EXCEPT !.events = got, !.cut = lost]
    <3>1. /\ received \in Fetches /\ received.pc = "get" /\ received.todo = command.todo
          /\ received.range = command.range /\ received.events = got
          /\ received.begun = command.begun /\ received.cut = lost
      BY ONLY <1>1, <1>3, <1>6 DEF Fetches
    <3> HIDE DEF received
    <3>2. CASE more
      <4>1. LastTime(page) + 1 \in Nat /\ 1 \in 1..MaxAttempts
        BY <1>7, <3>2, FundingAssumption
      <4>2. command' = [received EXCEPT !.cursor = LastTime(page) + 1, !.attempt = 1]
        BY <1>5, <3>2 DEF NextCursor, received
      <4> HIDE DEF more
      <4> QED
        BY ONLY <3>1, <3>2, <4>1, <4>2 DEF Fetches
    <3>3. CASE ~more
      <4>1. command' = [received EXCEPT !.pc = "raw"]
        BY <1>5, <1>10, <3>3 DEF received
      <4> HIDE DEF more
      <4> QED
        BY ONLY <3>1, <3>3, <4>1 DEF Fetches
    <3> QED
      BY <3>2, <3>3
  <2>2. Symbol' = Symbol
    BY <2>1 DEF Symbol
  <2>3. \A k \in Keys : /\ got[k] \in Nat /\ exchange[Symbol][k] \in Nat
                        /\ command.events[k] \in Nat /\ command.begun[k] \in Nat
                        /\ command.events[k] <= exchange[Symbol][k]
                        /\ command.begun[k] <= exchange[Symbol][k]
    BY <1>1, <1>2, <1>3, NoneFacts DEF Inv, CommandInv
  <2>4. \A k \in Keys : command.events[k] <= got[k] /\ got[k] <= exchange[Symbol][k]
    BY <1>8, <2>3
  <2>5. TypeInv' /\ FilesInv' /\ DueInv'
    BY <1>4, <2>1 DEF Inv, TypeInv, FilesInv, Ordered, DueInv, Restored, stored
  <2>6. CommandInv'
    <3>1. NoOlder'
      <4>1. ASSUME NEW f \in files, f.name.symbol = Symbol, NEW k \in Keys,
                   f.events[k] > 0, got[k] > 0
            PROVE  f.events[k] <= got[k]
        <5>1. f.events[k] \in Nat /\ f.events[k] <= exchange[Symbol][k]
          BY <4>1, NoneFacts DEF Inv, FilesInv
        <5>2. CASE k \in page
          BY <1>8, <5>1, <5>2
        <5>3. CASE k \notin page
          <6>1. got[k] = command.events[k]
            BY <1>8, <5>3
          <6> QED
            BY <1>1, <4>1, <6>1 DEF Inv, CommandInv, NoOlder
        <5> QED
          BY <5>2, <5>3
      <4> QED
        BY <1>4, <2>1, <2>2, <4>1 DEF NoOlder, stored
    <3> QED
      BY <1>4, <2>1, <2>2, <2>3, <2>4, <3>1 DEF CommandInv
  <2>7. CoveredInv'
    <3> SUFFICES ASSUME NEW k \in Keys, InRange(k), k \notin lost,
                        more => k[1] < LastTime(page) + 1
                 PROVE  command.begun[k] <= got[k]
      BY <2>1 DEF CoveredInv, InRange
    <3>1. CASE k[1] < command.cursor \/ command.begun[k] = 0
      <4>1. command.begun[k] <= command.events[k]
        BY <1>1, <2>3, <3>1 DEF Inv, CoveredInv, lost
      <4> QED
        BY <2>3, <2>4, <4>1
    <3>2. CASE ~(k[1] < command.cursor) /\ command.begun[k] # 0
      <4>1. k[1] \in Nat /\ exchange[Symbol][k] > 0
        BY <2>3, <3>2, KeyFacts
      <4>2. k \in Found(Symbol, command.cursor, end)
        BY <1>2, <3>2, <4>1 DEF Found, InRange
      <4>3. /\ page # {}
            /\ LastTime(page) \in Nat
            /\ k[1] <= LastTime(page) \/ Cardinality(page) < Limit \/ LastTime(page) >= end
                 => k \in page \/ \E j \in page : j[1] = k[1]
        BY <1>2, <4>2, PageCovers
      <4>4. k \in page \/ \E j \in page : j[1] = k[1]
        <5>1. CASE more
          <6>1. k[1] < LastTime(page) + 1
            BY <5>1
          <6>2. k[1] <= LastTime(page)
            BY <4>1, <4>3, <6>1
          <6> QED
            BY <4>3, <6>2
        <5>2. CASE ~more
          <6>1. ~(Cardinality(page) >= Limit) \/ ~(LastTime(page) < end) \/ ~(LastTime(page) + 1 <= end)
            BY <4>3, <5>2 DEF MorePages, NextCursor
          <6>2. Cardinality(page) \in Nat
            BY PageFinite, FS_CardinalityType
          <6>3. Cardinality(page) < Limit \/ LastTime(page) >= end
            BY <1>2, <4>3, <6>1, <6>2, FundingAssumption
          <6> QED
            BY <4>3, <6>3
        <5> QED
          BY <5>1, <5>2
      <4>5. k \in page
        <5>1. k \notin CutBy(page)
          BY DEF lost
        <5> QED
          BY <4>2, <4>4, <5>1 DEF CutBy
      <4> QED
        BY <1>8, <2>3, <4>5
    <3> QED
      BY <3>1, <3>2
  <2> QED
    BY <2>5, <2>6, <2>7 DEF Inv
<1> QED
  BY <1>9, <1>10

-----------------------------------------------------------------------------
(* The three files and their registration. *)

(* The rest of the command stays as it is when only its pc moves on. *)
LEMMA PcMoves ==
  ASSUME Inv, command \in Fetches, NEW pc \in {"parquet", "manifest", "register"},
         command' = [command EXCEPT !.pc = pc]
  PROVE  /\ command' \in Fetches
         /\ command'.pc = pc /\ command'.todo = command.todo /\ command'.range = command.range
         /\ command'.events = command.events /\ command'.begun = command.begun
         /\ command'.cut = command.cut
         /\ Symbol' = Symbol /\ Name' = Name
         /\ command.pc # "get" => CoveredInv'
<1>1. /\ command' \in Fetches
      /\ command'.pc = pc /\ command'.todo = command.todo /\ command'.range = command.range
      /\ command'.events = command.events /\ command'.begun = command.begun
      /\ command'.cut = command.cut
  BY DEF Fetches
<1>2. Symbol' = Symbol /\ Name' = Name
  BY <1>1 DEF Symbol, Name
<1>3. command.pc # "get" => CoveredInv'
  BY <1>1 DEF Inv, CoveredInv, InRange
<1> QED
  BY <1>1, <1>2, <1>3

LEMMA NameFacts ==
  ASSUME Inv, command \in Fetches
  PROVE  /\ Name \in Names /\ Name.symbol = Symbol
         /\ \A k \in Keys : Name.rates[k] = Rate(Symbol, k, command.events[k])
         /\ Symbol \in Symbols /\ command.events \in Revisions
         /\ exchange[Symbol] \in Revisions
<1>1. /\ Symbol \in Symbols /\ command.events \in Revisions /\ exchange[Symbol] \in Revisions
      /\ command.range \in Ranges
  BY FetchFields DEF Inv, TypeInv, Symbol
<1>2. ASSUME NEW k \in Keys PROVE Rate(Symbol, k, command.events[k]) \in Rates \cup {NoRate}
  <2>1. command.events[k] \in Nat /\ exchange[Symbol][k] \in Nat
    BY <1>1, NoneFacts
  <2>2. command.events[k] <= exchange[Symbol][k] /\ exchange[Symbol][k] <= Len(RatesOf[Symbol][k])
    BY <1>1 DEF Inv, TypeInv, CommandInv
  <2>3. command.events[k] <= Len(RatesOf[Symbol][k])
    BY <1>1, <2>1, <2>2, LenFacts
  <2> QED
    BY <1>1, <2>1, <2>3, RateFacts
<1> QED
  BY <1>1, <1>2 DEF Name, Names

LEMMA RawKeeps ==
  ASSUME Inv, WriteRaw
  PROVE  Inv'
<1>1. command \in Fetches /\ command.pc = "raw" /\ command' = [command EXCEPT !.pc = "parquet"]
      /\ raw' = raw \cup {Name}
  BY PcTells DEF Inv, WriteRaw
<1>2. UNCHANGED <<exchange, files, manifests, registered, view, due>>
  BY DEF WriteRaw
<1>3. TypeInv' /\ FilesInv' /\ DueInv'
  <2>1. command' \in Fetches /\ Name \in Names
    BY <1>1, PcMoves, NameFacts
  <2> QED
    BY <1>1, <1>2, <2>1 DEF Inv, TypeInv, FilesInv, Ordered, DueInv, Restored
<1>4. CommandInv'
  <2>1. /\ command' \in Fetches /\ command'.pc = "parquet" /\ command'.events = command.events
        /\ command'.begun = command.begun /\ Symbol' = Symbol /\ Name' = Name
    BY <1>1, PcMoves
  <2> QED
    BY <1>1, <1>2, <2>1 DEF Inv, CommandInv, NoOlder
<1>5. CoveredInv'
  BY <1>1, PcMoves
<1> QED
  BY <1>3, <1>4, <1>5 DEF Inv

LEMMA ParquetKeeps ==
  ASSUME Inv, WriteParquet
  PROVE  Inv'
<1> DEFINE n == Cardinality(files) + 1
           new == [name |-> Name, events |-> command.events, ingested |-> n]
<1>1. /\ command \in Fetches /\ command.pc = "parquet"
      /\ command' = [command EXCEPT !.pc = "manifest"]
      /\ files' = IF Written # {} THEN files ELSE files \cup {new}
      /\ UNCHANGED <<exchange, raw, manifests, registered, view, due>>
  BY PcTells DEF Inv, WriteParquet
<1>2. /\ command' \in Fetches /\ command'.pc = "manifest" /\ command'.events = command.events
      /\ command'.begun = command.begun /\ Symbol' = Symbol /\ Name' = Name
  BY <1>1, PcMoves
<1>3. /\ Name \in Names /\ Name.symbol = Symbol
      /\ \A k \in Keys : Name.rates[k] = Rate(Symbol, k, command.events[k])
      /\ command.events \in Revisions /\ exchange[Symbol] \in Revisions
  BY <1>1, NameFacts
<1>4. Cardinality(files) \in Nat /\ IsFiniteSet(files)
  BY FS_CardinalityType DEF Inv, FilesInv
<1>5. FilesInv' /\ \E f \in files' : f.name = Name
  <2>1. CASE Written # {}
    <3>1. files' = files /\ \E f \in files : f.name = Name
      BY <1>1, <2>1 DEF Written
    <3> QED
      BY <1>1, <3>1 DEF Inv, FilesInv, Ordered
  <2>2. CASE Written = {}
    <3>1. files' = files \cup {new}
      BY <1>1, <2>2
    <3>2. new.name = Name /\ new.events = command.events /\ new.ingested = n
      OBVIOUS
    <3>3. \A f \in files : f.ingested \in 1..(n - 1)
      BY <1>4 DEF Inv, FilesInv
    <3>4. new \notin files
      BY <1>4, <3>2, <3>3
    <3>5. IsFiniteSet(files') /\ Cardinality(files') = n
      BY <1>4, <3>1, <3>4, FS_AddElement
    <3>7. \A f \in files, k \in Keys :
             f.name.symbol = Symbol /\ f.events[k] > 0 /\ command.events[k] > 0
               => f.events[k] <= command.events[k]
      BY <1>1 DEF Inv, CommandInv, NoOlder
    <3>8. \A k \in Keys : command.events[k] <= exchange[Symbol][k]
      BY <1>1 DEF Inv, CommandInv
    <3> HIDE DEF new, n
    <3>9. n \in Nat \ {0} /\ n - 1 \in Nat
      BY <1>4 DEF n
    <3>10. ASSUME NEW f \in files'
           PROVE  /\ f.name \in Names /\ f.events \in Revisions
                  /\ f.ingested \in 1..n
                  /\ \A k \in Keys : /\ f.events[k] <= exchange[f.name.symbol][k]
                                     /\ f.name.rates[k] = Rate(f.name.symbol, k, f.events[k])
      <4>1. CASE f \in files
        <5>1. f.ingested \in 1..n
          BY <3>3, <3>9, <4>1
        <5> QED
          BY <4>1, <5>1 DEF Inv, FilesInv
      <4>2. CASE f = new
        BY <1>3, <3>2, <3>8, <3>9, <4>2
      <4> QED
        BY <3>1, <4>1, <4>2
    <3>11. ASSUME NEW f \in files', NEW g \in files', f.ingested = g.ingested PROVE f = g
      <4>1. f \in files /\ g \in files => f = g
        BY <3>11 DEF Inv, FilesInv
      <4>2. \A h \in files : h.ingested # n
        BY <3>3, <3>9
      <4> QED
        BY <3>1, <3>2, <3>11, <4>1, <4>2
    <3>12. ASSUME NEW f \in files', NEW g \in files' PROVE Ordered(f, g)
      <4>1. CASE f \in files /\ g \in files
        BY <4>1 DEF Inv, FilesInv
      <4>2. CASE g = new
        <5>1. CASE f \in files
          BY <1>3, <3>2, <3>7, <4>2, <5>1 DEF Ordered
        <5>2. CASE f = new
          <6>1. \A k \in Keys : command.events[k] \in Nat
            BY <1>3, NoneFacts
          <6> QED
            BY <3>2, <4>2, <5>2, <6>1 DEF Ordered
        <5> QED
          BY <3>1, <5>1, <5>2
      <4>3. CASE f = new /\ g \in files
        <5>1. ~(n <= g.ingested)
          BY <3>3, <3>9, <4>3
        <5> QED
          BY <3>2, <4>3, <5>1 DEF Ordered
      <4> QED
        BY <3>1, <4>1, <4>2, <4>3
    <3>13. \A f, g \in files' : f.ingested = g.ingested => f = g
      BY <3>11
    <3>14. \E f \in files' : f.name = Name
      BY <3>1, <3>2
    <3>15. exchange' = exchange
      BY <1>1
    <3>16. FilesInv'
      BY <3>5, <3>10, <3>12, <3>13, <3>15 DEF FilesInv, Ordered
    <3> QED
      BY <3>14, <3>16
  <2> QED
    BY <2>1, <2>2
<1>6. files \subseteq files'
  BY <1>1
<1>7. TypeInv'
  <2>1. {f.name : f \in files} \subseteq {f.name : f \in files'}
    BY <1>6
  <2> QED
    BY <1>1, <1>2, <2>1 DEF Inv, TypeInv
<1>8. DueInv'
  BY <1>1, <1>6 DEF Inv, DueInv, Restored
<1>9. CommandInv'
  BY <1>1, <1>2, <1>5 DEF Inv, CommandInv
<1>10. CoveredInv'
  BY <1>1, PcMoves
<1> QED
  BY <1>5, <1>7, <1>8, <1>9, <1>10 DEF Inv

LEMMA ManifestKeeps ==
  ASSUME Inv, WriteManifest
  PROVE  Inv'
<1>1. /\ command \in Fetches /\ command.pc = "manifest"
      /\ command' = [command EXCEPT !.pc = "register"]
      /\ manifests' = manifests \cup {Name}
      /\ UNCHANGED <<exchange, raw, files, registered, view, due>>
  BY PcTells DEF Inv, WriteManifest
<1>2. /\ command' \in Fetches /\ command'.pc = "register" /\ command'.events = command.events
      /\ command'.begun = command.begun /\ Symbol' = Symbol /\ Name' = Name
  BY <1>1, PcMoves
<1>3. Name \in Names
  BY <1>1, NameFacts
<1>4. TypeInv' /\ FilesInv' /\ DueInv'
  BY <1>1, <1>2, <1>3 DEF Inv, TypeInv, FilesInv, Ordered, DueInv, Restored
<1>5. CommandInv'
  BY <1>1, <1>2 DEF Inv, CommandInv
<1>6. CoveredInv'
  BY <1>1, PcMoves
<1> QED
  BY <1>4, <1>5, <1>6 DEF Inv

LEMMA RegisterKeeps ==
  ASSUME Inv, Register
  PROVE  Inv'
<1> DEFINE found(k) == IF InRange(k) /\ k \notin command.cut /\ command.begun[k] > due[Symbol][k]
                         THEN command.begun[k] ELSE due[Symbol][k]
           last == Tail(command.todo) = <<>>
           next == Fetching(command.request, Tail(command.todo), command.range)
<1>1. /\ command \in Fetches /\ command.pc = "register"
      /\ registered' = registered \cup {Name}
      /\ due' = [due EXCEPT ![Symbol] = [k \in Keys |-> found(k)]]
      /\ command' = IF last THEN [pc |-> "catalog", request |-> command.request] ELSE next
      /\ UNCHANGED <<exchange, raw, files, manifests, view>>
  BY PcTells DEF Inv, Register
<1>2. /\ Name \in Names /\ Name.symbol = Symbol
      /\ Symbol \in Symbols /\ due[Symbol] \in Revisions /\ due \in [Symbols -> Revisions]
      /\ command.begun \in Revisions /\ command.request \in Requests
      /\ command.range \in Ranges /\ Tail(command.todo) \in Seq(Symbols)
  BY <1>1, NameFacts, FetchFields DEF Inv, TypeInv
<1>3. \A k \in Keys : found(k) \in Nat
  BY <1>2, NoneFacts
<1>4. \A s \in Symbols, k \in Keys :
         due'[s][k] = IF s = Symbol THEN found(k) ELSE due[s][k]
  BY <1>1, <1>2
<1>5. due' \in [Symbols -> Revisions]
  <2>1. [k \in Keys |-> found(k)] \in Revisions
    BY <1>3 DEF Revisions
  <2> QED
    BY <1>1, <1>2, <2>1
<1>6. /\ command' \in {Idle} \cup Catalogs \cup Fetches
      /\ CommandInv' /\ CoveredInv'
  <2>1. CASE last
    <3>1. command' \in Catalogs
      BY <1>1, <1>2, <2>1 DEF Catalogs
    <3>2. command' \notin Fetches
      BY <3>1, CommandKinds
    <3> QED
      BY <3>1, <3>2 DEF CommandInv, CoveredInv
  <2>2. CASE ~last
    <3>1. command' = next /\ UNCHANGED <<exchange, files>>
      BY <1>1, <2>2
    <3>2. Tail(command.todo) \in Seq(Symbols) \ {<<>>}
      BY <1>2, <2>2
    <3> QED
      BY <1>2, <3>1, <3>2, FetchingKeeps
  <2> QED
    BY <2>1, <2>2
<1>7. PICK f \in files : f.name = Name
  BY <1>1 DEF Inv, CommandInv
<1>8. Name \in raw /\ Name \in manifests
  BY <1>1 DEF Inv, CommandInv
<1>9. TypeInv'
  BY <1>1, <1>2, <1>5, <1>6, <1>7, <1>8 DEF Inv, TypeInv
<1>10. FilesInv'
  BY <1>1 DEF Inv, FilesInv, Ordered
<1>11. DueInv'
  <2>0. \A s, k : Restored(s, k)' <=> Restored(s, k)
    BY <1>1 DEF Restored
  <2> SUFFICES ASSUME NEW s \in Symbols, NEW k \in Keys, due'[s][k] > 0, ~Restored(s, k)
               PROVE  \E g \in files' : /\ g.name \in registered' /\ g.name.symbol = s
                                        /\ due'[s][k] <= g.events[k]
    BY <2>0 DEF DueInv
  <2>1. CASE due'[s][k] = due[s][k]
    <3>1. PICK g \in files : g.name \in registered /\ g.name.symbol = s /\ due[s][k] <= g.events[k]
      BY <2>1 DEF Inv, DueInv
    <3> QED
      BY <1>1, <2>1, <3>1
  <2>2. CASE due'[s][k] # due[s][k]
    <3>1. s = Symbol /\ InRange(k) /\ k \notin command.cut /\ due'[s][k] = command.begun[k]
      BY <1>4, <2>2
    <3>2. command.begun[k] <= command.events[k]
      BY <1>1, <3>1 DEF Inv, CoveredInv
    <3>3. f.name.symbol = s /\ f.name \in registered' /\ f \in files'
      BY <1>1, <1>2, <1>7, <3>1
    <3>4. command.events[k] \in Nat /\ command.begun[k] \in Nat /\ command.events[k] > 0
      BY <1>1, <1>2, <3>1, <3>2, FetchFields, NoneFacts
    <3>5. f.events[k] = command.events[k]
      <4>1. Rate(s, k, f.events[k]) = Rate(s, k, command.events[k])
        <5>1. Name.rates[k] = Rate(s, k, command.events[k])
          BY <1>1, <3>1, NameFacts
        <5>2. f.name.rates[k] = Rate(s, k, f.events[k])
          BY <3>3 DEF Inv, FilesInv
        <5> QED
          BY <1>7, <5>1, <5>2
      <4>2. f.events[k] \in Nat /\ f.events[k] <= exchange[s][k]
        BY <3>3, NoneFacts DEF Inv, FilesInv
      <4>3. command.events[k] <= exchange[s][k]
        BY <1>1, <3>1 DEF Inv, CommandInv
      <4>4. exchange[s][k] \in Nat /\ exchange[s][k] <= Len(RatesOf[s][k])
        BY NoneFacts DEF Inv, TypeInv
      <4>5. f.events[k] <= Len(RatesOf[s][k]) /\ command.events[k] <= Len(RatesOf[s][k])
        BY <3>4, <4>2, <4>3, <4>4, LenFacts
      <4>6. Rate(s, k, command.events[k]) # NoRate
            /\ Rate(s, k, command.events[k]) = RatesOf[s][k][command.events[k]]
        BY <3>4, <4>5, RateFacts
      <4>7. f.events[k] > 0 /\ RatesOf[s][k][f.events[k]] = RatesOf[s][k][command.events[k]]
        BY <4>1, <4>2, <4>5, <4>6, RateFacts
      <4>8. f.events[k] \in 1..exchange[s][k] /\ command.events[k] \in 1..exchange[s][k]
        BY <3>4, <4>2, <4>3, <4>4, <4>7
      <4> QED
        BY <4>7, <4>8 DEF Restored
    <3> QED
      BY <3>1, <3>2, <3>3, <3>5
  <2> QED
    BY <2>1, <2>2
<1> QED
  BY <1>6, <1>9, <1>10, <1>11 DEF Inv

-----------------------------------------------------------------------------
(* The catalogue. *)

(* Of registered files there is one that was ingested last; what is served *)
(* of an event is its revision there, published and no older than in any   *)
(* registered file.                                                        *)
LEMMA LatestServed ==
  ASSUME Inv, NEW s \in Symbols, NEW k \in Keys
  PROVE  /\ Served(s, k) \in Nat /\ Served(s, k) <= exchange[s][k]
         /\ s \in Requested =>
              \A f \in files : f.name \in registered /\ f.name.symbol = s /\ f.events[k] > 0
                              => f.events[k] <= Served(s, k)
<1> DEFINE rows == {f \in files : /\ f.name \in registered /\ f.name.symbol = s
                                  /\ s \in Requested /\ f.events[k] > 0}
           T == {f.ingested : f \in rows}
           top == CHOOSE f \in rows : \A g \in rows : KeepsLatest(f, g)
<1>1. exchange[s][k] \in Nat
  BY NoneFacts DEF Inv, TypeInv
<1>2. CASE rows = {}
  <2>1. Served(s, k) = 0
    BY <1>2 DEF Served
  <2>2. ASSUME s \in Requested, NEW f \in files, f.name \in registered, f.name.symbol = s,
               f.events[k] > 0
        PROVE  FALSE
    BY <1>2, <2>2
  <2>3. 0 \in Nat /\ 0 <= exchange[s][k]
    BY <1>1, FundingAssumption
  <2> QED
    BY <2>1, <2>2, <2>3
<1>3. CASE rows # {}
  <2>1. Served(s, k) = top.events[k]
    BY <1>3 DEF Served
  <2>2. IsFiniteSet(rows) /\ rows \subseteq files
    BY FS_Subset DEF Inv, FilesInv
  <2>3. \A f \in rows : f.ingested \in Nat
    BY DEF Inv, FilesInv
  <2>4. IsFiniteSet(T)
    <3> DEFINE h == [f \in rows |-> f.ingested]
    <3> HIDE DEF rows
    <3>1. h \in Surjection(rows, T)
      BY DEF Surjection
    <3> HIDE DEF h, T
    <3> QED
      BY <2>2, <3>1, FS_Surjection
  <2>5. \E f \in rows : \A g \in rows : KeepsLatest(f, g)
    <3>1. T \in SUBSET Nat /\ T # {}
      BY <1>3, <2>3
    <3>2. PICK x \in T : \A y \in T : x >= y
      BY <2>4, <3>1, LargestExists
    <3> QED
      BY <3>2 DEF KeepsLatest
  <2>6. top \in rows /\ \A g \in rows : top.ingested >= g.ingested
    BY <2>5 DEF KeepsLatest
  <2> HIDE DEF top
  <2>7. top \in files /\ top.name.symbol = s /\ top.events[k] > 0
    BY <2>6
  <2>8. top.events[k] <= exchange[s][k] /\ top.events \in Revisions
    BY <2>7 DEF Inv, FilesInv
  <2>9. top.events[k] \in Nat
    BY <2>8, NoneFacts
  <2>10. ASSUME s \in Requested, NEW f \in files, f.name \in registered, f.name.symbol = s,
                f.events[k] > 0
         PROVE  f.events[k] <= top.events[k]
    <3>1. f \in rows
      BY <2>10
    <3>2. f.ingested <= top.ingested
      BY <2>3, <2>6, <3>1
    <3> QED
      BY <2>7, <2>10, <3>2 DEF Inv, FilesInv, Ordered
  <2> QED
    BY <2>1, <2>8, <2>9, <2>10
<1> QED
  BY <1>2, <1>3

LEMMA RebuildKeeps ==
  ASSUME Inv, RebuildCatalog
  PROVE  Inv'
<1>1. /\ view' = [s \in Symbols |-> [k \in Keys |-> Served(s, k)]] /\ command' = Idle
      /\ UNCHANGED <<exchange, raw, files, manifests, registered, due>>
  BY DEF RebuildCatalog
<1>2. view' \in [Symbols -> Revisions]
  BY <1>1, LatestServed DEF Revisions
<1>3. \A s \in Symbols, k \in Keys : view'[s][k] <= exchange'[s][k]
  BY <1>1, LatestServed
<1>4. TypeInv'
  BY <1>1, <1>2, <1>3 DEF Inv, TypeInv
<1>5. FilesInv' /\ CommandInv' /\ CoveredInv'
  BY <1>1, CommandKinds DEF Inv, FilesInv, Ordered, CommandInv, CoveredInv
<1>6. DueInv'
  BY <1>1 DEF Inv, DueInv, Restored
<1> QED
  BY <1>4, <1>5, <1>6 DEF Inv

LEMMA NextInv == Inv /\ [Next]_vars => Inv'
<1> SUFFICES ASSUME Inv, [Next]_vars PROVE Inv'
  OBVIOUS
<1>1. CASE \E s \in Symbols, k \in Keys : Publish(s, k) \/ Revise(s, k)
  BY <1>1, PublishKeeps
<1>2. CASE \E request \in Requests, range \in Ranges : Start(request, range)
  BY <1>2, StartKeeps
<1>3. CASE GetFails
  BY <1>3, Retries
<1>4. CASE GetRefused \/ Killed
  BY <1>4, EndsKeep DEF GetRefused, Fail, Killed, stored
<1>5. CASE GetPage
  BY <1>5, PageKeeps
<1>6. CASE WriteRaw
  BY <1>6, RawKeeps
<1>7. CASE WriteParquet
  BY <1>7, ParquetKeeps
<1>8. CASE WriteManifest
  BY <1>8, ManifestKeeps
<1>9. CASE Register
  BY <1>9, RegisterKeeps
<1>10. CASE RebuildCatalog
  BY <1>10, RebuildKeeps
<1>11. CASE UNCHANGED vars
  <2>1. UNCHANGED <<exchange, command, raw, files, manifests, registered, view, due>>
    BY <1>11 DEF vars
  <2>2. Symbol' = Symbol /\ Name' = Name
    BY <2>1 DEF Symbol, Name
  <2>3. TypeInv' /\ FilesInv'
    BY <2>1 DEF Inv, TypeInv, FilesInv, Ordered
  <2>4. CommandInv'
    BY <2>1, <2>2 DEF Inv, CommandInv, NoOlder
  <2>5. CoveredInv' /\ DueInv'
    BY <2>1 DEF Inv, CoveredInv, InRange, DueInv, Restored
  <2> QED
    BY <2>3, <2>4, <2>5 DEF Inv
<1> QED
  BY <1>1, <1>2, <1>3, <1>4, <1>5, <1>6, <1>7, <1>8, <1>9, <1>10, <1>11 DEF Next, Step, Get

-----------------------------------------------------------------------------
(* Results. *)

LEMMA AlwaysInv == Spec => []Inv
BY InitInv, NextInv, PTL DEF Spec

(* Every variable has its type; a file is registered only when its raw     *)
(* payload, its Parquet file and its manifest are on disk, and nothing is  *)
(* served that the exchange did not publish.                               *)
THEOREM TypeCorrect == Spec => []TypeOK
<1>1. Inv => TypeOK
  <2> SUFFICES ASSUME Inv PROVE TypeOK
    OBVIOUS
  <2>1. command \in Commands
    <3>1. Catalogs \subseteq Commands /\ Idle \in Commands
      BY DEF Catalogs, Commands
    <3>2. ASSUME NEW c \in Fetches PROVE c \in Commands
      BY DEF Fetches, Commands
    <3> QED
      BY <3>1, <3>2 DEF Inv, TypeInv
  <2>2. Cardinality(files) \in Nat
    BY FS_CardinalityType DEF Inv, FilesInv
  <2>3. ASSUME NEW f \in files
        PROVE  f.name \in Names /\ f.events \in Revisions /\ f.ingested \in Nat
    BY <2>2 DEF Inv, FilesInv
  <2> QED
    BY <2>1, <2>3 DEF Inv, TypeInv, TypeOK
<1> QED
  BY <1>1, AlwaysInv, PTL

(* After a sync the view serves every event of the range that had been     *)
(* published when it began, in a revision no older, however many earlier   *)
(* syncs overlapped it, failed or were killed, and however many events the *)
(* exchange published at one time: all of those that no page cut off at    *)
(* its last millisecond, unless a rate went back to what it was before.    *)
THEOREM SyncServes == Spec => SyncIsServed
<1>1. ASSUME Inv, RebuildCatalog
      PROVE  \A s \in Requested, k \in Keys : ~Restored(s, k) => view'[s][k] >= due[s][k]
  <2> SUFFICES ASSUME NEW s \in Requested, NEW k \in Keys, ~Restored(s, k)
               PROVE  view'[s][k] >= due[s][k]
    OBVIOUS
  <2>1. s \in Symbols
    <3>1. command \in Catalogs
      BY <1>1, PcTells DEF Inv, RebuildCatalog
    <3>2. command.request \in Seq(Symbols)
      BY <3>1, FundingAssumption DEF Catalogs
    <3> QED
      BY <3>2 DEF Requested
  <2>2. view'[s][k] = Served(s, k)
    BY <1>1, <2>1 DEF RebuildCatalog
  <2>3. Served(s, k) \in Nat /\ due[s][k] \in Nat
    BY <1>1, <2>1, LatestServed, NoneFacts DEF Inv, TypeInv
  <2>4. CASE due[s][k] = 0
    BY <2>2, <2>3, <2>4
  <2>5. CASE due[s][k] > 0
    <3>1. PICK f \in files : f.name \in registered /\ f.name.symbol = s /\ due[s][k] <= f.events[k]
      BY <1>1, <2>1, <2>5 DEF Inv, DueInv
    <3>2. f.events \in Revisions
      BY <1>1 DEF Inv, FilesInv
    <3>3. f.events[k] \in Nat /\ f.events[k] > 0
      BY <2>3, <2>5, <3>1, <3>2, NoneFacts
    <3>4. f.events[k] <= Served(s, k)
      BY <1>1, <2>1, <3>1, <3>3, LatestServed
    <3> QED
      BY <2>2, <2>3, <3>1, <3>3, <3>4
  <2> QED
    BY <2>3, <2>4, <2>5
<1>2. Inv /\ [Next]_vars =>
        [RebuildCatalog => \A s \in Requested, k \in Keys :
                             ~Restored(s, k) => view'[s][k] >= due[s][k]]_vars
  BY <1>1
<1> QED
  BY <1>2, AlwaysInv, PTL DEF Spec, SyncIsServed
=============================================================================
