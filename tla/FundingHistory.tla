---------------------------- MODULE FundingHistory ----------------------------
(***************************************************************************)
(* funding sync: the public funding events of a range are fetched page by  *)
(* page through the retrying REST client, written as three files whose     *)
(* name holds the checksum of the content, registered, and served by a     *)
(* view that keeps, of each event, the row ingested last.                  *)
(*                                                                         *)
(* An event is a key <<funding_time_ms, rate_type>>; the exchange          *)
(* publishes events in the order of time, several of one time among them,  *)
(* and may revise the rate of one, also back to a rate it had before.  The *)
(* revision of an event is a number, its rate what RatesOf gives for it.   *)
(* One command runs at a time; it may be killed between any two steps.     *)
(* ingested_at_ns is a wall clock that never goes back.                    *)
(***************************************************************************)
EXTENDS Integers, FiniteSets, Sequences, FiniteSetsExt

CONSTANTS
  Symbols,       \* the instruments
  Keys,          \* the events of each: pairs <<time, type>>
  Rates, NoRate, \* the rates of events; that of an event not received
  RatesOf,       \* the rates published of each event: the first, then each revision
  Ranges,        \* the ranges <<start, end>> a command may ask for
  Requests,      \* sequences of distinct symbols: --symbols
  Limit,         \* events per page (1000 in the code)
  MaxAttempts,   \* attempts of one GET
  MaxFiles       \* bound: no command starts once there are so many raw files

(* parse_symbols refuses an empty list; ranges and keys have timestamps in *)
(* milliseconds.                                                           *)
ASSUME FundingAssumption ==
  /\ IsFiniteSet(Keys) /\ \A k \in Keys : k[1] \in Nat
  /\ NoRate \notin Rates /\ RatesOf \in [Symbols -> [Keys -> Seq(Rates)]]
  /\ Ranges \subseteq Nat \X Nat
  /\ Requests \subseteq Seq(Symbols) \ {<<>>}
  /\ Limit \in Nat \ {0} /\ MaxAttempts \in Nat \ {0}
  /\ MaxFiles \in Nat

VARIABLES
  exchange,      \* the revision of each event that the exchange publishes, 0 before it does
  command,       \* the command being executed
  raw, files, manifests,   \* raw JSON; Parquet with its ingestion time; manifests
  registered,    \* the data files of the state store
  view,          \* DuckDB funding_rates: the revision served of each event, 0 if absent
  due            \* what the completed syncs were to find: exchange when each began

vars == <<exchange, command, raw, files, manifests, registered, view, due>>

None == [k \in Keys |-> 0]
Idle == [pc |-> "idle"]

Init ==
  /\ exchange = [s \in Symbols |-> None]
  /\ command = Idle
  /\ raw = {} /\ files = {} /\ manifests = {} /\ registered = {}
  /\ view = [s \in Symbols |-> None]
  /\ due = [s \in Symbols |-> None]

-----------------------------------------------------------------------------
(* The exchange. *)

Rate(s, k, n) == IF n = 0 THEN NoRate ELSE RatesOf[s][k][n]

Publish(s, k) ==
  /\ exchange[s][k] = 0 /\ RatesOf[s][k] # <<>>
  /\ \A j \in Keys : exchange[s][j] > 0 => j[1] <= k[1]
  /\ exchange' = [exchange EXCEPT ![s][k] = 1]
  /\ UNCHANGED <<command, raw, files, manifests, registered, view, due>>

Revise(s, k) ==
  /\ 0 < exchange[s][k] /\ exchange[s][k] < Len(RatesOf[s][k])
  /\ exchange' = [exchange EXCEPT ![s][k] = @ + 1]
  /\ UNCHANGED <<command, raw, files, manifests, registered, view, due>>

(* A page: the first Limit events from the cursor to the end, by time; of  *)
(* the events of its last time any, if not all of them fit.                *)
Found(s, cursor, end) ==
  {k \in Keys : exchange[s][k] > 0 /\ cursor <= k[1] /\ k[1] <= end}
Pages(s, cursor, end) ==
  {page \in SUBSET Found(s, cursor, end) :
     /\ Cardinality(page) <= Limit
     /\ page # Found(s, cursor, end) => Cardinality(page) = Limit
     /\ \A k \in page, j \in Found(s, cursor, end) \ page : k[1] <= j[1]}

-----------------------------------------------------------------------------
(* The command. *)

Symbol == Head(command.todo)
InRange(k) == command.range[1] <= k[1] /\ k[1] <= command.range[2]

(* begun and cut only serve to say what a sync is to find: what was        *)
(* published when it began, and what CutBy says of its pages.              *)
Fetching(request, todo, range) ==
  [pc |-> "get", request |-> request, todo |-> todo, range |-> range, cursor |-> range[1],
   attempt |-> 1, events |-> None, begun |-> exchange[Head(todo)], cut |-> {}]

Start(request, range) ==
  /\ command = Idle /\ Cardinality(raw) < MaxFiles
  /\ command' = Fetching(request, request, range)
  /\ UNCHANGED <<exchange, raw, files, manifests, registered, view, due>>

Fail == command' = Idle

(* Mutant: the count of attempts starts again after the last one. *)
RetryForever == command' = [command EXCEPT !.attempt = (@ % MaxAttempts) + 1]

(* Another attempt after 429, 5xx, a timeout or a lost connection; after   *)
(* the last one, an error.                                                 *)
Retry ==
  IF command.attempt < MaxAttempts
    THEN command' = [command EXCEPT !.attempt = @ + 1]
    ELSE Fail

GetFails ==
  /\ command.pc = "get"
  /\ Retry
  /\ UNCHANGED <<exchange, raw, files, manifests, registered, view, due>>

(* Any other status from 400 on, and a body that is not JSON whatever the  *)
(* status: no second attempt.                                              *)
GetRefused ==
  /\ command.pc = "get"
  /\ Fail
  /\ UNCHANGED <<exchange, raw, files, manifests, registered, view, due>>

LastTime(page) == Max({k[1] : k \in page})

(* Mutant: the event after the last of the page is skipped. *)
CursorPastNext(page) == LastTime(page) + 2

NextCursor(page) == LastTime(page) + 1

(* The loop of _fetch_all after a page that is not empty. *)
MorePages(page) == Cardinality(page) >= Limit /\ LastTime(page) < command.range[2]

(* The events of the last time of a page that are not on it: the next page *)
(* begins after that time.                                                 *)
CutBy(page) ==
  {k \in Found(Symbol, command.cursor, command.range[2]) \ page :
     \E j \in page : j[1] = k[1]}

GetPage ==
  /\ command.pc = "get"
  /\ \E page \in Pages(Symbol, command.cursor, command.range[2]) :
       LET got == [k \in Keys |-> IF k \in page THEN exchange[Symbol][k]
                                  ELSE command.events[k]]
           received == [command EXCEPT !.events = got, !.cut = @ \cup CutBy(page)]
       IN command' =
            IF page # {} /\ MorePages(page) /\ NextCursor(page) <= command.range[2]
              THEN [received EXCEPT !.cursor = NextCursor(page), !.attempt = 1]
              ELSE IF got = None THEN Idle      \* no funding events returned
              ELSE [received EXCEPT !.pc = "raw"]
  /\ UNCHANGED <<exchange, raw, files, manifests, registered, view, due>>

-----------------------------------------------------------------------------
(* Files: the name is the symbol, the range and the checksum of the rates. *)

Name == [symbol |-> Symbol, range |-> command.range,
         rates |-> [k \in Keys |-> Rate(Symbol, k, command.events[k])]]

(* Mutant: the test for the file looks at the raw payload. *)
RawWritten == raw \cap {Name}

Written == {f \in files : f.name = Name}

WriteRaw ==
  /\ command.pc = "raw"
  /\ raw' = raw \cup {Name}
  /\ command' = [command EXCEPT !.pc = "parquet"]
  /\ UNCHANGED <<exchange, files, manifests, registered, view, due>>

WriteParquet ==
  /\ command.pc = "parquet"
  /\ files' = IF Written # {} THEN files
              ELSE files \cup {[name |-> Name, events |-> command.events,
                                ingested |-> Cardinality(files) + 1]}
  /\ command' = [command EXCEPT !.pc = "manifest"]
  /\ UNCHANGED <<exchange, raw, manifests, registered, view, due>>

WriteManifest ==
  /\ command.pc = "manifest"
  /\ manifests' = manifests \cup {Name}
  /\ command' = [command EXCEPT !.pc = "register"]
  /\ UNCHANGED <<exchange, raw, files, registered, view, due>>

(* register_data_file, then the next symbol or the catalogue.  The sync of *)
(* the symbol was to find what was published when it began, but for what   *)
(* its pages cut.                                                          *)
Register ==
  /\ command.pc = "register"
  /\ registered' = registered \cup {Name}
  /\ due' = [due EXCEPT ![Symbol] =
               [k \in Keys |->
                  IF InRange(k) /\ k \notin command.cut /\ command.begun[k] > @[k]
                    THEN command.begun[k] ELSE @[k]]]
  /\ command' = IF Tail(command.todo) = <<>>
                  THEN [pc |-> "catalog", request |-> command.request]
                  ELSE Fetching(command.request, Tail(command.todo), command.range)
  /\ UNCHANGED <<exchange, raw, files, manifests, view>>

Requested == {command.request[i] : i \in DOMAIN command.request}

KeepsLatest(f, g) == f.ingested >= g.ingested

(* rebuild_funding_catalog: the view is replaced by the registered files   *)
(* of the symbols of THIS command.                                         *)
Served(s, k) ==
  LET rows == {f \in files : /\ f.name \in registered /\ f.name.symbol = s
                             /\ s \in Requested /\ f.events[k] > 0}
  IN IF rows = {} THEN 0
     ELSE (CHOOSE f \in rows : \A g \in rows : KeepsLatest(f, g)).events[k]

RebuildCatalog ==
  /\ command.pc = "catalog"
  /\ view' = [s \in Symbols |-> [k \in Keys |-> Served(s, k)]]
  /\ command' = Idle
  /\ UNCHANGED <<exchange, raw, files, manifests, registered, due>>

Killed ==
  /\ command # Idle
  /\ command' = Idle
  /\ UNCHANGED <<exchange, raw, files, manifests, registered, view, due>>

Get == GetFails \/ GetRefused \/ GetPage
Step ==
  \/ Get
  \/ WriteRaw
  \/ WriteParquet
  \/ WriteManifest
  \/ Register
  \/ RebuildCatalog

Next ==
  \/ \E s \in Symbols, k \in Keys : Publish(s, k)
  \/ \E s \in Symbols, k \in Keys : Revise(s, k)
  \/ \E request \in Requests, range \in Ranges : Start(request, range)
  \/ Step
  \/ Killed

Spec == Init /\ [][Next]_vars

(* The event loop goes on with the command. *)
FairSpec == Spec /\ WF_vars(Step)

-----------------------------------------------------------------------------
Revisions == [Keys -> Nat]
Names == [symbol : Symbols, range : Ranges, rates : [Keys -> Rates \cup {NoRate}]]
Commands ==
  {Idle} \cup [pc : {"catalog"}, request : Requests] \cup
  [pc : {"get", "raw", "parquet", "manifest", "register"}, request : Requests,
   todo : Seq(Symbols), range : Ranges, cursor : Int, attempt : 1..MaxAttempts,
   events : Revisions, begun : Revisions, cut : SUBSET Keys]

(* Every variable has its type; a registered file is on disk with its raw  *)
(* payload and its manifest, and the view serves nothing that was not      *)
(* published.                                                              *)
TypeOK ==
  /\ exchange \in [Symbols -> Revisions]
  /\ command \in Commands
  /\ raw \subseteq Names /\ manifests \subseteq Names
  /\ \A f \in files : f.name \in Names /\ f.events \in Revisions /\ f.ingested \in Nat
  /\ registered \subseteq raw \cap manifests \cap {f.name : f \in files}
  /\ view \in [Symbols -> Revisions] /\ due \in [Symbols -> Revisions]
  /\ \A s \in Symbols, k \in Keys : view[s][k] <= exchange[s][k]

(* The rate of a published event was the same in two of its revisions. *)
Restored(s, k) ==
  \E m, n \in 1..exchange[s][k] : m # n /\ RatesOf[s][k][m] = RatesOf[s][k][n]

(* After a sync the view serves every event of the range that the exchange *)
(* had published when the sync began, in a revision that is no older: no   *)
(* event is lost on a page or between two, be it simultaneous with others  *)
(* of its page, and no file of an earlier or of a killed command covers a  *)
(* later revision (_fetch_all, the names of the files, ORDER BY            *)
(* ingested_at_ns DESC).                                                   *)
(* Two kinds of events are outside the claim, because the code does not    *)
(* serve them: those a full page cut off at its last millisecond, which    *)
(* are not due, and those whose rate went back to an earlier one, whose    *)
(* old file is found and keeps its old ingestion time.                     *)
SyncIsServed ==
  [][RebuildCatalog
       => \A s \in Requested, k \in Keys :
            ~Restored(s, k) => view'[s][k] >= due[s][k]]_vars

(* A command ends, whatever the network answers: retries are bounded and   *)
(* every page moves the cursor.                                            *)
SyncEnds == command # Idle ~> command = Idle
===============================================================================
