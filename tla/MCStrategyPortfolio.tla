------------------------- MODULE MCStrategyPortfolio -------------------------
(***************************************************************************)
(* An instance of StrategyPortfolio: carry and trend share a grid of two   *)
(* folds; late misses an hour of it, cheap has its own costs, shifted has  *)
(* its folds elsewhere and narrow knows one symbol only.                   *)
(***************************************************************************)
EXTENDS StrategyPortfolio

MCExperiment == {"carry", "trend", "late", "cheap", "shifted", "narrow"}
Common == [dataset |-> 1, label |-> 1, execution |-> 1, cost |-> 2, split |-> 1]
MCSymbols == {1, 2}
MCIdentity ==
  [e \in MCExperiment |-> IF e = "cheap" THEN [Common EXCEPT !.cost = 0] ELSE Common]

Decided(t, long, short, price) ==
  [time |-> t, execution |-> t, price |-> price, funding |-> 1,
   weights |-> <<long, short>>]
Positions == {<<0, 0>>, <<1, -1>>, <<-1, 1>>}

(* Two folds of two hours. *)
FourHours ==
  {<< <<Decided(1, a[1], a[2], 1), Decided(2, b[1], b[2], -2)>>,
      <<Decided(3, c[1], c[2], 0), Decided(4, 1, 0, 3)>> >> :
     a \in Positions, b \in Positions, c \in {<<1, -1>>, <<-1, 1>>}}

MCBooks ==
  [e \in MCExperiment |->
     CASE e = "carry" -> FourHours
       [] e = "trend" ->
            {<< <<Decided(1, 1, -1, 0), Decided(2, 1, 1, 2)>>,
                <<Decided(3, -1, 1, 1), Decided(4, 0, -1, 0)>> >>}
       [] e = "late" ->
            {<< <<Decided(1, 1, 0, 0)>>, <<Decided(3, 1, 1, -36), Decided(4, 1, 1, 0)>> >>}
       [] e = "cheap" ->
            {<< <<Decided(1, 2, -1, 1), Decided(2, -2, 1, -40)>>,
                <<Decided(3, 0, 0, 0), Decided(4, 1, 0, 0)>> >>}
       [] e = "shifted" ->
            {<< <<Decided(1, 1, 0, 0), Decided(2, 1, 0, 0), Decided(3, 1, 0, 0)>>,
                <<Decided(4, 1, 0, 0)>> >>}
       [] OTHER ->
            {<< <<[Decided(1, 1, 0, 0) EXCEPT !.weights = <<1>>],
                  [Decided(2, 0, 0, 0) EXCEPT !.weights = <<1>>]>>,
                <<[Decided(3, 0, 0, 0) EXCEPT !.weights = <<1>>],
                  [Decided(4, 0, 0, 0) EXCEPT !.weights = <<0>>]>> >>}]

Sleeve(e, share) == [experiment |-> e, run |-> None, label |-> e, capital |-> share]
Declare(mode, policy, required, components) ==
  [mode |-> mode, policy |-> policy, required |-> required, components |-> components]

Netted(components) == Declare("netted", "strict", Fields, components)
Both == Netted(<<Sleeve("carry", 2), Sleeve("trend", 1)>>)
Alone == Netted(<<[Sleeve("carry", 1) EXCEPT !.run = <<"carry", 1>>]>>)
Twins ==
  Netted(<<[Sleeve("carry", 1) EXCEPT !.label = "twin"], [Sleeve("trend", 1) EXCEPT !.label = "twin"]>>)

MCFiles ==
  {<<Both>>, <<Alone, Both>>, <<Twins>>,
   <<Netted(<<Sleeve("carry", 1), Sleeve("shifted", 1)>>)>>,
   <<Netted(<<Sleeve("carry", 1), Sleeve("narrow", 1)>>)>>,
   <<Declare("netted", "intersection", Fields, <<Sleeve("carry", 1), Sleeve("late", 1)>>), Alone>>,
   <<Declare("sleeve", "strict", {}, <<Sleeve("carry", 1), Sleeve("cheap", 3)>>)>>}
=============================================================================
