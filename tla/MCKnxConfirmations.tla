------------------------- MODULE MCKnxConfirmations -------------------------
(* Instances of KnxConfirmations for TLC.                                  *)
EXTENDS KnxConfirmations

(* A light with two command addresses, one of them with a state address.   *)
Light(cmd, state) == [dp |-> "light", dir |-> "BOTH", cmd |-> cmd, state |-> state]

MCBinding == 1..2
MCDp == {"light"}
MCGa == {"left", "right", "state"}
MCValue == {"on", "off"}
MCRaw == {"0", "1"}
MCEncode == [v \in MCValue |-> IF v = "on" THEN "1" ELSE "0"]
MCDecode == [r \in MCRaw |-> IF r = "1" THEN "on" ELSE "off"]
(* Each binding may move; the state address stays with the first.         *)
OwnState == <<{Light("left", "state"), Light("right", "state"), Light("left", NoGa)},
              {Light("right", NoGa), Light("left", NoGa)}>>
Apart == <<Light("left", "state"), Light("right", NoGa)>>
=============================================================================
