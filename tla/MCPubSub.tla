------------------------------ MODULE MCPubSub ------------------------------
(* Small instances of PubSub for TLC.                                      *)
EXTENDS PubSub

Request(trigger, start, count, band, high, interval) ==
    [trigger |-> trigger, start |-> start, count |-> count, band |-> band,
     high |-> high, interval |-> interval, low |-> {}]

(* One source, and two kinds of subscriptions to it; the count of the      *)
(* first goes beyond its end.                                              *)
MCOneSource == << [start |-> 0, count |-> 1] >>

MCTwoKinds ==
    { Request("OnChange", 0, 2, 0, {}, FALSE),
      Request("OnThreshold", 0, 1, 0, {0}, FALSE) }

(* Two sources side by side, and the three kinds.                          *)
MCTwoSources == << [start |-> 0, count |-> 1], [start |-> 1, count |-> 1] >>

MCThreeKinds ==
    { Request("OnChange", 1, 2, 0, {}, FALSE),
      Request("OnThreshold", 0, 2, 0, {0}, FALSE),
      Request("Periodic", 1, 1, 0, {}, TRUE) }
=============================================================================
