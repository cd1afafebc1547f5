---------------------------- MODULE MCItemStream ----------------------------
(* Instances of ItemStream for TLC. *)
EXTENDS ItemStream

CONSTANT s2

Setting(server, linger, lifetime, threaded) ==
    [server |-> server, linger |-> linger, lifetime |-> lifetime,
     threaded |-> threaded]

(* The thread server without lingering: what a close deletes meanwhile the *)
(* disconnect does not find.                                               *)
Discarding == Setting("thread", FALSE, FALSE, TRUE)

Usual == {Setting("thread", TRUE, FALSE, TRUE), Setting("thread", TRUE, TRUE, TRUE),
          Setting("multiplex", TRUE, TRUE, FALSE), Setting("multiplex", FALSE, FALSE, FALSE),
          Discarding}

(* The configuration of the run stream_orphan. *)
OnlyDiscarding == {Discarding}

(* A second stream takes part without lingering, as long as there is one   *)
(* connection: what clients ask for is not a matter of fairness.           *)
Bounded == iter[s2] # "none" => used = 1 /\ ~config.linger

MCSpec == Init /\ [][Next /\ Bounded']_vars /\ Fairness
=============================================================================
