---------------------------- MODULE MCProxyCall ----------------------------
(* Instances of ProxyCall for TLC. *)
EXTENDS ProxyCall

Setting(options, seqMod) == [options |-> options, seqMod |-> seqMod]

(* One-bit sequence numbers suffice where a connection is released after   *)
(* an error.  On an existing socket they must outlast the late replies.    *)
Released == Setting({"timeouts", "oneway_threads", "nested_errors"}, 2)

Kept == Setting({"keep_open", "timeouts", "oneway_threads"}, 4)

Multiplexed == Setting({"multiplex"}, 2)

Usual == {Released, Kept, Multiplexed}

KeptNested == {Setting({"keep_open", "timeouts", "nested_errors"}, 8)}
=============================================================================
