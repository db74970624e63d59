--------------------------- MODULE EncodeService ---------------------------
(***************************************************************************)
(* What EncodeCached32 promises to its callers: any number of goroutines   *)
(* may be inside a call at the same time, every call returns exactly what  *)
(* Encode32 returns for its own key, and no call depends on another one.   *)
(* There is no cache here.  Cache.tla implements this specification.       *)
(***************************************************************************)

CONSTANTS
    Callers,    \* goroutines
    Keys,       \* the 32-byte inputs
    Strings,    \* the strings Encode32 can return
    Encode32    \* Encode32[k]: the string Encode32 returns for key k

VARIABLE
    call        \* call[c]: what goroutine c is doing

Idle       == [state |-> "idle"]
Busy(k)    == [state |-> "busy", key |-> k]
Done(k, s) == [state |-> "done", key |-> k, result |-> s]

CallState ==
    {Idle} \cup {Busy(k) : k \in Keys}
           \cup {Done(k, s) : k \in Keys, s \in Strings}

\* A call is idle, busy with a key, or done with a key and a string.
TypeOK == call \in [Callers -> CallState]

Init == call = [c \in Callers |-> Idle]

Invoke(c, k) ==
    /\ call[c] = Idle
    /\ call' = [call EXCEPT ![c] = Busy(k)]

\* The answer depends on the key alone.
Respond(c, k) ==
    /\ call[c] = Busy(k)
    /\ call' = [call EXCEPT ![c] = Done(k, Encode32[k])]

\* The caller takes the result; it may call again.
Finish(c, k, s) ==
    /\ call[c] = Done(k, s)
    /\ call' = [call EXCEPT ![c] = Idle]

Next ==
    \E c \in Callers, k \in Keys :
        \/ Invoke(c, k)
        \/ Respond(c, k)
        \/ \E s \in Strings : Finish(c, k, s)

\* A call that was made returns.
Fairness == \A c \in Callers : WF_call(\E k \in Keys : Respond(c, k))

Spec == Init /\ [][Next]_call /\ Fairness
=============================================================================
