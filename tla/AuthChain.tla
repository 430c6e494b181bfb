----------------------------- MODULE AuthChain ------------------------------
(***************************************************************************)
(* The fallback loops of synnax/pkg/auth: MultiAuthenticator and its       *)
(* multiWriter try each wrapped Authenticator (Writer) in order and stop at *)
(* the first that succeeds (multi.go); password.Raw.Hash and               *)
(* Hashed.Validate try each registered hasher in order the same way        *)
(* (password.go).  Each call of the chain is one loop: a step per element  *)
(* tried, then the return.  An element's outcome is nondeterministic:       *)
(* success or an error of its own, named by its position.                  *)
(***************************************************************************)
EXTENDS Integers, Sequences, SequencesExt

CONSTANTS
    MaxChain        \* most elements in a chain

\* The loops of multi.go and of password.go.
MultiMethods == {"Authenticate", "Register", "UpdateUsername", "UpdatePassword"}
HasherMethods == {"Hash", "Validate"}
Methods == MultiMethods \cup HasherMethods

\* Error values: nil, an element's own error, and the sentinels of
\* password.go, possibly combined with the last hasher's error.
Nil == [err |-> "nil", cause |-> "nil"]
ElemErr(i) == [err |-> "elem", cause |-> i]
Running == [err |-> "running", cause |-> "nil"]

VARIABLES
    method,         \* the method being called
    outcome,        \* Seq of BOOLEAN: whether element i succeeds
    i,              \* the loop index (next element to try)
    err,            \* the loop's err variable
    ret             \* the returned error, or Running

vars == <<method, outcome, i, err, ret>>

----------------------------------------------------------------------------
(* password.go: errors.CombineErrors(Invalid / InvalidHash, err); with a  *)
(* nil err the sentinel is returned alone.                                *)
Sentinel(m) == IF m = "Hash" THEN "InvalidHash" ELSE "Invalid"
Combine(m, e) == [err |-> Sentinel(m), cause |-> IF e = Nil THEN "nil" ELSE e.cause]

\* Mutant: the hasher loops return the last error, as the multi loops do.
ExhaustedHashersLastErr(m, e) == e

(* The error a loop returns once every element has failed: multi.go       *)
(* returns its err variable, password.go combines it with a sentinel.     *)
Exhausted(m, e) ==
    IF m \in MultiMethods THEN e ELSE Combine(m, e)

Init ==
    /\ method \in Methods
    /\ outcome \in BoundedSeq(BOOLEAN, MaxChain)
    /\ i = 1
    /\ err = Nil
    /\ ret = Running

(* One iteration: call element i; on success return nil at once,          *)
(* otherwise keep its error in err and go on.                             *)
Try ==
    /\ ret = Running
    /\ i <= Len(outcome)
    /\ err' = IF outcome[i] THEN Nil ELSE ElemErr(i)
    /\ ret' = IF outcome[i] THEN Nil ELSE Running
    /\ i' = i + 1
    /\ UNCHANGED <<method, outcome>>

(* The loop ran out of elements. *)
Return ==
    /\ ret = Running
    /\ i > Len(outcome)
    /\ ret' = Exhausted(method, err)
    /\ UNCHANGED <<method, outcome, i, err>>

Next == Try \/ Return

Spec == Init /\ [][Next]_vars

----------------------------------------------------------------------------
\* Some element of the chain accepted the call.
SomeSucceeded == \E j \in DOMAIN outcome : outcome[j]

(* A password hash is produced, or a password validated, only when some   *)
(* registered hasher did so: with every hasher failing, and with no       *)
(* hasher registered at all, Hash and Validate return an error.           *)
HashersFailClosed ==
    (method \in HasherMethods /\ ret # Running) => ((ret = Nil) <=> SomeSucceeded)

(* The doc comment of MultiAuthenticator: the first Authenticator to       *)
(* succeed is used; credentials are accepted (and a writer operation       *)
(* done) only when some wrapped Authenticator accepted them.               *)
MultiFailsClosed ==
    (method \in MultiMethods /\ ret # Running) => ((ret = Nil) <=> SomeSucceeded)

=============================================================================
