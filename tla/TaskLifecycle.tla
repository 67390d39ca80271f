--------------------------- MODULE TaskLifecycle ---------------------------
(***************************************************************************)
(* What the Task controller promises its users about a Task: which changes *)
(* of its status they may see, and what each change says about the         *)
(* containers in the worker Pods.  Nothing here knows of caches, queues,   *)
(* retries or failing calls.                                               *)
(***************************************************************************)
EXTENDS Naturals

CONSTANTS Tasks, Pods, NoPod

VARIABLES
  status,    \* of every Task name: incarnation, existence, Pod and state
  launched,  \* <<p, t>>: Pod p was given a container for Task t
  ended      \* <<p, t>>: that container has terminated

vars == <<status, launched, ended>>

Unborn == [uid |-> 0, exists |-> FALSE, podName |-> NoPod, state |-> "New"]

Init == status = [t \in Tasks |-> Unborn] /\ launched = {} /\ ended = {}

Create(t) ==
  /\ ~status[t].exists
  /\ status' = [status EXCEPT ![t] = [Unborn EXCEPT !.uid = status[t].uid + 1,
                                                   !.exists = TRUE]]
  /\ UNCHANGED <<launched, ended>>

Delete(t) ==
  /\ status[t].exists
  /\ status' = [status EXCEPT ![t] = [Unborn EXCEPT !.uid = status[t].uid]]
  /\ UNCHANGED <<launched, ended>>

(* A container may be launched for any Task name that was ever created,    *)
(* and more than once: execution is at least once, not exactly once.       *)
Launch(p, t) ==
  /\ status[t].uid > 0
  /\ launched' = launched \cup {<<p, t>>}
  /\ UNCHANGED <<status, ended>>

End(p, t) ==
  /\ <<p, t>> \in launched
  /\ ended' = ended \cup {<<p, t>>}
  /\ UNCHANGED <<status, launched>>

(* Only an unbound Task is bound, and only to a Pod that has its container. *)
Bind(p, t) ==
  /\ status[t].exists /\ status[t].podName = NoPod /\ status[t].state = "New"
  /\ <<p, t>> \in launched
  /\ status' = [status EXCEPT ![t].podName = p, ![t].state = "Running"]
  /\ UNCHANGED <<launched, ended>>

(* Only a Task whose container in the Pod it is bound to ended is finished. *)
Finish(t) ==
  /\ status[t].exists /\ status[t].state = "Running"
  /\ <<status[t].podName, t>> \in ended
  /\ status' = [status EXCEPT ![t].state = "Finished"]
  /\ UNCHANGED <<launched, ended>>

Next ==
  \E t \in Tasks :
    \/ Create(t) \/ Delete(t) \/ Finish(t)
    \/ \E p \in Pods : Launch(p, t) \/ End(p, t) \/ Bind(p, t)

Spec == Init /\ [][Next]_vars

=============================================================================
