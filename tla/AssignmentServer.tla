-------------------------- MODULE AssignmentServer --------------------------
(***************************************************************************)
(* The assignment server of one session as runSession sees it (the         *)
(* interfaces AssignmentServer and runtimeController of                     *)
(* src/egress/runtime.go): a record that the session stops and sets        *)
(* draining, and that handles assignments on its own meanwhile.  Worker is *)
(* shown to obey this contract; SessionRuntime runs one such server for    *)
(* every session it serves.                                                *)
(***************************************************************************)
EXTENDS Naturals

CONSTANT MaxConcurrency   \* WorkerOptions.MaxConcurrency, 0 for no limit

Phases == {"starting", "serving", "stopping", "waiting", "returned", "failed"}

Servers == [phase : Phases, stop : BOOLEAN, draining : BOOLEAN,
            handling : 0..1, active : Nat]

NewServer == [phase |-> "starting", stop |-> FALSE, draining |-> FALSE,
              handling |-> 0, active |-> 0]

Enter(sv, p)       == [sv EXCEPT !.phase = p]
SetStop(sv, b)     == [sv EXCEPT !.stop = b]
SetDraining(sv, d) == [sv EXCEPT !.draining = d]
Handle(sv, n)      == [sv EXCEPT !.handling = n]
Count(sv, n)       == [sv EXCEPT !.active = n]

(* Serve subscribes and flushes, sees the stop channel closed and sets       *)
(* draining, closes the subscription and waits, and returns; what is left   *)
(* then is at most the assignment whose callback was running meanwhile.      *)
CanServe(sv) == sv.phase = "starting"
Serve(sv)    == Enter(sv, "serving")
Fail(sv)     == Enter(sv, "failed")

CanStop(sv) == sv.phase = "serving" /\ sv.stop
Stop(sv)    == Enter(SetDraining(sv, TRUE), "stopping")

CanUnsubscribe(sv) == sv.phase = "stopping"
Unsubscribe(sv)    == Enter(sv, "waiting")

Left(sv) == sv.active + sv.handling

CanReturn(sv) == sv.phase = "waiting" /\ Left(sv) <= 1
Return(sv)    == Enter(sv, "returned")

(* The callback of the subscription handles one assignment at a time, and   *)
(* turns it down or takes a place for it; a request gives its place back.   *)
CanReceive(sv) ==
  sv.phase \in {"starting", "serving", "stopping"} /\ sv.handling = 0
Receive(sv)    == Handle(sv, 1)

CanReject(sv) == sv.handling = 1
Reject(sv)    == Handle(sv, 0)

CanAccept(sv) ==
  sv.handling = 1 /\ (MaxConcurrency = 0 \/ sv.active < MaxConcurrency)
Accept(sv)    == Count(Handle(sv, 0), sv.active + 1)

(* Fault: a place is given back twice. *)
CanReleaseTwice(sv) == TRUE

CanRelease(sv) == sv.active > 0
Release(sv)    == Count(sv, sv.active - 1)

(* The session closes the stop channel and sets draining. *)
CloseStop(sv) == SetStop(sv, TRUE)

(* What one step may make of a server. *)
Step(sv, new) ==
  \/ CanServe(sv) /\ new \in {Serve(sv), Fail(sv)}
  \/ CanStop(sv) /\ new = Stop(sv)
  \/ CanUnsubscribe(sv) /\ new = Unsubscribe(sv)
  \/ CanReturn(sv) /\ new = Return(sv)
  \/ CanReceive(sv) /\ new = Receive(sv)
  \/ CanReject(sv) /\ new = Reject(sv)
  \/ CanAccept(sv) /\ new = Accept(sv)
  \/ CanRelease(sv) /\ new = Release(sv)
  \/ new = CloseStop(sv)
  \/ \E d \in BOOLEAN : new = SetDraining(sv, d)
=============================================================================
