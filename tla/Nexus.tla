------------------------------- MODULE Nexus -------------------------------
(***************************************************************************)
(* The Nexus plane on one processor.  Timer interrupts ask for heartbeats  *)
(* (nexus_deferred.rs); a system call serves what was asked on its way     *)
(* out, with interrupts masked, so that to PID1 and the timer it is one    *)
(* step: drain the command page, beat, evaluate the policy, publish        *)
(* (nexus_plane.rs, nexus_runtime.rs).  PID1 fills the command page and    *)
(* reads the observation page one access at a time (resonance_split.rs)    *)
(* and can lose the processor between any two.                             *)
(*                                                                         *)
(* A 64-byte message is two words here, each naming the message it belongs *)
(* to: a message read whole has equal words.  Heat has three levels: 0, 1  *)
(* (the governor orders a rollback) and 2 (above heat_ceiling).            *)
(***************************************************************************)
EXTENDS Naturals, Sequences

CONSTANTS
  Phases,      \* MATRIX_PHASE_BINS
  DriftLimit,  \* the drift EVENT_HORIZON_PROGRAM tolerates
  MaxPending,  \* MAXIMUM_COALESCED_TICKS
  MaxBatch,    \* heartbeats of one pass at most
  Attempts,    \* attempts of a snapshot
  MaxCommands, \* commands PID1 submits
  MaxDrives    \* passes explored

VARIABLES
  pending,     \* PENDING_TICKS
  ingress,     \* the command page
  observation, \* the observation page: two messages and the reply's sequence
  taken,       \* the commands drained, in order; the last is PRIVATE_CURSOR's
  matrix,      \* MATRIX: the phase and the heat it saw last
  thermal,     \* THERMAL: the level of the heat
  checkpoint,  \* what LAST_CHECKPOINT restores
  ahead,       \* the causal clock is past LATEST_WALL_TICK
  policy,      \* the policy of the capsule and of the crystal
  plane,       \* where the kernel is, and the locks it holds
  pid1         \* PID1: program counter, registers, the message it read

pages == <<ingress, observation>>
machine == <<taken, matrix, thermal, checkpoint, ahead, policy>>
nexusVars == <<pending, pages, machine, plane, pid1>>

NoSequence == 0
Message(n) == <<n, n>>
Wire == [guard |-> 0, words |-> Message(0)]
Idle == [pc |-> "idle"]
InUser == [pc |-> "user", locks |-> {}]

NexusInit ==
  /\ pending = 0
  /\ ingress = [published |-> 0, command |-> Wire]
  /\ observation = [last |-> 0, reply |-> Wire, telemetry |-> Wire]
  /\ taken = <<>>
  /\ matrix = [phase |-> 0, heat |-> 0]
  /\ thermal = 0 /\ checkpoint = <<>> /\ ahead = FALSE
  /\ policy = [target |-> 0, throttled |-> FALSE]
  /\ plane = InUser /\ pid1 = Idle

-----------------------------------------------------------------------------
(* PID1 and the pages.                                                     *)

UserAt(pc) == plane.pc = "user" /\ pid1.pc = pc
Sequence == ingress.published + 1
WithGuard(w) == [w EXCEPT !.guard = @ + 1]
WithWord(w, i, n) == [w EXCEPT !.words[i] = n]

\* submit: guard odd, the words, guard even, then the sequence.
SubmitAccess(pc, next, page) ==
  /\ UserAt(pc)
  /\ ingress' = page
  /\ pid1' = [pc |-> next]
  /\ UNCHANGED <<pending, observation, machine, plane>>

SubmitBegins ==
  /\ Sequence <= MaxCommands
  /\ SubmitAccess("idle", "first", [ingress EXCEPT !.command = WithGuard(@)])
SubmitFirst == SubmitAccess("first", "second", [ingress EXCEPT !.command = WithWord(@, 1, Sequence)])
SubmitSecond == SubmitAccess("second", "guard", [ingress EXCEPT !.command = WithWord(@, 2, Sequence)])
SubmitGuard == SubmitAccess("guard", "publish", [ingress EXCEPT !.command = WithGuard(@)])
SubmitEnds == SubmitAccess("publish", "idle", [ingress EXCEPT !.published = Sequence])

ReadAccess(pc, next) ==
  /\ UserAt(pc)
  /\ pid1' = next
  /\ UNCHANGED <<pending, pages, machine, plane>>

\* reply(expected) looks at last_reply_sequence first; telemetry() does not.
Reading(wire, expected) ==
  [pc |-> "before", wire |-> wire, expected |-> expected, left |-> Attempts]
ReadReply(s) ==
  /\ observation.last = s
  /\ ReadAccess("idle", Reading("reply", s))
ReadTelemetry == ReadAccess("idle", Reading("telemetry", NoSequence))

\* snapshot: the guard, the words, the guard again; retried when it moved.
ReadBefore == ReadAccess("before",
  [pc |-> "one", wire |-> pid1.wire, expected |-> pid1.expected, left |-> pid1.left - 1,
   before |-> observation[pid1.wire].guard])
ReadOne == ReadAccess("one",
  [pc |-> "two", wire |-> pid1.wire, expected |-> pid1.expected, left |-> pid1.left,
   before |-> pid1.before, word |-> observation[pid1.wire].words[1]])
ReadTwo == ReadAccess("two",
  [pc |-> "after", wire |-> pid1.wire, expected |-> pid1.expected, left |-> pid1.left,
   before |-> pid1.before, words |-> <<pid1.word, observation[pid1.wire].words[2]>>])

\* Mutated form: the second look at the guard is ignored.
UnmovedTrusted(before, after) == TRUE

Unmoved(before, after) == before = after
ReadAfter == ReadAccess("after",
  IF ~Unmoved(pid1.before, observation[pid1.wire].guard)
  THEN IF pid1.left = 0 THEN Idle ELSE [Reading(pid1.wire, pid1.expected) EXCEPT !.left = pid1.left]
  ELSE IF pid1.expected \in {NoSequence, pid1.words[1]}
       THEN [pc |-> "got", wire |-> pid1.wire, expected |-> pid1.expected, words |-> pid1.words]
       ELSE Idle)
ReadEnds == ReadAccess("got", Idle)

-----------------------------------------------------------------------------
(* nexus_runtime, on a state s of the Nexus: matrix, charge, checkpoint.   *)

Republished(w, n) == [guard |-> w.guard + 2, words |-> Message(n)]
Least(x, y) == IF x < y THEN x ELSE y

\* matrix.execute of a command that changes the matrix, after a checkpoint:
\* a new setting, or a pair that is charged, or refused and restored.
Executed(s) ==
  {[s EXCEPT !.checkpoint = <<[matrix |-> s.matrix, thermal |-> s.thermal]>>, !.thermal = level]
     : level \in s.thermal .. 2}

\* A query changes nothing.
Controlled(s) == {s} \cup Executed(s)

\* heartbeat_batch: the phase moves on, the matrix notes the heat it saw, a
\* pair that collapses gives charge back; then the governor's order.
Rollback(s) ==
  IF s.matrix.heat = 0 \/ s.checkpoint = <<>> THEN s
  ELSE [s EXCEPT !.matrix = s.checkpoint[1].matrix, !.thermal = s.checkpoint[1].thermal]
Beaten(s, n) ==
  {Rollback([s EXCEPT !.matrix.phase = (@ + n) % Phases, !.matrix.heat = s.thermal, !.thermal = level])
     : level \in 0 .. s.thermal}

-----------------------------------------------------------------------------
(* The capsule, the crystal and the reactor.                               *)

Drift(m, p) ==
  LET d == IF m.phase >= p.target THEN m.phase - p.target ELSE p.target - m.phase
  IN Least(d, Phases - d)

\* evaluate with EVENT_HORIZON_PROGRAM: too hot, too far, or nothing to do.
Evaluated(m, p) ==
  IF m.heat = 2 THEN [p EXCEPT !.throttled = TRUE]
  ELSE IF Drift(m, p) > DriftLimit THEN [p EXCEPT !.target = m.phase]
  ELSE p

\* propose, acknowledge and poll, all in one pass: the contract, the effects and
\* the observation are of the same state and the quorum is one CPU, so that the
\* proposal is ready at once unless its effects are refused above the ceiling.
Ready(s, next) == next # policy /\ s.thermal # 2

-----------------------------------------------------------------------------
(* The kernel.                                                             *)

\* request_from_irq, from the timer interrupt.
request_from_irq ==
  /\ plane.pc = "user"
  /\ pending' = Least(pending + 1, MaxPending)
  /\ ahead' = FALSE
  /\ UNCHANGED <<pages, taken, matrix, thermal, checkpoint, policy, plane, pid1>>

private_cursor == IF taken = <<>> THEN 0 ELSE taken[Len(taken)].sequence

\* take_new: there is a new sequence, and the command is whole and its own.
take_new ==
  /\ ingress.published \notin {0, private_cursor}
  /\ ingress.command.guard % 2 = 0
  /\ ingress.command.words[1] = ingress.published

\* drain_commands.  The gateway refuses a command whose stamp is later than
\* the tick of the last interrupt: SYS_NEXUS_CONTROL moved the clock.
drain_commands(s, late) == IF ~take_new \/ late THEN {s} ELSE Controlled(s)

\* drive_once for the pending ticks.  With a proposal that is ready
\* service_policy_commit takes its three locks, and then needs one of them.
drive_once(s, late) ==
  \E d \in drain_commands(s, late) : \E b \in Beaten(d, Least(pending, MaxBatch)) :
    LET next == Evaluated(b.matrix, policy)
        ready == Ready(b, next)
        n == ingress.published
        tick == observation.telemetry.words[1] + 1
    IN /\ pending' = 0
       /\ matrix' = b.matrix /\ thermal' = b.thermal /\ checkpoint' = b.checkpoint
       /\ policy' = next
       /\ taken' = IF take_new THEN Append(taken, [sequence |-> n, words |-> ingress.command.words,
                                                    status |-> IF late THEN "BadFrame" ELSE "Ok"])
                   ELSE taken
       /\ observation' =
            [last |-> IF take_new THEN n ELSE observation.last,
             reply |-> IF take_new THEN Republished(observation.reply, n) ELSE observation.reply,
             telemetry |-> IF ready THEN observation.telemetry ELSE Republished(observation.telemetry, tick)]
       /\ plane' = IF ready THEN [pc |-> "commit", locks |-> {"MATRIX", "THERMAL", "HOLOGRAM"}] ELSE InUser

NexusState == [matrix |-> matrix, thermal |-> thermal, checkpoint |-> checkpoint]

\* A system call, of PID1 between two accesses or of another process: it may
\* be SYS_NEXUS_CONTROL, which stamps the clock; then run_deferred(1).
SystemCall(control) ==
  /\ plane.pc = "user"
  /\ ahead' = (ahead \/ control)
  /\ \E s \in IF control THEN Controlled(NexusState) ELSE {NexusState} :
       \/ /\ pending = 0
          /\ matrix' = s.matrix /\ thermal' = s.thermal /\ checkpoint' = s.checkpoint
          /\ UNCHANGED <<pending, observation, taken, policy, plane>>
       \/ /\ pending # 0 /\ observation.telemetry.guard < 2 * MaxDrives
          /\ drive_once(s, ahead')
  /\ UNCHANGED <<ingress, pid1>>

NexusNext ==
  \/ SubmitBegins \/ SubmitFirst \/ SubmitSecond \/ SubmitGuard \/ SubmitEnds
  \/ \E s \in 1 .. MaxCommands : ReadReply(s)
  \/ ReadTelemetry \/ ReadBefore \/ ReadOne \/ ReadTwo \/ ReadAfter \/ ReadEnds
  \/ request_from_irq
  \/ \E control \in BOOLEAN : SystemCall(control)

NexusSpec == NexusInit /\ [][NexusNext]_nexusVars

-----------------------------------------------------------------------------
\* The pages lose, repeat and tear nothing that is taken from them.  The
\* kernel takes a command at most once, in the order of submission, whole, and
\* answers each (take_new, publish_reply); what reply and telemetry return to
\* PID1 is one message as the kernel published it, and the reply is the one
\* asked for, wherever PID1 lost the processor (AtomicWire64).
PagesExact ==
  /\ \A i \in 1 .. Len(taken) :
       /\ taken[i].words = Message(taken[i].sequence)
       /\ i > 1 => taken[i].sequence > taken[i - 1].sequence
  /\ observation.last = private_cursor
  /\ pid1.pc = "got" =>
       /\ pid1.words[1] = pid1.words[2]
       /\ pid1.wire = "reply" => \E i \in 1 .. Len(taken) : taken[i].sequence = pid1.words[1]

-----------------------------------------------------------------------------
\* checkpoint_runtime takes HOLOGRAM, a lock that is not reentrant; the rest
\* of service_policy_commit comes after it.
checkpoint_runtime ==
  /\ plane.pc = "commit" /\ "HOLOGRAM" \notin plane.locks
  /\ checkpoint' = <<[matrix |-> matrix, thermal |-> thermal]>>
  /\ plane' = InUser
  /\ UNCHANGED <<pending, pages, taken, matrix, thermal, ahead, policy, pid1>>

CommitNext == NexusNext \/ checkpoint_runtime
CommitSpec ==
  /\ NexusInit /\ [][CommitNext]_nexusVars
  /\ WF_nexusVars(checkpoint_runtime) /\ WF_nexusVars(SystemCall(FALSE))

\* run_deferred returns to the system call that called it ("One pass keeps
\* syscall-exit latency bounded", syscalls.rs).
DeferredReturns == plane.pc # "user" ~> plane.pc = "user"
=============================================================================
