----------------------------- MODULE LogOutput ------------------------------
(***************************************************************************)
(* Where log records go: the writer slot of logger/sink.py, the pipeline   *)
(* that logger/core.py builds behind the root logger, and the handlers of  *)
(* logger/handlers.py.  The slot has a lock of its own; a configuration    *)
(* pass holds core._lock and asks the slot twice, and release_log_output   *)
(* works on the live handlers without that lock.                           *)
(***************************************************************************)
EXTENDS Integers, Sequences, SequencesExt, FiniteSets

CONSTANTS
  Threads,
  Writers,      \* writers a host may install
  MaxOps,       \* bound: operations on the output
  MaxRecords    \* bound: records logged

ASSUME LogOutputAssumption ==
  IsFiniteSet(Threads) /\ "free" \notin Threads /\ MaxOps \in Nat /\ MaxRecords \in Nat

Stderr == "stderr"
HostHandler == 0   \* a handler of the host's on the root logger
Targets == Writers \cup {Stderr}
Fanouts == 1 .. MaxOps

VARIABLES
  slot,         \* sink._LOG_OUTPUT, or Stderr
  lock,         \* the thread that holds core._lock, or "free"
  configured,   \* core._configured
  active,       \* core._active_config is not None
  root,         \* the handlers of the root logger, in order
  child,        \* the console child of each fan-out handler: its stream and a serial number
  colour,       \* the destination the renderer's colour answer is for
  chain,        \* structlog has the pipeline's processors (they outlive a shutdown)
  pc, loc,      \* step and local variables of each thread
  ops,          \* operations begun
  counts,       \* records logged, counted as emitted, tickets released, records a
                \* raising child lost, and records that met no fan-out handler
  released,     \* history: writers let go by release_log_output and not installed since
  raced,        \* history: a release began while a pass was under way
  torn          \* history: shutdown_logging has run

outputVars == <<slot, lock, configured, active, root, child, colour, chain, pc, loc, ops,
          counts, released, raced, torn>>
conf == <<configured, active>>
pipe == <<root, child, colour, chain>>
hist == <<released, raced, torn>>

NoLocals == [force |-> FALSE, claim |-> FALSE, writer |-> Stderr, dest |-> Stderr,
             at |-> 1, ticket |-> FALSE, writes |-> <<>>]

OutputInit ==
  /\ slot = Stderr /\ lock = "free" /\ configured = FALSE /\ active = FALSE
  /\ root \in {<<>>, <<HostHandler>>}
  /\ child = [f \in Fanouts |-> [target |-> Stderr, serial |-> 0]]
  /\ colour = Stderr /\ chain = FALSE
  /\ pc = [t \in Threads |-> "idle"] /\ loc = [t \in Threads |-> NoLocals]
  /\ ops = 0 /\ counts = [logged |-> 0, emitted |-> 0, freed |-> 0, escaped |-> 0, missed |-> 0]
  /\ released = {} /\ raced = FALSE /\ torn = FALSE

\* Where our fan-out handlers stand in the root logger's list, and the first of them.
OursAt == {i \in DOMAIN root : root[i] # HostHandler}
First == root[CHOOSE i \in OursAt : \A j \in OursAt : i <= j]

\* Thread u writes through the child that fan-out handler f has now.
Writing(u, f) == \E i \in DOMAIN loc[u].writes :
                   /\ loc[u].writes[i].fanout = f
                   /\ loc[u].writes[i].serial = child[f].serial

\* Each fan-out handler serves one thread at a time.
Held(f) == \E u \in Threads : \E i \in DOMAIN loc[u].writes : loc[u].writes[i].fanout = f

AtHandler(t) == loc[t].at <= Len(root)

\* What a thread blocks on: core._lock, the lock of the child it is to retarget, the
\* lock of the fan-out handler its record has come to, and, inside a writer that logs,
\* the lock of any other one.  Nothing else blocks.
Waits(t) ==
  \/ pc[t] \in {"reapply", "configure", "teardown"} /\ lock # "free"
  \/ pc[t] = "detach" /\ OursAt # {} /\ \E u \in Threads \ {t} : Writing(u, First)
  \/ pc[t] = "emit" /\ AtHandler(t) /\ root[loc[t].at] # HostHandler /\ Held(root[loc[t].at])
  \/ pc[t] = "nested" /\ \E i \in OursAt : root[i] # loc[t].writes[1].fanout /\ Held(root[i])

Begin(t, step) ==
  /\ pc[t] = "idle" /\ ops < MaxOps /\ ops' = ops + 1
  /\ pc' = [pc EXCEPT ![t] = step]
Return(t) == pc' = [pc EXCEPT ![t] = "idle"] /\ loc' = [loc EXCEPT ![t] = NoLocals]

-----------------------------------------------------------------------------
(* set_log_output and clear_log_output: the slot, then a rebuild           *)

SetOutput(t, w) ==
  /\ Begin(t, "reapply") /\ slot' = w /\ released' = released \ {w}
  /\ UNCHANGED <<lock, conf, pipe, loc, counts, raced, torn>>

\* Bug: the new destination waits for the next configuration.
ReapplyLater(t) ==
  /\ pc[t] = "reapply" /\ ~Waits(t) /\ Return(t)
  /\ UNCHANGED <<slot, lock, conf, pipe, ops, counts, hist>>

\* reapply_log_output reads the config under the lock and uses it after releasing it.
Reapply(t) ==
  /\ pc[t] = "reapply" /\ ~Waits(t)
  /\ IF configured /\ active
     THEN /\ pc' = [pc EXCEPT ![t] = "configure"]
          /\ loc' = [loc EXCEPT ![t].force = TRUE]
     ELSE Return(t)
  /\ UNCHANGED <<slot, lock, conf, pipe, ops, counts, hist>>

-----------------------------------------------------------------------------
(* _configure_logging                                                      *)

\* configure_logging by setup or a reload (claim), or by get_logger, which looks
\* at _configured without the lock and leaves the root's handlers alone.
Configure(t, force, claim) ==
  /\ claim \/ (~configured /\ ~force)
  /\ Begin(t, "configure")
  /\ loc' = [loc EXCEPT ![t].force = force, ![t].claim = claim]
  /\ UNCHANGED <<slot, lock, conf, pipe, counts, hist>>

\* The lock is taken; the renderer's destination is read from the slot.
EnterPass(t) ==
  /\ pc[t] = "configure" /\ ~Waits(t)
  /\ IF configured /\ active /\ ~loc[t].force
     THEN Return(t) /\ UNCHANGED lock
     ELSE /\ lock' = t /\ pc' = [pc EXCEPT ![t] = "build"]
          /\ loc' = [loc EXCEPT ![t].dest = slot]
  /\ UNCHANGED <<slot, conf, pipe, ops, counts, hist>>

\* _build_handlers reads the slot once more.
Build(t) ==
  /\ pc[t] = "build" /\ pc' = [pc EXCEPT ![t] = "install"]
  /\ loc' = [loc EXCEPT ![t].writer = slot]
  /\ UNCHANGED <<slot, lock, conf, pipe, ops, counts, hist>>

Unused == CHOOSE f \in Fanouts : child[f].serial = 0

Children(f, w) == child' = [child EXCEPT ![f] = [target |-> w, serial |-> @.serial + 1]]

\* _installed_fanout is asked only in a reload.
Reusable == configured /\ OursAt # {}

\* Bug: a pass that leaves the root alone still takes its handler list.
ClaimsAlways(t) == TRUE

Claims(t) == loc[t].claim

\* _install_pipeline: swap the children of the first fan-out handler, take the
\* root, or attach a new handler beside what is there.
Install(t) ==
  /\ pc[t] = "install" /\ pc' = [pc EXCEPT ![t] = "render"]
  /\ IF Reusable
     THEN Children(First, loc[t].writer) /\ UNCHANGED root
     ELSE /\ Children(Unused, loc[t].writer)
          /\ root' = IF Claims(t) THEN <<Unused>> ELSE Append(root, Unused)
  /\ UNCHANGED <<slot, lock, conf, colour, chain, loc, ops, counts, hist>>

\* structlog.configure, and the state that says so.
Render(t) ==
  /\ pc[t] = "render" /\ lock' = "free" /\ Return(t)
  /\ colour' = loc[t].dest /\ chain' = TRUE /\ configured' = TRUE /\ active' = TRUE
  /\ UNCHANGED <<slot, root, child, ops, counts, hist>>

\* _setup_emergency_fallback, wherever the pass raises.
Emergency(t) ==
  /\ pc[t] \in {"build", "install", "render"} /\ lock' = "free" /\ Return(t)
  /\ configured' = TRUE /\ active' = FALSE /\ chain' = FALSE
  /\ UNCHANGED <<slot, root, child, colour, ops, counts, hist>>

-----------------------------------------------------------------------------
(* shutdown_logging                                                        *)

\* release_log_output: the slot is cleared first.
Release(t) ==
  /\ Begin(t, IF slot = Stderr THEN "teardown" ELSE "detach")
  /\ loc' = [loc EXCEPT ![t].writer = slot] /\ slot' = Stderr
  /\ released' = (released \cup {slot}) \ {Stderr}
  /\ raced' = (raced \/ lock # "free" \/ \E u \in Threads : pc[u] = "configure")
  /\ UNCHANGED <<lock, conf, pipe, counts, torn>>

\* Bug: the handlers keep the writer that was let go.
DetachSlotOnly(t) ==
  /\ pc[t] = "detach" /\ pc' = [pc EXCEPT ![t] = "teardown"]
  /\ UNCHANGED <<slot, lock, conf, pipe, loc, ops, counts, hist>>

\* detach_log_writer: the first fan-out handler is pointed back at stderr, under
\* the child's lock; then the writer is flushed.
Detach(t) ==
  /\ pc[t] = "detach" /\ ~Waits(t) /\ pc' = [pc EXCEPT ![t] = "teardown"]
  /\ child' = IF OursAt = {} THEN child ELSE [child EXCEPT ![First].target = Stderr]
  /\ UNCHANGED <<slot, lock, conf, root, colour, chain, loc, ops, counts, hist>>

Teardown(t) ==
  /\ pc[t] = "teardown" /\ ~Waits(t) /\ Return(t)
  /\ configured' = FALSE /\ active' = FALSE /\ torn' = TRUE
  /\ UNCHANGED <<slot, lock, pipe, ops, counts, released, raced>>

-----------------------------------------------------------------------------
(* A record on its way through the handlers of the root logger             *)

Log(t) ==
  /\ pc[t] = "idle" /\ chain /\ counts.logged < MaxRecords
  /\ pc' = [pc EXCEPT ![t] = "emit"] /\ loc' = [loc EXCEPT ![t].ticket = TRUE]
  /\ counts' = [counts EXCEPT !.logged = @ + 1]
  /\ UNCHANGED <<slot, lock, conf, pipe, ops, hist>>

\* The fan-out handler passes the record to its child, which calls the writer.
Emit(t) ==
  /\ pc[t] = "emit" /\ AtHandler(t) /\ root[loc[t].at] # HostHandler /\ ~Waits(t)
  /\ LET f == root[loc[t].at] IN
     /\ pc' = [pc EXCEPT ![t] = "write"]
     /\ loc' = [loc EXCEPT ![t].writes =
                     <<[fanout |-> f, serial |-> child[f].serial, target |-> child[f].target]>>]
  /\ UNCHANGED <<slot, lock, conf, pipe, ops, counts, hist>>

SkipHost(t) ==
  /\ pc[t] = "emit" /\ AtHandler(t) /\ root[loc[t].at] = HostHandler
  /\ loc' = [loc EXCEPT ![t].at = @ + 1]
  /\ UNCHANGED <<slot, lock, conf, pipe, pc, ops, counts, hist>>

\* A writer of the host's logs a record from inside its write.
Reenter(t) ==
  /\ pc[t] = "write" /\ chain /\ counts.logged < MaxRecords
  /\ loc[t].writes[1].target # Stderr
  /\ pc' = [pc EXCEPT ![t] = "nested"]
  /\ counts' = [counts EXCEPT !.logged = @ + 1]
  /\ UNCHANGED <<slot, lock, conf, pipe, loc, ops, hist>>

\* The children refuse that record; having come through the pipeline, it counts as
\* emitted and frees its ticket at the first fan-out handler, if there is one.
Refuse(t) ==
  /\ pc[t] = "nested" /\ ~Waits(t) /\ pc' = [pc EXCEPT ![t] = "write"]
  /\ counts' = IF OursAt = {}
               THEN [counts EXCEPT !.missed = @ + 1]
               ELSE [counts EXCEPT !.emitted = @ + 1, !.freed = @ + 1]
  /\ UNCHANGED <<slot, lock, conf, pipe, loc, ops, hist>>

\* The first fan-out handler took the ticket off the record.
Ticket(t) == IF loc[t].ticket THEN 1 ELSE 0

\* The children are done with the record, whether or not the writer raised: the first
\* fan-out handler alone counts it and frees its ticket.
Written(t) ==
  /\ pc[t] = "write" /\ pc' = [pc EXCEPT ![t] = "emit"]
  /\ counts' = [counts EXCEPT !.emitted = @ + Ticket(t), !.freed = @ + Ticket(t)]
  /\ loc' = [loc EXCEPT ![t].at = @ + 1, ![t].ticket = FALSE, ![t].writes = <<>>]
  /\ UNCHANGED <<slot, lock, conf, pipe, ops, hist>>

\* A child raises past the fan-out handler: the ticket is freed, the record is not
\* counted, and the handlers behind never see it.
WriteEscapes(t) ==
  /\ pc[t] = "write" /\ Return(t)
  /\ counts' = [counts EXCEPT !.escaped = @ + Ticket(t), !.freed = @ + Ticket(t)]
  /\ UNCHANGED <<slot, lock, conf, pipe, ops, hist>>

Logged(t) ==
  /\ pc[t] = "emit" /\ ~AtHandler(t) /\ Return(t)
  /\ counts' = [counts EXCEPT !.missed = @ + Ticket(t)]
  /\ UNCHANGED <<slot, lock, conf, pipe, ops, hist>>

\* The host adds a handler of its own after setup, or removes ours.
HostAdds ==
  /\ HostHandler \notin ToSet(root) /\ ops < MaxOps /\ ops' = ops + 1
  /\ root' = Append(root, HostHandler)
  /\ UNCHANGED <<slot, lock, conf, child, colour, chain, pc, loc, counts, hist>>

HostRemovesOurs ==
  /\ OursAt # {} /\ ops < MaxOps /\ ops' = ops + 1
  /\ root' = IF HostHandler \in ToSet(root) THEN <<HostHandler>> ELSE <<>>
  /\ UNCHANGED <<slot, lock, conf, child, colour, chain, pc, loc, counts, hist>>

Pass(t) == Reapply(t) \/ EnterPass(t) \/ Build(t) \/ Install(t) \/ Render(t) \/ Emergency(t)
Shutdown(t) == Detach(t) \/ Teardown(t)
Record(t) ==
  \/ Emit(t) \/ SkipHost(t) \/ Written(t) \/ WriteEscapes(t) \/ Logged(t)
  \/ Reenter(t) \/ Refuse(t)

OutputNext ==
  \/ HostAdds \/ HostRemovesOurs
  \/ \E t \in Threads :
       \/ \E w \in Targets : SetOutput(t, w)
       \/ \E force, claim \in BOOLEAN : Configure(t, force, claim)
       \/ Release(t) \/ Log(t)
       \/ Pass(t) \/ Shutdown(t) \/ Record(t)

OutputSpec == OutputInit /\ [][OutputNext]_outputVars
-----------------------------------------------------------------------------
(* Properties                                                              *)

Steps == {"idle", "reapply", "configure", "build", "install", "render", "detach",
          "teardown", "emit", "write", "nested"}

\* Types; and no writer is inside itself: a thread runs at most one write.
OutputTypes ==
  /\ slot \in Targets /\ colour \in Targets /\ lock \in Threads \cup {"free"}
  /\ {configured, active, chain, raced, torn} \subseteq BOOLEAN
  /\ ToSet(root) \subseteq Fanouts \cup {HostHandler}
  /\ \A f \in Fanouts : child[f].target \in Targets
  /\ pc \in [Threads -> Steps] /\ ops \in 0 .. MaxOps /\ released \subseteq Targets
  /\ \A t \in Threads : Len(loc[t].writes) <= 1
  /\ lock # "free" => pc[lock] \in {"build", "install", "render"}

Quiet == \A t \in Threads : pc[t] = "idle"

\* A change of destination takes effect, whoever else configures meanwhile: once no
\* operation is under way, logging is configured and the root logger has one fan-out
\* handler, records go to the installed writer and are rendered for it.  (A second
\* handler, left over from before a shutdown, keeps its old destination.)
OutputSettles ==
  Quiet /\ configured /\ active /\ Cardinality(OursAt) = 1 =>
    child[First].target = slot /\ colour = slot

\* A writer that was let go is in no handler of ours, so the host may close it,
\* unless a configuration pass was under way when the release began or a handler
\* was left over from before an earlier shutdown.
ReleasedNotTargeted ==
  ~raced /\ Cardinality(OursAt) <= 1 /\ (\A t \in Threads : pc[t] # "detach") =>
    \A i \in OursAt, w \in released : child[root[i]].target # w

\* One fan-out handler however often the pipeline is rebuilt, until a shutdown
\* makes the pipeline forget the handler it has on the root logger.
OneFanout == torn \/ Cardinality(OursAt) <= 1

\* Every record that came through the pipeline gives its ticket back exactly once and is
\* counted as emitted, even when two fan-out handlers see it, unless a child of the
\* first raised past it; a record that found no fan-out handler on the root logger is
\* the one case in which neither happens.
CountedOnce ==
  /\ counts.emitted + counts.escaped = counts.freed
  /\ \A t \in Threads : pc[t] \in {"write", "nested"} => loc[t].ticket \/ loc[t].at > 1
  /\ counts.freed + Cardinality({t \in Threads : loc[t].ticket})
       + Cardinality({t \in Threads : pc[t] = "nested"}) + counts.missed = counts.logged

\* A handler of the host's leaves the root logger only when a setup or a reload
\* takes the root, which a reload does only if our handler is gone.
HostHandlerKept ==
  [][(HostHandler \in ToSet(root) /\ HostHandler \notin ToSet(root')) =>
       (\E t \in Threads :
          pc[t] = "install" /\ loc[t].claim /\ (~configured \/ OursAt = {}))]_outputVars

\* A writer that logs from inside its write leaves the record being written unaffected,
\* and other threads' records wait their turn (set_log_output): while an operation or a
\* log call is under way, one thread is blocked on nothing.  Two fan-out handlers break it.
WritersMayLog == Quiet \/ \E t \in Threads : pc[t] # "idle" /\ ~Waits(t)

\* Nobody waits for ever for the configuration lock or for a handler's, as long as the
\* root logger has one fan-out handler.
NotStuck == Cardinality(OursAt) > 1 \/ WritersMayLog

\* What the handlers of the root logger do to records and writers, taken together.
HandlersSound == OutputTypes /\ ReleasedNotTargeted /\ OneFanout /\ CountedOnce /\ NotStuck
=============================================================================
