----------------------------- MODULE Governance -----------------------------
(***************************************************************************)
(* Redaction governance: switching receipts on and off (receipts.py),      *)
(* registering classification rules and policies (classification.py), and  *)
(* the log calls that sanitise a payload through the hooks those leave in  *)
(* the PII engine (pii.sanitize_payload).  The modules' fields are guarded *)
(* by locks; the three hooks are plain module attributes, set and read one *)
(* by one.  A payload is one sensitive field, which the default pass       *)
(* redacts, and one field whose class the rules name.                      *)
(***************************************************************************)
EXTENDS Naturals, FiniteSets

CONSTANTS
    Admins,      \* threads that configure governance
    Loggers,     \* threads that log
    MaxCalls,    \* bound: configuration calls altogether
    MaxRedactions   \* bound: no log call begins after this many redactions

ASSUME GovernanceAssumption == IsFiniteSet(Loggers)

None == "none"
Actions == {"pass", "drop", "redact"}      \* what a policy may ask for

VARIABLES
    fields,      \* receipts: [enabled, key, sink]; key and sink hold the id of an enable call, 0 for none
    test,        \* receipts._test_mode
    hook,        \* pii._receipt_hook is set
    rules,       \* a classification rule names the field's class
    policy,      \* what the policy asks for that class
    chook, phook,   \* pii._classification_hook and _policy_hook are set
    admin,       \* [at, id, on, sink]: each admin's call
    call,        \* each logger's sanitize_payload
    calls,       \* configuration calls begun; also the id of the last
    receipts,    \* receipts delivered: <<key, sink>>
    redactions, delivered, failures,   \* redactions reported to the hook, receipts accepted, receipt_failures
    unsigned,    \* history: redactions whose receipt could not be made, so that the log call raised
    settled      \* registration has returned and nothing was reset since

gov == <<fields, test, hook, rules, policy, chook, phook, settled>>
counts == <<receipts, redactions, delivered, failures, unsigned>>
vars == <<gov, counts, admin, call, calls>>

Idle == [at |-> "idle", id |-> 0, on |-> FALSE, sink |-> FALSE]
NoCall == [at |-> "idle", hook |-> FALSE, chook |-> FALSE, phook |-> FALSE, key |-> 0, sink |-> 0,
           test |-> FALSE, sure |-> FALSE, seen |-> {}, tagged |-> FALSE, did |-> None]

Init ==
    /\ fields = [enabled |-> FALSE, key |-> 0, sink |-> 0] /\ test = FALSE /\ hook = FALSE
    /\ rules = FALSE /\ policy = "drop" /\ chook = FALSE /\ phook = FALSE /\ settled = FALSE
    /\ admin = [a \in Admins |-> Idle] /\ call = [l \in Loggers |-> NoCall] /\ calls = 0
    /\ receipts = {} /\ redactions = 0 /\ delivered = 0 /\ failures = 0 /\ unsigned = 0

-----------------------------------------------------------------------------
(* Configuration calls. *)

Admin(a, at, e) == admin' = [admin EXCEPT ![a] = [e EXCEPT !.at = at]]
Begin(a, at, on, sink) ==
    /\ admin[a].at = "idle" /\ calls < MaxCalls /\ calls' = calls + 1
    /\ Admin(a, at, [Idle EXCEPT !.id = calls + 1, !.on = on, !.sink = sink])

\* enable_receipts, its checks: enabling needs a usable sink (given, or the active
\* config's) unless in test mode; a call without one raises and changes nothing.
Enable(a) == \E sink \in BOOLEAN : (sink \/ test) /\ Begin(a, "fields", TRUE, sink) /\ UNCHANGED <<gov, counts, call>>
Disable(a) == Begin(a, "fields", FALSE, FALSE) /\ UNCHANGED <<gov, counts, call>>

\* The fields, in one critical section ...
SetFields(a) ==
    /\ admin[a].at = "fields" /\ Admin(a, "hook", admin[a])
    /\ fields' = IF admin[a].on THEN [enabled |-> TRUE, key |-> admin[a].id, sink |-> IF admin[a].sink THEN admin[a].id ELSE 0]
                 ELSE [enabled |-> FALSE, key |-> 0, sink |-> 0]
    /\ UNCHANGED <<test, hook, rules, policy, chook, phook, settled, counts, call, calls>>

\* ... and the hook after it.
SetHook(a) ==
    /\ admin[a].at = "hook" /\ Admin(a, "idle", Idle)
    /\ hook' = admin[a].on
    /\ UNCHANGED <<fields, test, rules, policy, chook, phook, settled, counts, call, calls>>

\* _reset_receipts_for_tests latches test mode, where the collector is the sink.
ResetReceipts(a) ==
    /\ Begin(a, "hook", FALSE, FALSE)
    /\ fields' = [enabled |-> FALSE, key |-> 0, sink |-> 0] /\ test' = TRUE
    /\ UNCHANGED <<hook, rules, policy, chook, phook, settled, counts, call>>

\* register_classification_rules: the rules, then the two hooks, one by one.
Register(a) ==
    /\ Begin(a, "chook", TRUE, FALSE) /\ rules' = TRUE
    /\ UNCHANGED <<fields, test, hook, policy, chook, phook, settled, counts, call>>

\* _reset_classification_for_tests: rules and policy, then the two hooks.
ResetClassification(a) ==
    /\ Begin(a, "chook", FALSE, FALSE) /\ rules' = FALSE /\ policy' = "drop"
    /\ settled' = FALSE /\ call' = [l \in Loggers |-> [call[l] EXCEPT !.sure = FALSE]]
    /\ UNCHANGED <<fields, test, hook, chook, phook, counts>>

SetClassificationHook(a) ==
    /\ admin[a].at = "chook" /\ Admin(a, "phook", admin[a])
    /\ chook' = admin[a].on
    /\ UNCHANGED <<fields, test, hook, rules, policy, phook, settled, counts, call, calls>>

\* A registration that no reset overlapped has settled when it returns; a reset
\* that returns first marks those it overlapped (id 0).
Overlapped(a) == [b \in Admins |-> IF b # a /\ ~admin[a].on /\ admin[b].at \in {"chook", "phook"}
                                   THEN [admin[b] EXCEPT !.id = 0] ELSE IF b = a THEN Idle ELSE admin[b]]
Settles(a) == admin[a].on /\ admin[a].id # 0 /\ rules /\ \A b \in Admins \ {a} : admin[b].at \in {"chook", "phook"} => admin[b].on

\* Bug: registering installs only the first hook.
SetPolicyHookSkipped(a) ==
    /\ admin[a].at = "phook" /\ Admin(a, "idle", Idle)
    /\ settled' = (settled \/ Settles(a))
    /\ UNCHANGED <<fields, test, hook, rules, policy, chook, phook, counts, call, calls>>

SetPolicyHook(a) ==
    /\ admin[a].at = "phook" /\ admin' = Overlapped(a)
    /\ phook' = admin[a].on
    /\ settled' = (settled \/ Settles(a))
    /\ UNCHANGED <<fields, test, hook, rules, policy, chook, counts, call, calls>>

\* set_classification_policy, one critical section; the calls under way may see either.
SetPolicy(a) ==
    /\ Begin(a, "idle", FALSE, FALSE)
    /\ \E p \in Actions \ {policy} :
           policy' = p /\ call' = [l \in Loggers |-> [call[l] EXCEPT !.seen = @ \cup {p}]]
    /\ UNCHANGED <<fields, test, hook, rules, chook, phook, settled, counts>>

-----------------------------------------------------------------------------
(* sanitize_payload. *)

Go(l, at, c) == call' = [call EXCEPT ![l] = [c EXCEPT !.at = at]]

\* The hooks are read once, one after the other.
ReadHook(l) ==
    /\ call[l].at = "idle" /\ redactions < MaxRedactions
    /\ Go(l, "chook", [NoCall EXCEPT !.hook = hook, !.sure = settled, !.seen = {policy}])
    /\ UNCHANGED <<gov, counts, admin, calls>>

ReadClassificationHook(l) ==
    /\ call[l].at = "chook" /\ Go(l, "phook", [call[l] EXCEPT !.chook = chook])
    /\ UNCHANGED <<gov, counts, admin, calls>>

ReadPolicyHook(l) ==
    /\ call[l].at = "phook"
    /\ Go(l, IF call[l].hook THEN "redact" ELSE "classify", [call[l] EXCEPT !.phook = phook])
    /\ UNCHANGED <<gov, counts, admin, calls>>

\* The default pass redacts the sensitive field and calls the hook: _on_redaction
\* reads the key and the sink in one critical section.
OnRedaction(l) ==
    /\ call[l].at = "redact"
    /\ Go(l, "emit", [call[l] EXCEPT !.key = fields.key, !.sink = fields.sink, !.test = test])
    /\ redactions' = redactions + 1
    /\ UNCHANGED <<gov, receipts, delivered, failures, unsigned, admin, calls>>

\* sign_receipt raises, or the encoding of the key does: a lone surrogate, an integer
\* with too many digits.  Nothing catches it before the caller of the logger.
OnRedactionRaises(l) ==
    /\ call[l].at = "redact" /\ Go(l, "idle", NoCall)
    /\ redactions' = redactions + 1 /\ unsigned' = unsigned + 1
    /\ UNCHANGED <<gov, receipts, delivered, failures, admin, calls>>

\* Bug: the sink is looked up when the receipt is delivered, and a refusal is not counted.
EmitLateSink(l) ==
    LET c == call[l] IN
    /\ c.at = "emit" /\ Go(l, "classify", c)
    /\ receipts' = receipts \cup {<<c.key, IF c.test THEN 0 ELSE fields.sink>>} /\ delivered' = delivered + 1
    /\ UNCHANGED <<gov, redactions, failures, unsigned, admin, calls>>

\* emit_receipt: refused or raised counts a failure, as a cleared sink does; in
\* test mode the collector accepts everything.  (A receipt is signed with the key
\* that was read, and goes to the sink that was read.)
Emit(l) ==
    LET c == call[l] IN
    /\ c.at = "emit" /\ Go(l, "classify", c)
    /\ IF c.sink = 0 /\ ~c.test THEN failures' = failures + 1 /\ UNCHANGED <<receipts, delivered>>
       ELSE /\ receipts' = receipts \cup {<<c.key, IF c.test THEN 0 ELSE c.sink>>}
            /\ \/ delivered' = delivered + 1 /\ UNCHANGED failures
               \/ ~c.test /\ failures' = failures + 1 /\ UNCHANGED delivered
    /\ UNCHANGED <<gov, redactions, unsigned, admin, calls>>

\* _classify_field: the first rule that matches, under the lock.
Classify(l) ==
    /\ call[l].at = "classify"
    /\ Go(l, IF call[l].chook /\ rules THEN "policy" ELSE "done", call[l])
    /\ UNCHANGED <<gov, counts, admin, calls>>

\* The policy's action, "pass" without a policy hook: a dropped field goes, any
\* other is tagged with its class and masked when the action says so.
Apply(l) ==
    LET act == IF call[l].phook THEN policy ELSE "pass" IN
    /\ call[l].at = "policy"
    /\ Go(l, "done", [call[l] EXCEPT !.tagged = act # "drop", !.did = act])
    /\ UNCHANGED <<gov, counts, admin, calls>>

Return(l) == call[l].at = "done" /\ Go(l, "idle", NoCall) /\ UNCHANGED <<gov, counts, admin, calls>>

Configure(a) ==
    \/ Enable(a) \/ Disable(a) \/ SetFields(a) \/ SetHook(a) \/ ResetReceipts(a)
    \/ Register(a) \/ ResetClassification(a) \/ SetClassificationHook(a) \/ SetPolicyHook(a) \/ SetPolicy(a)
Sanitize(l) ==
    \/ ReadHook(l) \/ ReadClassificationHook(l) \/ ReadPolicyHook(l) \/ OnRedaction(l)
    \/ OnRedactionRaises(l) \/ Emit(l) \/ Classify(l) \/ Apply(l) \/ Return(l)
Next == (\E a \in Admins : Configure(a)) \/ (\E l \in Loggers : Sanitize(l))
Spec == Init /\ [][Next]_vars

-----------------------------------------------------------------------------
(* Properties. *)

\* Every redaction that reached the hook ends as a delivered receipt or a counted
\* failure (_on_redaction, emit_receipt), also when receipts were switched off,
\* or moved to another sink, underneath it; only one whose receipt could not be made
\* is neither, and the log call raises.
ReceiptsAccounted ==
    redactions = delivered + failures + unsigned + Cardinality({l \in Loggers : call[l].at = "emit"})

\* A receipt is signed with the key of the enable_receipts call whose sink it goes
\* to, whatever calls overlap: no sink gets receipts its key cannot verify.
ReceiptsCoherent == \A r \in receipts : r[2] # 0 => r[1] = r[2]

\* Once register_classification_rules has returned, and until a reset, every log
\* call treats the field as a policy in force during that call asks.
RegisteredMeansHandled ==
    \A l \in Loggers : call[l].at = "done" /\ call[l].sure => call[l].did \in call[l].seen

\* Receipts are complete, and each can be verified by whoever receives it.
ReceiptsSound == ReceiptsAccounted /\ ReceiptsCoherent
=============================================================================
