-------------------------- MODULE GovernanceProofs --------------------------
(***************************************************************************)
(* Theorems about Governance for any administrators, any finite set of     *)
(* logging threads and any number of calls.  The inductive invariant says  *)
(* what "settled" promises of the rules and hooks, that a registration     *)
(* under way finds its first hook set unless a reset that is about to mark *)
(* it took it away, and what a log call has read is still worth.           *)
(***************************************************************************)
EXTENDS Governance, FiniteSetTheorems, TLAPS

AdminType == [at : {"idle", "fields", "hook", "chook", "phook"}, id : Nat, on : BOOLEAN, sink : BOOLEAN]
CallType == [at : {"idle", "chook", "phook", "redact", "emit", "classify", "policy", "done"},
             hook : BOOLEAN, chook : BOOLEAN, phook : BOOLEAN, key : Nat, sink : Nat, test : BOOLEAN,
             sure : BOOLEAN, seen : SUBSET Actions, tagged : BOOLEAN, did : Actions \cup {None}]

\* Types of the fields, hooks, calls and counters.
TypeOK ==
    /\ fields \in [enabled : BOOLEAN, key : Nat, sink : Nat]
    /\ test \in BOOLEAN /\ hook \in BOOLEAN /\ rules \in BOOLEAN /\ policy \in Actions
    /\ chook \in BOOLEAN /\ phook \in BOOLEAN /\ settled \in BOOLEAN
    /\ admin \in [Admins -> AdminType] /\ call \in [Loggers -> CallType] /\ calls \in Nat
    /\ redactions \in Nat /\ delivered \in Nat /\ failures \in Nat /\ unsigned \in Nat

\* An admin is between the rules and the second hook.
Pending(a) == admin[a].at \in {"chook", "phook"}

\* Once settled, the rules and both hooks are there and nobody is about to remove them.
SettledSound == settled => rules /\ chook /\ phook /\ \A a \in Admins : Pending(a) => admin[a].on

\* A registration that has set the first hook and was not marked finds it set, unless
\* a reset that will mark it has taken it away.
RegistrationSound ==
    \A a \in Admins :
        admin[a].at = "phook" /\ admin[a].on /\ admin[a].id # 0 =>
            chook \/ \E b \in Admins : b # a /\ admin[b].at = "phook" /\ ~admin[b].on

\* A sink is set together with its key.
FieldsCoherent == fields.sink # 0 => fields.key = fields.sink

\* What log call l has read, and what it may rely on.
CallSound(l) ==
    /\ call[l].sure => settled /\ call[l].at # "idle" /\ policy \in call[l].seen
    /\ call[l].sure /\ call[l].at # "chook" => call[l].chook
    /\ call[l].sure /\ call[l].at \in {"redact", "emit", "classify", "policy", "done"} => call[l].phook
    /\ call[l].sure /\ call[l].at = "done" => call[l].did \in call[l].seen
    /\ call[l].at = "emit" /\ call[l].sink # 0 => call[l].key = call[l].sink

Emitting == {l \in Loggers : call[l].at = "emit"}

IInv ==
    /\ TypeOK /\ SettledSound /\ RegistrationSound /\ FieldsCoherent
    /\ \A l \in Loggers : CallSound(l)
    /\ ReceiptsSound
-----------------------------------------------------------------------------
(* Lemmas                                                                  *)

\* Idle records have their types.
LEMMA IdleTypes == Idle \in AdminType /\ NoCall \in CallType
  BY DEF Idle, NoCall, AdminType, CallType, None

\* The receipts being delivered are finitely many.
LEMMA EmittingFinite == IsFiniteSet(Emitting) /\ Cardinality(Emitting) \in Nat
  <1>1. Emitting \subseteq Loggers BY DEF Emitting
  <1>2. IsFiniteSet(Emitting) BY <1>1, GovernanceAssumption, FS_Subset
  <1> QED BY <1>2, FS_CardinalityType

\* The initial state satisfies the invariant.
LEMMA InitInv == Init => IInv
  <1> SUFFICES ASSUME Init PROVE IInv OBVIOUS
  <1>1. TypeOK BY IdleTypes DEF Init, TypeOK, Actions
  <1>2. \A l \in Loggers : call[l].at = "idle" /\ ~call[l].sure BY DEF Init, NoCall
  <1>3. \A a \in Admins : admin[a].at = "idle" BY DEF Init, Idle
  <1>4. SettledSound /\ RegistrationSound /\ FieldsCoherent
    BY <1>3 DEF Init, SettledSound, RegistrationSound, FieldsCoherent
  <1>5. \A l \in Loggers : CallSound(l) BY <1>2 DEF CallSound
  <1>6. ReceiptsSound
    <2>1. {l \in Loggers : call[l].at = "emit"} = {} BY <1>2
    <2>2. Cardinality({l \in Loggers : call[l].at = "emit"}) = 0 BY <2>1, FS_EmptySet
    <2>3. ReceiptsAccounted BY <2>2 DEF Init, ReceiptsAccounted
    <2> QED BY <2>3 DEF Init, ReceiptsSound, ReceiptsCoherent
  <1> QED BY <1>1, <1>4, <1>5, <1>6 DEF IInv

\* A configuration step that leaves the log calls and the policy alone, and takes back
\* no settled registration.
LEMMA ConfigureStep ==
  ASSUME IInv, TypeOK', UNCHANGED <<counts, call, policy>>, settled => settled',
         SettledSound', RegistrationSound', FieldsCoherent'
  PROVE  IInv'
  <1>1. ASSUME NEW l \in Loggers PROVE CallSound(l)' BY DEF IInv, CallSound
  <1>2. ReceiptsSound' BY DEF IInv, ReceiptsSound, ReceiptsAccounted, ReceiptsCoherent, counts
  <1> QED BY <1>1, <1>2 DEF IInv

\* A step of log call l.
LEMMA SanitizeStep ==
  ASSUME IInv, TypeOK', NEW l \in Loggers, UNCHANGED <<gov, admin, calls>>,
         \A m \in Loggers : m # l => call'[m] = call[m],
         CallSound(l)', ReceiptsSound'
  PROVE  IInv'
  <1>1. ASSUME NEW m \in Loggers, m # l PROVE CallSound(m)' BY <1>1 DEF IInv, CallSound, gov
  <1>2. SettledSound' /\ RegistrationSound' /\ FieldsCoherent'
    BY DEF IInv, gov, SettledSound, Pending, RegistrationSound, FieldsCoherent
  <1> QED BY <1>1, <1>2 DEF IInv

\* A log call that moves on without touching the receipts.
LEMMA QuietSanitize ==
  ASSUME IInv, NEW l \in Loggers, NEW c \in CallType, call' = [call EXCEPT ![l] = c],
         UNCHANGED <<gov, counts, admin, calls>>, call[l].at # "emit", c.at # "emit",
         c.sure => settled /\ c.at # "idle" /\ policy \in c.seen,
         c.sure /\ c.at # "chook" => c.chook,
         c.sure /\ c.at \in {"redact", "classify", "policy", "done"} => c.phook,
         c.sure /\ c.at = "done" => c.did \in c.seen
  PROVE  IInv'
  <1>t. TypeOK BY DEF IInv
  <1>1. call' \in [Loggers -> CallType] /\ call'[l] = c /\ \A m \in Loggers : m # l => call'[m] = call[m]
    BY <1>t DEF TypeOK
  <1>2. TypeOK' BY <1>t, <1>1 DEF TypeOK, gov, counts
  <1>3. CallSound(l)' BY <1>1 DEF CallSound, gov
  <1>4. Emitting' = Emitting BY <1>1 DEF Emitting
  <1>5. ReceiptsSound'
    BY <1>4 DEF IInv, ReceiptsSound, ReceiptsAccounted, ReceiptsCoherent, Emitting, counts
  <1> QED BY <1>1, <1>2, <1>3, <1>5, SanitizeStep

\* The parts of the invariant a log call starts from.
LEMMA GivenCall ==
  ASSUME IInv, NEW l \in Loggers
  PROVE  TypeOK /\ SettledSound /\ CallSound(l) /\ call[l] \in CallType /\ FieldsCoherent
  BY DEF IInv, TypeOK

\* The steps of sanitize_payload that deliver nothing.
LEMMA ReadingInv ==
  ASSUME IInv, NEW l \in Loggers,
         \/ ReadHook(l) \/ ReadClassificationHook(l) \/ ReadPolicyHook(l)
         \/ Classify(l) \/ Apply(l) \/ Return(l)
  PROVE  IInv'
  <1>g. TypeOK /\ SettledSound /\ CallSound(l) /\ call[l] \in CallType BY GivenCall
  <1>1. UNCHANGED <<gov, counts, admin, calls>>
    BY DEF ReadHook, ReadClassificationHook, ReadPolicyHook, Classify, Apply, Return
  <1>2. CASE ReadHook(l)
    <2> DEFINE n == [NoCall EXCEPT !.hook = hook, !.sure = settled, !.seen = {policy}]
               c == [n EXCEPT !.at = "chook"]
    <2>1. call' = [call EXCEPT ![l] = c] /\ call[l].at = "idle" BY <1>2 DEF ReadHook, Go
    <2>2. c \in CallType /\ c.at = "chook" /\ c.sure = settled /\ c.seen = {policy}
      BY <1>g, IdleTypes DEF CallType, TypeOK, NoCall
    <2> HIDE DEF c
    <2> QED BY <1>1, <2>1, <2>2, QuietSanitize
  <1>3. CASE ReadClassificationHook(l)
    <2> DEFINE n == [call[l] EXCEPT !.chook = chook]
               c == [n EXCEPT !.at = "phook"]
    <2>1. call' = [call EXCEPT ![l] = c] /\ call[l].at = "chook" BY <1>3 DEF ReadClassificationHook, Go
    <2>2. c \in CallType /\ c.at = "phook" /\ c.sure = call[l].sure /\ c.seen = call[l].seen /\ c.chook = chook
      BY <1>g DEF CallType, TypeOK
    <2>3. c.sure => settled /\ policy \in c.seen /\ chook
      BY <1>g, <2>2 DEF CallSound, SettledSound
    <2> HIDE DEF c
    <2> QED BY <1>1, <2>1, <2>2, <2>3, QuietSanitize
  <1>4. CASE ReadPolicyHook(l)
    <2> DEFINE n == [call[l] EXCEPT !.phook = phook]
               at == IF call[l].hook THEN "redact" ELSE "classify"
               c == [n EXCEPT !.at = at]
    <2>1. call' = [call EXCEPT ![l] = c] /\ call[l].at = "phook" BY <1>4 DEF ReadPolicyHook, Go
    <2>2. at \in {"redact", "classify"} OBVIOUS
    <2> HIDE DEF at
    <2>3. c \in CallType /\ c.at = at /\ c.sure = call[l].sure /\ c.seen = call[l].seen
          /\ c.chook = call[l].chook /\ c.phook = phook
      BY <1>g, <2>2 DEF CallType, TypeOK
    <2>4. c.sure => settled /\ policy \in c.seen /\ c.chook /\ phook
      BY <1>g, <2>1, <2>3 DEF CallSound, SettledSound
    <2> HIDE DEF c
    <2> QED BY <1>1, <2>1, <2>2, <2>3, <2>4, QuietSanitize
  <1>5. CASE Classify(l)
    <2> DEFINE at == IF call[l].chook /\ rules THEN "policy" ELSE "done"
               c == [call[l] EXCEPT !.at = at]
    <2>1. call' = [call EXCEPT ![l] = c] /\ call[l].at = "classify" BY <1>5 DEF Classify, Go
    <2>2. at \in {"policy", "done"} OBVIOUS
    <2>3. call[l].sure => /\ settled /\ policy \in call[l].seen /\ call[l].chook /\ call[l].phook
                          /\ at = "policy"
      BY <1>g, <2>1 DEF CallSound, SettledSound
    <2> HIDE DEF at
    <2>4. c \in CallType /\ c.at = at /\ c.sure = call[l].sure /\ c.seen = call[l].seen
          /\ c.chook = call[l].chook /\ c.phook = call[l].phook
      BY <1>g, <2>2 DEF CallType
    <2> HIDE DEF c
    <2> QED BY <1>1, <2>1, <2>2, <2>3, <2>4, QuietSanitize
  <1>6. CASE Apply(l)
    <2> DEFINE act == IF call[l].phook THEN policy ELSE "pass"
               n == [call[l] EXCEPT !.tagged = act # "drop", !.did = act]
               c == [n EXCEPT !.at = "done"]
    <2>1. call' = [call EXCEPT ![l] = c] /\ call[l].at = "policy" BY <1>6 DEF Apply, Go
    <2>2. call[l].sure => /\ settled /\ policy \in call[l].seen /\ call[l].chook /\ call[l].phook
                          /\ act = policy
      BY <1>g, <2>1 DEF CallSound
    <2>3. act \in Actions BY <1>g DEF TypeOK, Actions
    <2> HIDE DEF act
    <2>4. c \in CallType /\ c.at = "done" /\ c.sure = call[l].sure /\ c.seen = call[l].seen
          /\ c.chook = call[l].chook /\ c.phook = call[l].phook /\ c.did = act
      BY <1>g, <2>3 DEF CallType
    <2> HIDE DEF c
    <2> QED BY <1>1, <2>1, <2>2, <2>4, QuietSanitize
  <1>7. CASE Return(l)
    <2> DEFINE c == [NoCall EXCEPT !.at = "idle"]
    <2>1. call' = [call EXCEPT ![l] = c] /\ call[l].at = "done" BY <1>7 DEF Return, Go
    <2>2. c \in CallType /\ c.at = "idle" /\ ~c.sure BY IdleTypes DEF CallType, NoCall
    <2> HIDE DEF c
    <2> QED BY <1>1, <2>1, <2>2, QuietSanitize
  <1> QED BY <1>2, <1>3, <1>4, <1>5, <1>6, <1>7

\* A redaction reaches the hook: one more to deliver, with a sink and the key set with it.
LEMMA OnRedactionInv ==
  ASSUME IInv, NEW l \in Loggers, OnRedaction(l)
  PROVE  IInv'
  <1>g. TypeOK /\ SettledSound /\ CallSound(l) /\ call[l] \in CallType /\ FieldsCoherent BY GivenCall
  <1> DEFINE n == [call[l] EXCEPT !.key = fields.key, !.sink = fields.sink, !.test = test]
             c == [n EXCEPT !.at = "emit"]
  <1>1. /\ call' = [call EXCEPT ![l] = c] /\ call[l].at = "redact" /\ redactions' = redactions + 1
        /\ UNCHANGED <<gov, receipts, delivered, failures, unsigned, admin, calls>>
    BY DEF OnRedaction, Go
  <1>2. c \in CallType /\ c.at = "emit" /\ c.sure = call[l].sure /\ c.seen = call[l].seen
        /\ c.chook = call[l].chook /\ c.phook = call[l].phook /\ c.key = fields.key /\ c.sink = fields.sink
    BY <1>g DEF CallType, TypeOK
  <1> HIDE DEF c
  <1>3. call' \in [Loggers -> CallType] /\ call'[l] = c /\ \A m \in Loggers : m # l => call'[m] = call[m]
    BY <1>g, <1>1, <1>2 DEF TypeOK
  <1>4. TypeOK' BY <1>g, <1>1, <1>3 DEF TypeOK, gov
  <1>5. CallSound(l)' BY <1>g, <1>1, <1>2, <1>3 DEF CallSound, FieldsCoherent, gov
  <1>6. ReceiptsSound'
    <2>1. Emitting' = Emitting \cup {l} /\ l \notin Emitting BY <1>1, <1>2, <1>3 DEF Emitting
    <2>2. Cardinality(Emitting') = Cardinality(Emitting) + 1 BY <2>1, EmittingFinite, FS_AddElement
    <2>3. redactions = delivered + failures + unsigned + Cardinality(Emitting)
      BY DEF IInv, ReceiptsSound, ReceiptsAccounted, Emitting
    <2>4. redactions' = delivered' + failures' + unsigned' + Cardinality(Emitting')
      BY <1>g, <1>1, <2>2, <2>3, EmittingFinite DEF TypeOK
    <2>5. ReceiptsCoherent' BY <1>1 DEF IInv, ReceiptsSound, ReceiptsCoherent
    <2> QED BY <2>4, <2>5 DEF ReceiptsSound, ReceiptsAccounted, Emitting
  <1> QED BY <1>1, <1>3, <1>4, <1>5, <1>6, SanitizeStep

\* The receipt could not be made: the log call is over, and the redaction in unsigned.
LEMMA OnRedactionRaisesInv ==
  ASSUME IInv, NEW l \in Loggers, OnRedactionRaises(l)
  PROVE  IInv'
  <1>g. TypeOK /\ SettledSound /\ CallSound(l) /\ call[l] \in CallType BY GivenCall
  <1> DEFINE c == [NoCall EXCEPT !.at = "idle"]
  <1>1. /\ call' = [call EXCEPT ![l] = c] /\ call[l].at = "redact"
        /\ redactions' = redactions + 1 /\ unsigned' = unsigned + 1
        /\ UNCHANGED <<gov, receipts, delivered, failures, admin, calls>>
    BY DEF OnRedactionRaises, Go
  <1>2. c \in CallType /\ c.at = "idle" /\ ~c.sure BY IdleTypes DEF CallType, NoCall
  <1> HIDE DEF c
  <1>3. call' \in [Loggers -> CallType] /\ call'[l] = c /\ \A m \in Loggers : m # l => call'[m] = call[m]
    BY <1>g, <1>1, <1>2 DEF TypeOK
  <1>4. TypeOK' BY <1>g, <1>1, <1>3 DEF TypeOK, gov
  <1>5. CallSound(l)' BY <1>2, <1>3 DEF CallSound
  <1>6. ReceiptsSound'
    <2>1. Emitting' = Emitting BY <1>1, <1>2, <1>3 DEF Emitting
    <2>2. redactions = delivered + failures + unsigned + Cardinality(Emitting)
      BY DEF IInv, ReceiptsSound, ReceiptsAccounted, Emitting
    <2>3. redactions' = delivered' + failures' + unsigned' + Cardinality(Emitting')
      BY <1>g, <1>1, <2>1, <2>2, EmittingFinite DEF TypeOK
    <2>4. ReceiptsCoherent' BY <1>1 DEF IInv, ReceiptsSound, ReceiptsCoherent
    <2> QED BY <2>3, <2>4 DEF ReceiptsSound, ReceiptsAccounted, Emitting
  <1> QED BY <1>1, <1>3, <1>4, <1>5, <1>6, SanitizeStep

\* The receipt is delivered to the sink that was read with its key, or counted.
LEMMA EmitInv ==
  ASSUME IInv, NEW l \in Loggers, Emit(l)
  PROVE  IInv'
  <1>g. TypeOK /\ SettledSound /\ CallSound(l) /\ call[l] \in CallType BY GivenCall
  <1> DEFINE c == [call[l] EXCEPT !.at = "classify"]
  <1>1. /\ call' = [call EXCEPT ![l] = c] /\ call[l].at = "emit"
        /\ UNCHANGED <<gov, redactions, unsigned, admin, calls>>
    BY DEF Emit, Go
  <1>2. c \in CallType /\ c.at = "classify" /\ c.sure = call[l].sure /\ c.seen = call[l].seen
        /\ c.chook = call[l].chook /\ c.phook = call[l].phook
    BY <1>g DEF CallType
  <1> HIDE DEF c
  <1>3. call' \in [Loggers -> CallType] /\ call'[l] = c /\ \A m \in Loggers : m # l => call'[m] = call[m]
    BY <1>g, <1>1, <1>2 DEF TypeOK
  <1>4. \/ failures' = failures + 1 /\ delivered' = delivered
        \/ delivered' = delivered + 1 /\ failures' = failures
    BY DEF Emit
  <1>5. TypeOK'
    <2>1. delivered' \in Nat /\ failures' \in Nat BY <1>4, <1>g DEF TypeOK
    <2> QED BY <1>g, <1>1, <1>3, <2>1 DEF TypeOK, gov
  <1>6. CallSound(l)' BY <1>g, <1>1, <1>2, <1>3 DEF CallSound, gov
  <1>7. ReceiptsAccounted'
    <2>1. Emitting' = Emitting \ {l} /\ l \in Emitting BY <1>1, <1>2, <1>3 DEF Emitting
    <2>2. Cardinality(Emitting') = Cardinality(Emitting) - 1 BY <2>1, EmittingFinite, FS_RemoveElement
    <2>3. redactions = delivered + failures + unsigned + Cardinality(Emitting)
      BY DEF IInv, ReceiptsSound, ReceiptsAccounted, Emitting
    <2>4. redactions' = delivered' + failures' + unsigned' + Cardinality(Emitting')
      BY <1>g, <1>1, <1>4, <2>2, <2>3, EmittingFinite DEF TypeOK
    <2> QED BY <2>4 DEF ReceiptsAccounted, Emitting
  <1>8. ReceiptsCoherent'
    <2>1. receipts' = receipts \/ receipts' = receipts \cup {<<call[l].key, IF call[l].test THEN 0 ELSE call[l].sink>>}
      BY DEF Emit
    <2>2. \A r \in receipts : r[2] # 0 => r[1] = r[2] BY DEF IInv, ReceiptsSound, ReceiptsCoherent
    <2>3. call[l].sink # 0 => call[l].key = call[l].sink BY <1>g, <1>1 DEF CallSound
    <2> QED BY <2>1, <2>2, <2>3 DEF ReceiptsCoherent
  <1> QED BY <1>1, <1>3, <1>5, <1>6, <1>7, <1>8, SanitizeStep DEF ReceiptsSound

\* A configuration call begins: its record is new and the number of calls grows.
LEMMA BeginFacts ==
  ASSUME TypeOK, NEW a \in Admins, NEW at \in {"idle", "fields", "hook", "chook", "phook"},
         NEW on \in BOOLEAN, NEW sink \in BOOLEAN, Begin(a, at, on, sink)
  PROVE  /\ admin' \in [Admins -> AdminType] /\ calls' \in Nat /\ admin[a].at = "idle"
         /\ admin'[a].at = at /\ admin'[a].on = on
         /\ \A b \in Admins : b # a => admin'[b] = admin[b]
  <1> DEFINE n == [Idle EXCEPT !.id = calls + 1, !.on = on, !.sink = sink]
             e == [n EXCEPT !.at = at]
  <1>1. admin' = [admin EXCEPT ![a] = e] /\ calls' = calls + 1 /\ admin[a].at = "idle" BY DEF Begin, Admin
  <1>2. calls + 1 \in Nat BY DEF TypeOK
  <1>3. e \in AdminType /\ e.at = at /\ e.on = on BY <1>2, IdleTypes DEF AdminType, Idle
  <1> HIDE DEF e
  <1> QED BY <1>1, <1>2, <1>3 DEF TypeOK

\* An admin moves on with its call.
LEMMA AdminFacts ==
  ASSUME TypeOK, NEW a \in Admins, NEW at \in {"idle", "fields", "hook", "chook", "phook"},
         NEW e \in AdminType, Admin(a, at, e)
  PROVE  /\ admin' \in [Admins -> AdminType] /\ admin'[a].at = at /\ admin'[a].on = e.on
         /\ \A b \in Admins : b # a => admin'[b] = admin[b]
  <1> DEFINE f == [e EXCEPT !.at = at]
  <1>1. admin' = [admin EXCEPT ![a] = f] BY DEF Admin
  <1>2. f \in AdminType /\ f.at = at /\ f.on = e.on BY DEF AdminType
  <1> HIDE DEF f
  <1> QED BY <1>1, <1>2 DEF TypeOK

\* enable_receipts and the reset of receipts: classification is left alone.
LEMMA ReceiptCallsInv ==
  ASSUME IInv, NEW a \in Admins, Enable(a) \/ Disable(a) \/ ResetReceipts(a) \/ SetFields(a) \/ SetHook(a)
  PROVE  IInv'
  <1>g. TypeOK /\ SettledSound /\ RegistrationSound /\ FieldsCoherent /\ admin[a] \in AdminType
    BY DEF IInv, TypeOK
  <1>1. UNCHANGED <<rules, policy, chook, phook, settled, counts, call>>
    BY DEF Enable, Disable, ResetReceipts, SetFields, SetHook, gov
  <1>2. /\ admin' \in [Admins -> AdminType] /\ calls' \in Nat
        /\ admin[a].at \notin {"chook", "phook"} /\ admin'[a].at \notin {"chook", "phook"}
        /\ \A b \in Admins : b # a => admin'[b] = admin[b]
    <2>1. CASE \E on, sink \in BOOLEAN : Begin(a, "fields", on, sink) BY <2>1, <1>g, BeginFacts
    <2>2. CASE Begin(a, "hook", FALSE, FALSE) BY <2>2, <1>g, BeginFacts
    <2>3. CASE SetFields(a) BY <2>3, <1>g, AdminFacts DEF SetFields, TypeOK
    <2>4. CASE SetHook(a) BY <2>4, <1>g, AdminFacts, IdleTypes DEF SetHook, TypeOK
    <2> QED BY <2>1, <2>2, <2>3, <2>4 DEF Enable, Disable, ResetReceipts
  <1>3. /\ fields' \in [enabled : BOOLEAN, key : Nat, sink : Nat] /\ FieldsCoherent'
        /\ test' \in BOOLEAN /\ hook' \in BOOLEAN
    <2>1. CASE Enable(a) \/ Disable(a) BY <2>1, <1>g DEF Enable, Disable, gov, TypeOK, FieldsCoherent
    <2>2. CASE ResetReceipts(a) BY <2>2, <1>g DEF ResetReceipts, TypeOK, FieldsCoherent
    <2>3. CASE SetFields(a) BY <2>3, <1>g DEF SetFields, TypeOK, FieldsCoherent, AdminType
    <2>4. CASE SetHook(a) BY <2>4, <1>g DEF SetHook, TypeOK, FieldsCoherent, AdminType
    <2> QED BY <2>1, <2>2, <2>3, <2>4
  <1>4. TypeOK' BY <1>g, <1>1, <1>2, <1>3 DEF TypeOK, counts
  <1>5. SettledSound' BY <1>g, <1>1, <1>2 DEF SettledSound, Pending
  <1>6. RegistrationSound'
    <2> SUFFICES ASSUME NEW b \in Admins, admin'[b].at = "phook", admin'[b].on, admin'[b].id # 0, ~chook
                 PROVE  \E d \in Admins : d # b /\ admin'[d].at = "phook" /\ ~admin'[d].on
      BY <1>1 DEF RegistrationSound
    <2>1. b # a BY <1>2
    <2>2. PICK d \in Admins : d # b /\ admin[d].at = "phook" /\ ~admin[d].on
      BY <1>g, <1>2, <2>1 DEF RegistrationSound
    <2> QED BY <1>2, <2>2
  <1> QED BY <1>1, <1>3, <1>4, <1>5, <1>6, ConfigureStep

\* Registering begins with the rules.
LEMMA RegisterInv ==
  ASSUME IInv, NEW a \in Admins, Register(a)
  PROVE  IInv'
  <1>g. TypeOK /\ SettledSound /\ RegistrationSound /\ FieldsCoherent BY DEF IInv
  <1>1. rules' = TRUE /\ UNCHANGED <<fields, test, hook, policy, chook, phook, settled, counts, call>>
    BY DEF Register
  <1>2. /\ admin' \in [Admins -> AdminType] /\ calls' \in Nat /\ admin[a].at = "idle"
        /\ admin'[a].at = "chook" /\ admin'[a].on = TRUE
        /\ \A b \in Admins : b # a => admin'[b] = admin[b]
    BY <1>g, BeginFacts DEF Register
  <1>3. TypeOK' BY <1>g, <1>1, <1>2 DEF TypeOK, counts
  <1>4. SettledSound' BY <1>g, <1>1, <1>2 DEF SettledSound, Pending
  <1>5. RegistrationSound'
    <2> SUFFICES ASSUME NEW b \in Admins, admin'[b].at = "phook", admin'[b].on, admin'[b].id # 0, ~chook
                 PROVE  \E d \in Admins : d # b /\ admin'[d].at = "phook" /\ ~admin'[d].on
      BY <1>1 DEF RegistrationSound
    <2>1. b # a BY <1>2
    <2>2. PICK d \in Admins : d # b /\ admin[d].at = "phook" /\ ~admin[d].on
      BY <1>g, <1>2, <2>1 DEF RegistrationSound
    <2> QED BY <1>2, <2>2
  <1>6. FieldsCoherent' BY <1>g, <1>1 DEF FieldsCoherent
  <1> QED BY <1>1, <1>3, <1>4, <1>5, <1>6, ConfigureStep

\* The first hook: after it the admin is one that RegistrationSound speaks of, or one
\* it allows to have taken the hook away.
LEMMA SetClassificationHookInv ==
  ASSUME IInv, NEW a \in Admins, SetClassificationHook(a)
  PROVE  IInv'
  <1>g. TypeOK /\ SettledSound /\ RegistrationSound /\ FieldsCoherent /\ admin[a] \in AdminType
    BY DEF IInv, TypeOK
  <1>1. /\ admin[a].at = "chook" /\ chook' = admin[a].on
        /\ UNCHANGED <<fields, test, hook, rules, policy, phook, settled, counts, call, calls>>
    BY DEF SetClassificationHook
  <1>2. /\ admin' \in [Admins -> AdminType] /\ admin'[a].at = "phook" /\ admin'[a].on = admin[a].on
        /\ \A b \in Admins : b # a => admin'[b] = admin[b]
    BY <1>g, AdminFacts DEF SetClassificationHook
  <1>3. TypeOK' BY <1>g, <1>1, <1>2 DEF TypeOK, counts, AdminType
  <1>4. SettledSound'
    <2>1. settled => admin[a].on BY <1>g, <1>1 DEF SettledSound, Pending
    <2> QED BY <1>g, <1>1, <1>2, <2>1 DEF SettledSound, Pending
  <1>5. RegistrationSound'
    <2> SUFFICES ASSUME NEW b \in Admins, admin'[b].at = "phook", admin'[b].on, admin'[b].id # 0, ~chook'
                 PROVE  \E d \in Admins : d # b /\ admin'[d].at = "phook" /\ ~admin'[d].on
      BY DEF RegistrationSound
    <2>1. ~admin'[a].on BY <1>1, <1>2
    <2>2. b # a BY <2>1
    <2> QED BY <1>2, <2>1, <2>2
  <1>6. FieldsCoherent' BY <1>g, <1>1 DEF FieldsCoherent
  <1> QED BY <1>1, <1>3, <1>4, <1>5, <1>6, ConfigureStep

\* The second hook: an unmarked registration with no reset about settles, and a reset
\* marks those it overlapped.
LEMMA SetPolicyHookInv ==
  ASSUME IInv, NEW a \in Admins, SetPolicyHook(a)
  PROVE  IInv'
  <1>g. TypeOK /\ SettledSound /\ RegistrationSound /\ FieldsCoherent /\ admin[a] \in AdminType
    BY DEF IInv, TypeOK
  <1>1. /\ admin[a].at = "phook" /\ phook' = admin[a].on /\ settled' = (settled \/ Settles(a))
        /\ UNCHANGED <<fields, test, hook, rules, policy, chook, counts, call, calls>>
    BY DEF SetPolicyHook
  <1>2. /\ admin' \in [Admins -> AdminType] /\ admin'[a] = Idle
        /\ \A b \in Admins : b # a => /\ admin'[b].at = admin[b].at /\ admin'[b].on = admin[b].on
                                      /\ admin'[b].id # 0 => admin'[b].id = admin[b].id /\ (admin[a].on \/ ~Pending(b))
    <2>1. admin' = Overlapped(a) BY DEF SetPolicyHook
    <2>2. ASSUME NEW b \in Admins
          PROVE  /\ Overlapped(a)[b] \in AdminType /\ (b = a => Overlapped(a)[b] = Idle)
                 /\ b # a => /\ Overlapped(a)[b].at = admin[b].at /\ Overlapped(a)[b].on = admin[b].on
                             /\ Overlapped(a)[b].id # 0 =>
                                  Overlapped(a)[b].id = admin[b].id /\ (admin[a].on \/ ~Pending(b))
      <3>1. admin[b] \in AdminType BY <1>g DEF TypeOK
      <3>2. CASE b = a BY <3>2, IdleTypes DEF Overlapped
      <3>3. CASE b # a /\ ~admin[a].on /\ Pending(b)
        <4>1. Overlapped(a)[b] = [admin[b] EXCEPT !.id = 0] BY <3>3 DEF Overlapped, Pending
        <4> QED BY <3>1, <3>3, <4>1 DEF AdminType
      <3>4. CASE b # a /\ (admin[a].on \/ ~Pending(b))
        <4>1. Overlapped(a)[b] = admin[b] BY <3>4 DEF Overlapped, Pending
        <4> QED BY <3>1, <3>4, <4>1
      <3> QED BY <3>2, <3>3, <3>4
    <2>3. Overlapped(a) = [b \in Admins |-> Overlapped(a)[b]] BY DEF Overlapped
    <2> QED BY <2>1, <2>2, <2>3
  <1>3. settled' \in BOOLEAN /\ admin[a].on \in BOOLEAN BY <1>1, <1>g DEF AdminType
  <1>4. TypeOK' BY <1>g, <1>1, <1>2, <1>3 DEF TypeOK, counts
  <1>5. ~Pending(a)' BY <1>2 DEF Pending, Idle
  <1>6. SettledSound'
    <2>1. CASE settled
      <3>1. admin[a].on BY <2>1, <1>g, <1>1 DEF SettledSound, Pending
      <3> QED BY <2>1, <3>1, <1>g, <1>1, <1>2, <1>5 DEF SettledSound, Pending
    <2>2. CASE Settles(a)
      <3>1. /\ admin[a].on /\ admin[a].id # 0 /\ rules
            /\ \A b \in Admins \ {a} : admin[b].at \in {"chook", "phook"} => admin[b].on
        BY <2>2 DEF Settles
      <3>2. chook BY <3>1, <1>g, <1>1 DEF RegistrationSound
      <3> QED BY <3>1, <3>2, <1>1, <1>2, <1>5 DEF SettledSound, Pending
    <2>3. CASE ~settled /\ ~Settles(a) BY <2>3, <1>1 DEF SettledSound
    <2> QED BY <2>1, <2>2, <2>3
  <1>7. RegistrationSound'
    <2> SUFFICES ASSUME NEW b \in Admins, admin'[b].at = "phook", admin'[b].on, admin'[b].id # 0, ~chook
                 PROVE  \E d \in Admins : d # b /\ admin'[d].at = "phook" /\ ~admin'[d].on
      BY <1>1 DEF RegistrationSound
    <2>1. b # a BY <1>5 DEF Pending
    <2>2. admin[b].at = "phook" /\ admin[b].on /\ admin[b].id # 0 /\ admin[a].on
      BY <1>2, <2>1 DEF Pending
    <2>3. PICK d \in Admins : d # b /\ admin[d].at = "phook" /\ ~admin[d].on
      BY <1>g, <2>2 DEF RegistrationSound
    <2>4. d # a BY <2>2, <2>3
    <2> QED BY <1>2, <2>3, <2>4
  <1>8. FieldsCoherent' BY <1>g, <1>1 DEF FieldsCoherent
  <1> QED BY <1>1, <1>4, <1>6, <1>7, <1>8, ConfigureStep

\* A reset and a new policy, which log calls under way may or may not see: neither
\* moves a log call.
LEMMA ClassificationCallsInv ==
  ASSUME IInv, NEW a \in Admins, ResetClassification(a) \/ SetPolicy(a)
  PROVE  IInv'
  <1>g. TypeOK /\ SettledSound /\ RegistrationSound /\ FieldsCoherent BY DEF IInv
  <1>1. UNCHANGED <<fields, test, hook, chook, phook, counts>> BY DEF ResetClassification, SetPolicy
  <1>2. /\ admin' \in [Admins -> AdminType] /\ calls' \in Nat /\ admin[a].at = "idle"
        /\ admin'[a].at # "phook" /\ \A b \in Admins : b # a => admin'[b] = admin[b]
        /\ SetPolicy(a) => admin'[a].at = "idle"
    <2>1. CASE ResetClassification(a) /\ ~SetPolicy(a)
      <3>1. Begin(a, "chook", FALSE, FALSE) BY <2>1 DEF ResetClassification
      <3> QED BY <2>1, <3>1, <1>g, BeginFacts
    <2>2. CASE SetPolicy(a)
      <3>1. Begin(a, "idle", FALSE, FALSE) BY <2>2 DEF SetPolicy
      <3> QED BY <3>1, <1>g, BeginFacts
    <2> QED BY <2>1, <2>2
  <1>3. RegistrationSound'
    <2> SUFFICES ASSUME NEW b \in Admins, admin'[b].at = "phook", admin'[b].on, admin'[b].id # 0, ~chook
                 PROVE  \E d \in Admins : d # b /\ admin'[d].at = "phook" /\ ~admin'[d].on
      BY <1>1 DEF RegistrationSound
    <2>1. b # a BY <1>2
    <2>2. PICK d \in Admins : d # b /\ admin[d].at = "phook" /\ ~admin[d].on
      BY <1>g, <1>2, <2>1 DEF RegistrationSound
    <2> QED BY <1>2, <2>2
  <1>4. FieldsCoherent' BY <1>g, <1>1 DEF FieldsCoherent
  <1>5. CASE ResetClassification(a)
    <2>1. rules' = FALSE /\ policy' = "drop" /\ settled' = FALSE
          /\ call' = [l \in Loggers |-> [call[l] EXCEPT !.sure = FALSE]]
      BY <1>5 DEF ResetClassification
    <2>2. ASSUME NEW l \in Loggers
          PROVE  /\ call'[l] \in CallType /\ call'[l].at = call[l].at /\ ~call'[l].sure
                 /\ call'[l].key = call[l].key /\ call'[l].sink = call[l].sink
      BY <2>1, <1>g DEF TypeOK, CallType
    <2>3. call' \in [Loggers -> CallType] BY <2>1, <2>2
    <2>4. TypeOK' BY <1>g, <1>1, <1>2, <2>1, <2>3 DEF TypeOK, Actions, counts
    <2>5. SettledSound' BY <2>1 DEF SettledSound
    <2>6. ASSUME NEW l \in Loggers PROVE CallSound(l)' BY <2>2 DEF IInv, CallSound
    <2>7. Emitting' = Emitting BY <2>2 DEF Emitting
    <2>8. ReceiptsSound'
      BY <1>1, <2>7 DEF IInv, ReceiptsSound, ReceiptsAccounted, ReceiptsCoherent, Emitting, counts
    <2> QED BY <1>3, <1>4, <2>4, <2>5, <2>6, <2>8 DEF IInv
  <1>6. CASE SetPolicy(a)
    <2>1. PICK p \in Actions : policy' = p /\ call' = [l \in Loggers |-> [call[l] EXCEPT !.seen = @ \cup {p}]]
      BY <1>6 DEF SetPolicy
    <2>2. UNCHANGED <<rules, settled>> BY <1>6 DEF SetPolicy
    <2>3. ASSUME NEW l \in Loggers
          PROVE  /\ call'[l] \in CallType /\ call'[l].at = call[l].at /\ call'[l].sure = call[l].sure
                 /\ call'[l].key = call[l].key /\ call'[l].sink = call[l].sink
                 /\ call'[l].chook = call[l].chook /\ call'[l].phook = call[l].phook
                 /\ call'[l].did = call[l].did /\ call'[l].seen = call[l].seen \cup {p}
      BY <2>1, <1>g DEF TypeOK, CallType
    <2>4. call' \in [Loggers -> CallType] BY <2>1, <2>3
    <2>5. TypeOK' BY <1>g, <1>1, <1>2, <2>1, <2>2, <2>4 DEF TypeOK, counts
    <2>6. SettledSound' BY <1>6, <1>g, <1>1, <1>2, <2>2 DEF SettledSound, Pending
    <2>7. ASSUME NEW l \in Loggers PROVE CallSound(l)' BY <2>1, <2>2, <2>3 DEF IInv, CallSound
    <2>8. Emitting' = Emitting BY <2>3 DEF Emitting
    <2>9. ReceiptsSound'
      BY <1>1, <2>8 DEF IInv, ReceiptsSound, ReceiptsAccounted, ReceiptsCoherent, Emitting, counts
    <2> QED BY <1>3, <1>4, <2>5, <2>6, <2>7, <2>9 DEF IInv
  <1> QED BY <1>5, <1>6

\* Every step keeps the invariant.
LEMMA StepInv == IInv /\ [Next]_vars => IInv'
  <1> SUFFICES ASSUME IInv, [Next]_vars PROVE IInv' OBVIOUS
  <1>1. CASE UNCHANGED vars
    <2>1. TypeOK' BY <1>1 DEF vars, gov, counts, IInv, TypeOK
    <2>2. SettledSound' /\ RegistrationSound' /\ FieldsCoherent'
      BY <1>1 DEF vars, gov, IInv, SettledSound, Pending, RegistrationSound, FieldsCoherent
    <2> QED BY <1>1, <2>1, <2>2, ConfigureStep DEF vars, gov
  <1>2. ASSUME NEW a \in Admins, Configure(a) PROVE IInv'
    BY <1>2, ReceiptCallsInv, RegisterInv, SetClassificationHookInv, SetPolicyHookInv,
       ClassificationCallsInv
    DEF Configure
  <1>3. ASSUME NEW l \in Loggers, Sanitize(l) PROVE IInv'
    BY <1>3, ReadingInv, OnRedactionInv, OnRedactionRaisesInv, EmitInv DEF Sanitize
  <1> QED BY <1>1, <1>2, <1>3 DEF Next

\* The inductive invariant is an invariant.
LEMMA Invariance == Spec => []IInv
  <1> QED BY InitInv, StepInv, PTL DEF Spec

-----------------------------------------------------------------------------
(* Theorems                                                                *)

\* receipts.py: every redaction the hook was told of is a delivered receipt, a counted
\* failure or about to become one, unless its receipt could not be made and the log call
\* raised; and no sink receives a receipt signed with a key
\* other than its own, however enabling, disabling and resetting overlap.
THEOREM ReceiptsAreSound == Spec => []ReceiptsSound
  <1>1. IInv => ReceiptsSound BY DEF IInv
  <1> QED BY Invariance, <1>1, PTL

\* classification.py: once a registration that no reset overlapped has returned, every
\* log call that begins before a reset treats the field as a policy in force
\* during that call asks, although rules and hooks are set and read one by one.
THEOREM RegistrationHolds == Spec => []RegisteredMeansHandled
  <1>1. IInv => RegisteredMeansHandled BY DEF IInv, CallSound, RegisteredMeansHandled
  <1> QED BY Invariance, <1>1, PTL
=============================================================================
