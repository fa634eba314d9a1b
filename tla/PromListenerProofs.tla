------------------------- MODULE PromListenerProofs -------------------------
(***************************************************************************)
(* Theorems about PromListener for any requests, settings, web configs,    *)
(* credentials and bounds.  The inductive invariant says what a server     *)
(* keeps of the file it was started from, that a TLS context is at least   *)
(* as new as its stamp, what a request in progress has already shown, and  *)
(* where the lifecycle operation under way stands.                         *)
(***************************************************************************)
EXTENDS PromListener, SequenceTheorems, TLAPS

Users == UNION {c.users : c \in Contents}
Tlss == {c.tls : c \in Contents} \cup {NoTls}
Files == Contents \cup {NoFile}
Settings == Keys \cup {Off}
Times == Nat \X Nat
Reads == Seq(Nat)
Ats == {"new", "handshake", "stat", "build", "route", "check", "respond", "collect", "read", "done"}
OpAts == {"idle", "sync", "load", "bind", "detach", "dispose"}
Codes == {0, 200, 405, 503}

OpType == [at : OpAts, key : Settings]
ServerType == [key : Settings, file : Files, users : SUBSET Users, tls : Tlss, stamp : Times,
               ctx : Times, verified : SUBSET Users, holder : Requests \cup {None}]
RequestType == [at : Ats, srv : Nat, cred : Creds \cup {None}, cert : BOOLEAN, read : Reads,
                since : Times, ctx : Times, from : Int, body : BOOLEAN, data : Int, code : Codes]

\* Types; indices refer to servers there are.
TypeOK ==
    /\ op \in OpType
    /\ setup \in BOOLEAN /\ want \in Settings /\ report \in {None, "config", "port"} /\ live \in BOOLEAN
    /\ srv \in Seq(ServerType) /\ run \in 0 .. Len(srv)
    /\ file \in Contents /\ cert \in Nat /\ key \in Nat /\ tick \in Nat /\ latest \in Int
    /\ req \in [Requests -> RequestType] /\ \A r \in Requests : req[r].srv <= Len(srv)

\* A server checks what its web config asked for, and its context is no older than the
\* stamp, which is no newer than the files.
ServerSound(s) ==
    /\ srv[s].verified \subseteq srv[s].users
    /\ srv[s].key.web => /\ ~Refused(srv[s].file) /\ ~Mistyped(srv[s].file) /\ srv[s].tls = srv[s].file.tls
                         /\ srv[s].users = srv[s].file.users \ {None}
    /\ srv[s].stamp[1] <= srv[s].ctx[1] /\ srv[s].stamp[2] <= srv[s].ctx[2]
    /\ srv[s].stamp[1] <= cert /\ srv[s].stamp[2] <= key

Past == {"route", "check", "respond", "collect", "read", "done"}   \* the handshake is over
Authorised == {"respond", "collect", "read", "done"}

\* The files a request has looked at so far.
ReadSound(r) ==
    LET q == req[r] IN
    /\ q.at = "stat" => /\ Len(q.read) = 1 /\ q.since[1] <= q.read[1] /\ q.since[2] <= key
                        /\ q.read[1] <= cert
    /\ q.at = "build" => /\ Len(q.read) = 3 /\ q.since[1] <= q.read[1] /\ q.since[2] <= q.read[2]
                         /\ q.read[1] <= q.read[3] /\ q.read[2] <= key /\ q.read[1] <= cert

\* What a request has shown its server.
ShownSound(r) ==
    LET q == req[r]  s == srv[q.srv] IN
    /\ q.at \in {"handshake", "stat", "build", "route", "check"} => q.srv # 0
    /\ q.at = "route" /\ s.tls # NoTls => q.since[1] <= q.ctx[1] /\ q.since[2] <= q.ctx[2]
    /\ q.at \in Past /\ q.srv # 0 /\ s.tls # NoTls /\ VerifyMode(s.tls) = "required" => q.cert
    /\ q.at \in Authorised /\ q.srv # 0 /\ s.users # {} => q.cred \in s.users
    /\ q.code # 0 => q.at = "done"

\* What a scrape has collected.
ScrapeSound(r) ==
    LET q == req[r] IN
    /\ q.at \in {"collect", "read"} \/ q.code = 200 => live
    /\ q.at \in {"collect", "read"} => q.from <= tick
    /\ q.at = "read" => IF latest = Nothing THEN status # "ready" ELSE q.from <= latest
    /\ q.code = 200 /\ q.body => IF q.data = Nothing THEN status # "ready" ELSE q.from <= q.data

\* Where the lifecycle operation stands.
OpSound ==
    /\ status = "ready" => live
    /\ op.at = "dispose" => status # "ready"
    /\ op.at \in {"sync", "load", "bind"} => setup /\ op.key = want /\ report = None
    /\ op.at \in {"load", "bind"} => run = 0 /\ want # Off
    /\ op.at = "bind" => Len(srv) > 0 /\ srv[Len(srv)].key = want /\ \A r \in Requests : req[r].srv < Len(srv)
    /\ op.at \in {"detach", "dispose"} => run = 0 /\ ~setup

IInv ==
    /\ TypeOK /\ OpSound /\ ListenerSettles
    /\ \A s \in DOMAIN srv : ServerSound(s)
    /\ \A r \in Requests : ReadSound(r) /\ ShownSound(r) /\ ScrapeSound(r)
-----------------------------------------------------------------------------
(* Lemmas                                                                  *)

\* What a server takes from a file has its type.
LEMMA FileFacts ==
  ASSUME NEW c \in Files
  PROVE  c.users \ {None} \in SUBSET Users /\ c.tls \in Tlss
  <1>1. CASE c = NoFile BY <1>1 DEF NoFile, Tlss
  <1>2. CASE c \in Contents BY <1>2 DEF Users, Tlss
  <1> QED BY <1>1, <1>2 DEF Files

\* A free request slot.
LEMMA NoRequestType == NoRequest \in RequestType /\ NoRequest.at = "new" /\ NoRequest.srv = 0 /\ NoRequest.code = 0
  <1>1. <<>> \in Reads /\ <<0, 0>> \in Times BY EmptySeq DEF Reads, Times
  <1> QED BY <1>1 DEF NoRequest, RequestType, Ats, Codes, Nothing, None

\* The initial state satisfies the invariant.
LEMMA InitInv == Init => IInv
  <1> SUFFICES ASSUME Init PROVE IInv OBVIOUS
  <1>1. srv = <<>> /\ srv \in Seq(ServerType) /\ Len(srv) = 0 /\ DOMAIN srv = {}
    BY EmptySeq DEF Init
  <1>2. \A r \in Requests : req[r] = NoRequest BY DEF Init
  <1>3. \A r \in Requests : req[r].at = "new" /\ req[r].srv = 0 /\ req[r].code = 0
    BY <1>2, NoRequestType
  <1>4. req \in [Requests -> RequestType] BY NoRequestType DEF Init
  <1>5. TypeOK
    <2>1. latest \in Int /\ report \in {None, "config", "port"} /\ op.key \in Settings /\ want \in Settings
      BY DEF Init, Nothing, Settings
    <2>2. op \in OpType
      BY DEF Init, OpType, OpAts, Settings
    <2>3. run \in 0 .. Len(srv) /\ \A r \in Requests : req[r].srv <= Len(srv) BY <1>1, <1>3 DEF Init
    <2> QED BY <1>1, <1>4, <2>1, <2>2, <2>3 DEF Init, TypeOK
  <1>6. OpSound /\ ListenerSettles BY DEF Init, OpSound, ListenerSettles
  <1>7. \A r \in Requests : ReadSound(r) /\ ShownSound(r) /\ ScrapeSound(r)
    <2>1. \A r \in Requests : ReadSound(r) BY <1>3 DEF ReadSound
    <2>2. \A r \in Requests : ShownSound(r) BY <1>3 DEF ShownSound, Past, Authorised
    <2>3. ASSUME NEW r \in Requests PROVE ScrapeSound(r)
      <3>1. req[r].at = "new" /\ req[r].code # 200 BY <1>3
      <3> QED BY <3>1 DEF ScrapeSound
    <2> QED BY <2>1, <2>2, <2>3
  <1> QED BY <1>1, <1>5, <1>6, <1>7 DEF IInv

\* What a request in progress has shown and collected keeps its worth while servers
\* keep what they check, files and measurements only grow, and no reader comes back
\* on a global that is taken.
LEMMA RequestKept ==
  ASSUME TypeOK, NEW r \in Requests, ReadSound(r), ShownSound(r), ScrapeSound(r), req'[r] = req[r],
         req[r].srv # 0 => /\ srv'[req[r].srv].tls = srv[req[r].srv].tls
                           /\ srv'[req[r].srv].users = srv[req[r].srv].users,
         cert' \in Nat, key' \in Nat, tick' \in Nat, cert <= cert', key <= key', tick <= tick',
         live => live' /\ (status' = "ready" => status = "ready"),
         latest' = latest \/ latest' = tick \/ (latest' = Nothing /\ status' # "ready")
  PROVE  ReadSound(r)' /\ ShownSound(r)' /\ ScrapeSound(r)'
  <1>q. req[r] \in RequestType /\ cert \in Nat /\ key \in Nat /\ tick \in Nat BY DEF TypeOK
  <1>t. req[r].from \in Int /\ req[r].since[1] \in Nat /\ req[r].since[2] \in Nat
    BY <1>q DEF RequestType, Times
  <1>1. ReadSound(r)'
    <2>0. \A i \in 1 .. Len(req[r].read) : req[r].read[i] \in Nat
      BY <1>q, ElementOfSeq DEF RequestType, Reads
    <2>1. CASE req[r].at = "stat"
      <3>1. Len(req[r].read) = 1 BY <2>1 DEF ReadSound
      <3>2. req[r].read[1] \in Nat BY <2>0, <3>1
      <3>3. /\ req[r].since[1] <= req[r].read[1] /\ req[r].since[2] <= key /\ req[r].read[1] <= cert
        BY <2>1 DEF ReadSound
      <3>4. req[r].since[2] <= key' /\ req[r].read[1] <= cert' BY <3>2, <3>3, <1>q, <1>t
      <3> QED BY <2>1, <3>1, <3>3, <3>4 DEF ReadSound
    <2>2. CASE req[r].at = "build"
      <3>1. Len(req[r].read) = 3 BY <2>2 DEF ReadSound
      <3>2. req[r].read[1] \in Nat /\ req[r].read[2] \in Nat BY <2>0, <3>1
      <3>3. /\ req[r].since[1] <= req[r].read[1] /\ req[r].since[2] <= req[r].read[2]
            /\ req[r].read[1] <= req[r].read[3] /\ req[r].read[2] <= key /\ req[r].read[1] <= cert
        BY <2>2 DEF ReadSound
      <3>4. req[r].read[2] <= key' /\ req[r].read[1] <= cert' BY <3>2, <3>3, <1>q, <1>t
      <3> QED BY <2>2, <3>1, <3>3, <3>4 DEF ReadSound
    <2> QED BY <2>1, <2>2 DEF ReadSound
  <1>2. ShownSound(r)' BY DEF ShownSound
  <1>3. ScrapeSound(r)'
    <2>1. req[r].at \in {"collect", "read"} => req[r].from <= tick /\ req[r].from <= tick'
      BY <1>q, <1>t DEF ScrapeSound
    <2>2. tick # Nothing BY <1>q DEF Nothing
    <2> QED BY <2>1, <2>2 DEF ScrapeSound
  <1> QED BY <1>1, <1>2, <1>3

\* A server keeps its guarantees while files only get newer.
LEMMA ServerKept ==
  ASSUME TypeOK, NEW s \in DOMAIN srv, ServerSound(s), srv'[s] = srv[s],
         cert' \in Nat, key' \in Nat, cert <= cert', key <= key'
  PROVE  ServerSound(s)'
  <1>1. srv[s] \in ServerType /\ cert \in Nat /\ key \in Nat BY ElementOfSeq, LenProperties DEF TypeOK
  <1>2. srv[s].stamp[1] \in Nat /\ srv[s].stamp[2] \in Nat BY <1>1 DEF ServerType, Times
  <1> QED BY <1>1, <1>2 DEF ServerSound

\* A step of one request: it may change what the servers have cached, not what they
\* were started from.
LEMMA RequestStep ==
  ASSUME IInv, NEW r \in Requests, UNCHANGED <<lifecycle, disk, status>>,
         latest' = latest \/ latest' = tick,
         req' \in [Requests -> RequestType], \A q \in Requests : q # r => req'[q] = req[q],
         req'[r].srv = req[r].srv \/ req'[r].srv = 0 \/ req'[r].srv = run,
         srv' \in Seq(ServerType), Len(srv') = Len(srv),
         \A s \in DOMAIN srv : /\ srv'[s].key = srv[s].key /\ srv'[s].tls = srv[s].tls
                               /\ srv'[s].users = srv[s].users /\ ServerSound(s)',
         ReadSound(r)', ShownSound(r)', ScrapeSound(r)'
  PROVE  IInv'
  <1>t. TypeOK /\ OpSound BY DEF IInv
  <1>1. Len(srv) \in Nat /\ DOMAIN srv = 1 .. Len(srv) /\ DOMAIN srv' = DOMAIN srv
    BY <1>t, LenProperties DEF TypeOK
  <1>2. \A q \in Requests : req[q].srv \in 0 .. Len(srv) BY <1>t, <1>1 DEF TypeOK, RequestType
  <1>3. run \in 0 .. Len(srv) BY <1>t DEF TypeOK
  <1>4. \A q \in Requests : req'[q].srv <= Len(srv') BY <1>1, <1>2, <1>3
  <1>5. TypeOK'
    <2>1. latest' \in Int BY <1>t DEF TypeOK
    <2> QED BY <1>t, <1>3, <1>4, <2>1 DEF TypeOK, lifecycle, disk
  <1>6. OpSound'
    <2>1. ASSUME op.at = "bind"
          PROVE  /\ Len(srv') > 0 /\ srv'[Len(srv')].key = want
                 /\ \A q \in Requests : req'[q].srv < Len(srv')
      <3>1. /\ Len(srv) > 0 /\ run = 0 /\ \A q \in Requests : req[q].srv < Len(srv)
            /\ srv[Len(srv)].key = want
        BY <2>1, <1>t DEF OpSound
      <3>2. Len(srv) \in DOMAIN srv BY <3>1, <1>1
      <3> QED BY <3>1, <3>2, <1>1
    <2> QED BY <1>t, <2>1 DEF OpSound, lifecycle
  <1>7. ListenerSettles'
    <2>1. run # 0 => srv'[run].key = srv[run].key BY <1>1, <1>3
    <2> QED BY <2>1 DEF IInv, ListenerSettles, lifecycle, disk
  <1>8. ASSUME NEW q \in Requests, q # r PROVE ReadSound(q)' /\ ShownSound(q)' /\ ScrapeSound(q)'
    <2>1. ReadSound(q) /\ ShownSound(q) /\ ScrapeSound(q) BY DEF IInv
    <2>2. req[q].srv # 0 => req[q].srv \in DOMAIN srv BY <1>1, <1>2
    <2>3. cert \in Nat /\ key \in Nat /\ tick \in Nat BY <1>t DEF TypeOK
    <2>4. UNCHANGED <<cert, key, tick, live, status>> BY DEF lifecycle, disk
    <2> QED BY <1>t, <1>8, <2>1, <2>2, <2>3, <2>4, RequestKept
  <1> QED BY <1>1, <1>5, <1>6, <1>7, <1>8 DEF IInv

\* Moving a request on.
LEMMA GoFacts ==
  ASSUME TypeOK, NEW r \in Requests, NEW f \in RequestType, NEW at \in Ats, Go(r, at, f)
  PROVE  /\ req' \in [Requests -> RequestType] /\ \A q \in Requests : q # r => req'[q] = req[q]
         /\ req'[r].at = at /\ req'[r].srv = f.srv /\ req'[r].cred = f.cred /\ req'[r].cert = f.cert
         /\ req'[r].read = f.read /\ req'[r].since = f.since /\ req'[r].ctx = f.ctx
         /\ req'[r].from = f.from /\ req'[r].body = f.body /\ req'[r].data = f.data /\ req'[r].code = f.code
  <1> DEFINE g == [f EXCEPT !.at = at]
  <1>1. req' = [req EXCEPT ![r] = g] BY DEF Go
  <1>2. g \in RequestType BY DEF RequestType
  <1>3. req' \in [Requests -> RequestType] /\ req'[r] = g /\ \A q \in Requests : q # r => req'[q] = req[q]
    BY <1>1, <1>2 DEF TypeOK
  <1>4. /\ g.at = at /\ g.srv = f.srv /\ g.cred = f.cred /\ g.cert = f.cert /\ g.read = f.read
        /\ g.since = f.since /\ g.ctx = f.ctx /\ g.from = f.from /\ g.body = f.body /\ g.data = f.data
        /\ g.code = f.code
    BY DEF RequestType
  <1> HIDE DEF g
  <1> QED BY <1>3, <1>4

\* A server changes only what it has cached: the context and its stamp, the verified
\* credentials and the lock.
LEMMA ServerUpdate ==
  ASSUME IInv, NEW s \in DOMAIN srv, NEW e \in ServerType, srv' = [srv EXCEPT ![s] = e],
         e.key = srv[s].key, e.file = srv[s].file, e.tls = srv[s].tls, e.users = srv[s].users,
         e.verified \subseteq e.users, e.stamp[1] <= e.ctx[1], e.stamp[2] <= e.ctx[2],
         e.stamp[1] <= cert, e.stamp[2] <= key, UNCHANGED <<cert, key>>
  PROVE  /\ srv' \in Seq(ServerType) /\ Len(srv') = Len(srv)
         /\ \A i \in DOMAIN srv : /\ srv'[i].key = srv[i].key /\ srv'[i].tls = srv[i].tls
                                  /\ srv'[i].users = srv[i].users /\ ServerSound(i)'
  <1>t. TypeOK /\ srv \in Seq(ServerType) BY DEF IInv, TypeOK
  <1>1. s \in 1 .. Len(srv) /\ DOMAIN srv = 1 .. Len(srv) BY <1>t, LenProperties
  <1>2. /\ srv' \in Seq(ServerType) /\ Len(srv') = Len(srv)
        /\ \A i \in 1 .. Len(srv) : srv'[i] = IF i = s THEN e ELSE srv[i]
    BY <1>t, <1>1, ExceptSeq
  <1>3. ASSUME NEW i \in DOMAIN srv
        PROVE  /\ srv'[i].key = srv[i].key /\ srv'[i].tls = srv[i].tls
               /\ srv'[i].users = srv[i].users /\ ServerSound(i)'
    <2>1. ServerSound(i) BY DEF IInv
    <2>2. CASE i = s
      <3>1. srv'[i] = e BY <2>2, <1>1, <1>2
      <3> QED BY <2>1, <2>2, <3>1 DEF ServerSound
    <2>3. CASE i # s
      <3>1. srv'[i] = srv[i] BY <2>3, <1>1, <1>2
      <3> QED BY <2>1, <3>1 DEF ServerSound
    <2> QED BY <2>2, <2>3
  <1> QED BY <1>2, <1>3

\* The servers are left alone.
LEMMA ServersSame ==
  ASSUME IInv, srv' = srv, UNCHANGED <<cert, key>>
  PROVE  /\ srv' \in Seq(ServerType) /\ Len(srv') = Len(srv)
         /\ \A i \in DOMAIN srv : /\ srv'[i].key = srv[i].key /\ srv'[i].tls = srv[i].tls
                                  /\ srv'[i].users = srv[i].users /\ ServerSound(i)'
  BY DEF IInv, TypeOK, ServerSound

\* What is known of a request in progress and of its server.
LEMMA GivenRequest ==
  ASSUME IInv, NEW r \in Requests
  PROVE  /\ TypeOK /\ OpSound /\ req[r] \in RequestType /\ ReadSound(r) /\ ShownSound(r) /\ ScrapeSound(r)
         /\ cert \in Nat /\ key \in Nat /\ tick \in Nat /\ latest \in Int /\ DOMAIN srv = 1 .. Len(srv)
         /\ req[r].srv # 0 => req[r].srv \in DOMAIN srv /\ srv[req[r].srv] \in ServerType /\ ServerSound(req[r].srv)
  <1>1. TypeOK /\ OpSound /\ ReadSound(r) /\ ShownSound(r) /\ ScrapeSound(r) BY DEF IInv
  <1>2. req[r] \in RequestType /\ cert \in Nat /\ key \in Nat /\ tick \in Nat /\ latest \in Int BY <1>1 DEF TypeOK
  <1>3. Len(srv) \in Nat /\ DOMAIN srv = 1 .. Len(srv) BY <1>1, LenProperties DEF TypeOK
  <1>4. req[r].srv \in Nat /\ req[r].srv <= Len(srv) BY <1>1, <1>2 DEF TypeOK, RequestType
  <1>5. req[r].srv # 0 => req[r].srv \in 1 .. Len(srv) BY <1>3, <1>4
  <1>6. req[r].srv # 0 => srv[req[r].srv] \in ServerType BY <1>1, <1>5, ElementOfSeq DEF TypeOK
  <1>7. req[r].srv # 0 => ServerSound(req[r].srv) BY <1>3, <1>5 DEF IInv
  <1> QED BY <1>1, <1>2, <1>3, <1>5, <1>6, <1>7

\* A free slot owes nothing.
LEMMA FreeSlot ==
  ASSUME NEW r \in Requests, req'[r].at = "new", req'[r].code = 0
  PROVE  ReadSound(r)' /\ ShownSound(r)' /\ ScrapeSound(r)'
  <1>1. ReadSound(r)' BY DEF ReadSound
  <1>2. ShownSound(r)' BY DEF ShownSound, Past, Authorised
  <1>3. req'[r].code # 200 OBVIOUS
  <1>4. ScrapeSound(r)' BY <1>3 DEF ScrapeSound
  <1> QED BY <1>1, <1>2, <1>4

\* A denied or finished request frees its slot.
LEMMA DenyFacts ==
  ASSUME IInv, NEW r \in Requests, Go(r, "new", NoRequest)
  PROVE  /\ req' \in [Requests -> RequestType] /\ \A q \in Requests : q # r => req'[q] = req[q]
         /\ req'[r].srv = 0 /\ ReadSound(r)' /\ ShownSound(r)' /\ ScrapeSound(r)'
  <1>1. TypeOK /\ "new" \in Ats BY GivenRequest DEF Ats
  <1>2. /\ req' \in [Requests -> RequestType] /\ \A q \in Requests : q # r => req'[q] = req[q]
        /\ req'[r].at = "new" /\ req'[r].srv = 0 /\ req'[r].code = 0
    BY <1>1, NoRequestType, GoFacts
  <1> QED BY <1>2, FreeSlot

\* A connection, or a call of the mounted handler.
LEMMA ArriveInv ==
  ASSUME IInv, NEW r \in Requests, Arrive(r)
  PROVE  IInv'
  <1>g. TypeOK BY GivenRequest
  <1> DEFINE f == [NoRequest EXCEPT !.srv = run]
             at == IF run = 0 THEN "respond" ELSE IF srv[run].tls # NoTls THEN "handshake" ELSE "route"
  <1>1. Go(r, at, f) /\ UNCHANGED <<lifecycle, disk, srv, status, latest>> BY DEF Arrive, Only
  <1>2. run \in Nat
    <2>1. Len(srv) \in Nat BY <1>g, LenProperties DEF TypeOK
    <2> QED BY <1>g, <2>1 DEF TypeOK
  <1>3. f \in RequestType /\ f.srv = run /\ f.code = 0
    BY <1>2, NoRequestType DEF RequestType
  <1>4. at \in Ats /\ at \in {"respond", "handshake", "route"} /\ (at = "respond" => run = 0)
        /\ (at # "respond" => run # 0) /\ (at = "route" => srv[run].tls = NoTls)
    BY DEF Ats
  <1> HIDE DEF f, at
  <1>5. /\ req' \in [Requests -> RequestType] /\ \A q \in Requests : q # r => req'[q] = req[q]
        /\ req'[r].at = at /\ req'[r].srv = run /\ req'[r].code = 0
    BY <1>g, <1>1, <1>3, <1>4, GoFacts
  <1>6. UNCHANGED <<cert, key, srv, status, latest>> BY <1>1 DEF disk
  <1>7. ReadSound(r)' BY <1>4, <1>5 DEF ReadSound
  <1>8. ShownSound(r)' BY <1>4, <1>5, <1>6 DEF ShownSound, Past, Authorised
  <1>9. ScrapeSound(r)'
    <2>1. req'[r].code # 200 /\ req'[r].at \notin {"collect", "read"} BY <1>4, <1>5
    <2> QED BY <2>1 DEF ScrapeSound
  <1>10. UNCHANGED run BY <1>1 DEF lifecycle
  <1> QED BY <1>1, <1>5, <1>6, <1>7, <1>8, <1>9, ServersSame, RequestStep

\* The answer is sent.
LEMMA CloseInv ==
  ASSUME IInv, NEW r \in Requests, Close(r)
  PROVE  IInv'
  <1>1. Go(r, "new", NoRequest) /\ UNCHANGED <<lifecycle, disk, srv, status, latest>> BY DEF Close, Only
  <1>2. UNCHANGED <<cert, key>> BY <1>1 DEF disk
  <1> QED BY <1>1, <1>2, DenyFacts, ServersSame, RequestStep

\* The lock is taken and the certificate's time read.
LEMMA StatCertInv ==
  ASSUME IInv, NEW r \in Requests, StatCert(r)
  PROVE  IInv'
  <1> DEFINE s == req[r].srv
             e == [srv[s] EXCEPT !.holder = r]
             one == <<cert>>
             two == <<cert, key>>
             f == [req[r] EXCEPT !.since = two, !.read = one]
  <1>g. /\ TypeOK /\ req[r] \in RequestType /\ ShownSound(r) /\ cert \in Nat /\ key \in Nat
        /\ (s # 0 => s \in DOMAIN srv /\ srv[s] \in ServerType /\ ServerSound(s))
    BY GivenRequest
  <1>1. /\ req[r].at = "handshake" /\ srv' = [srv EXCEPT ![s].holder = r] /\ Go(r, "stat", f)
        /\ UNCHANGED <<lifecycle, disk, status, latest>>
    BY DEF StatCert, Only
  <1>2. UNCHANGED <<cert, key>> BY <1>1 DEF disk
  <1>3. s \in DOMAIN srv /\ srv[s] \in ServerType /\ ServerSound(s) BY <1>g, <1>1 DEF ShownSound
  <1>4. srv' = [srv EXCEPT ![s] = e] BY <1>1, <1>3
  <1>5. e \in ServerType /\ e.key = srv[s].key /\ e.file = srv[s].file /\ e.tls = srv[s].tls
        /\ e.users = srv[s].users /\ e.verified = srv[s].verified /\ e.stamp = srv[s].stamp /\ e.ctx = srv[s].ctx
    BY <1>3 DEF ServerType
  <1> HIDE DEF e
  <1>6. /\ srv' \in Seq(ServerType) /\ Len(srv') = Len(srv)
        /\ \A i \in DOMAIN srv : /\ srv'[i].key = srv[i].key /\ srv'[i].tls = srv[i].tls
                                 /\ srv'[i].users = srv[i].users /\ ServerSound(i)'
    BY <1>2, <1>3, <1>4, <1>5, ServerUpdate DEF ServerSound
  <1>7. one \in Reads /\ two \in Times BY <1>g DEF Reads, Times
  <1>o. Len(one) = 1 /\ one[1] = cert /\ two[1] = cert /\ two[2] = key OBVIOUS
  <1> HIDE DEF one, two
  <1>8. f \in RequestType /\ f.srv = s /\ f.since = two /\ f.read = one /\ f.code = req[r].code
    BY <1>g, <1>7 DEF RequestType
  <1>9. "stat" \in Ats BY DEF Ats
  <1> HIDE DEF f
  <1>10. /\ req' \in [Requests -> RequestType] /\ \A q \in Requests : q # r => req'[q] = req[q]
         /\ req'[r].at = "stat" /\ req'[r].srv = s /\ req'[r].since = two
         /\ req'[r].read = one /\ req'[r].code = req[r].code
    BY <1>g, <1>1, <1>8, <1>9, GoFacts
  <1>11. ReadSound(r)'
    <2>1. Len(req'[r].read) = 1 /\ req'[r].read[1] = cert /\ req'[r].since[1] = cert /\ req'[r].since[2] = key
      BY <1>10, <1>o
    <2> QED BY <1>g, <1>2, <1>10, <2>1 DEF ReadSound
  <1>12. req[r].code = 0 BY <1>g, <1>1 DEF ShownSound
  <1>13. ShownSound(r)'
    <2>1. s # 0 BY <1>g, <1>1 DEF ShownSound
    <2> QED BY <1>10, <1>12, <2>1 DEF ShownSound, Past, Authorised
  <1>14. ScrapeSound(r)'
    <2>1. req'[r].code # 200 /\ req'[r].at \notin {"collect", "read"} BY <1>10, <1>12
    <2> QED BY <2>1 DEF ScrapeSound
  <1> HIDE DEF s
  <1> QED BY <1>1, <1>6, <1>10, <1>11, <1>13, <1>14, RequestStep DEF s

\* The handshake is over, with a context no older than the check.
LEMMA ShakenFacts ==
  ASSUME IInv, NEW r \in Requests, NEW ctx \in Times, Shaken(r, ctx), req[r].srv # 0, req[r].code = 0,
         req[r].since[1] <= ctx[1], req[r].since[2] <= ctx[2],
         srv'[req[r].srv].tls = srv[req[r].srv].tls
  PROVE  /\ req' \in [Requests -> RequestType] /\ \A q \in Requests : q # r => req'[q] = req[q]
         /\ req'[r].srv = req[r].srv \/ req'[r].srv = 0
         /\ ReadSound(r)' /\ ShownSound(r)' /\ ScrapeSound(r)'
  <1>g. TypeOK /\ req[r] \in RequestType BY GivenRequest
  <1> DEFINE owed == VerifyMode(srv[req[r].srv].tls) = "required"
             none == <<>>
             f == [req[r] EXCEPT !.ctx = ctx, !.cert = owed, !.read = none]
  <1>1. CASE Deny(r) BY <1>1, DenyFacts DEF Deny
  <1>2. CASE Go(r, "route", f)
    <2>1. none \in Reads /\ owed \in BOOLEAN BY EmptySeq DEF Reads
    <2>o. owed <=> VerifyMode(srv[req[r].srv].tls) = "required" OBVIOUS
    <2> HIDE DEF owed, none
    <2>2. f \in RequestType /\ f.srv = req[r].srv /\ f.ctx = ctx /\ f.cert = owed
          /\ f.since = req[r].since /\ f.code = req[r].code
      BY <1>g, <2>1 DEF RequestType
    <2>3. "route" \in Ats BY DEF Ats
    <2> HIDE DEF f
    <2>4. /\ req' \in [Requests -> RequestType] /\ \A q \in Requests : q # r => req'[q] = req[q]
          /\ req'[r].at = "route" /\ req'[r].srv = req[r].srv /\ req'[r].ctx = ctx /\ req'[r].cert = owed
          /\ req'[r].since = req[r].since /\ req'[r].code = 0
      BY <1>g, <1>2, <2>2, <2>3, GoFacts
    <2>5. ReadSound(r)' BY <2>4 DEF ReadSound
    <2>6. ShownSound(r)' BY <2>4, <2>o DEF ShownSound, Past, Authorised
    <2>7. ScrapeSound(r)'
      <3>1. req'[r].code # 200 /\ req'[r].at \notin {"collect", "read"} BY <2>4
      <3> QED BY <3>1 DEF ScrapeSound
    <2> QED BY <2>4, <2>5, <2>6, <2>7
  <1> QED BY <1>1, <1>2 DEF Shaken

\* The key's time: the context is kept, or is to be rebuilt from newer files.
LEMMA StatKeyInv ==
  ASSUME IInv, NEW r \in Requests, StatKey(r)
  PROVE  IInv'
  <1> DEFINE s == req[r].srv
             stamp == Append(req[r].read, key)
  <1>g. /\ TypeOK /\ req[r] \in RequestType /\ ShownSound(r) /\ ReadSound(r) /\ cert \in Nat /\ key \in Nat
        /\ (s # 0 => s \in DOMAIN srv /\ srv[s] \in ServerType /\ ServerSound(s))
    BY GivenRequest
  <1>1. req[r].at = "stat" /\ UNCHANGED <<lifecycle, disk, status, latest>> BY DEF StatKey, Only
  <1>2. UNCHANGED <<cert, key>> BY <1>1 DEF disk
  <1>3. s # 0 /\ s \in DOMAIN srv /\ srv[s] \in ServerType /\ ServerSound(s) BY <1>g, <1>1 DEF ShownSound
  <1>4. req[r].code = 0 BY <1>g, <1>1 DEF ShownSound
  <1>5. /\ Len(req[r].read) = 1 /\ req[r].since[1] <= req[r].read[1] /\ req[r].since[2] <= key
        /\ req[r].read[1] <= cert
    BY <1>g, <1>1 DEF ReadSound
  <1>6. req[r].read \in Seq(Nat) /\ req[r].since[1] \in Nat /\ req[r].since[2] \in Nat
    BY <1>g DEF RequestType, Reads, Times
  <1>7. /\ stamp \in Seq(Nat) /\ Len(stamp) = 2 /\ stamp[1] = req[r].read[1] /\ stamp[2] = key
        /\ req[r].read[1] \in Nat
    BY <1>g, <1>5, <1>6, AppendProperties, ElementOfSeq
  <1> HIDE DEF stamp
  <1>8. CASE stamp = srv[s].stamp
    <2>1. Shaken(r, srv[s].ctx) /\ srv' = [srv EXCEPT ![s].holder = None]
      BY <1>8 DEF StatKey, stamp
    <2> DEFINE e == [srv[s] EXCEPT !.holder = None]
    <2>2. srv' = [srv EXCEPT ![s] = e] BY <2>1, <1>3
    <2>3. e \in ServerType /\ e.key = srv[s].key /\ e.file = srv[s].file /\ e.tls = srv[s].tls
          /\ e.users = srv[s].users /\ e.verified = srv[s].verified /\ e.stamp = srv[s].stamp /\ e.ctx = srv[s].ctx
      BY <1>3 DEF ServerType
    <2> HIDE DEF e
    <2>4. /\ srv' \in Seq(ServerType) /\ Len(srv') = Len(srv)
          /\ \A i \in DOMAIN srv : /\ srv'[i].key = srv[i].key /\ srv'[i].tls = srv[i].tls
                                   /\ srv'[i].users = srv[i].users /\ ServerSound(i)'
      BY <1>2, <1>3, <2>2, <2>3, ServerUpdate DEF ServerSound
    <2>5. srv[s].ctx \in Times /\ srv[s].ctx[1] \in Nat /\ srv[s].ctx[2] \in Nat
      BY <1>3 DEF ServerType, Times
    <2>6. stamp[1] <= srv[s].ctx[1] /\ stamp[2] <= srv[s].ctx[2] BY <1>3, <1>8 DEF ServerSound
    <2>7. req[r].since[1] <= srv[s].ctx[1] /\ req[r].since[2] <= srv[s].ctx[2]
      <3>1. stamp[1] = req[r].read[1] /\ stamp[2] = key /\ req[r].read[1] \in Nat BY <1>7
      <3>2. req[r].since[1] \in Nat /\ req[r].since[2] \in Nat /\ key \in Nat BY <1>6, <1>g
      <3> QED BY <1>5, <2>5, <2>6, <3>1, <3>2
    <2>8. srv'[s].tls = srv[s].tls BY <1>3, <2>4
    <2>9. /\ req' \in [Requests -> RequestType] /\ \A q \in Requests : q # r => req'[q] = req[q]
          /\ req'[r].srv = req[r].srv \/ req'[r].srv = 0
          /\ ReadSound(r)' /\ ShownSound(r)' /\ ScrapeSound(r)'
      BY <1>3, <1>4, <2>1, <2>5, <2>7, <2>8, ShakenFacts
    <2> QED BY <1>1, <2>4, <2>9, RequestStep
  <1>9. CASE stamp # srv[s].stamp
    <2> DEFINE three == Append(stamp, cert)
               f == [req[r] EXCEPT !.read = three]
    <2>1. Go(r, "build", f) /\ srv' = srv BY <1>9 DEF StatKey, stamp
    <2>a. /\ three \in Seq(Nat) /\ Len(three) = Len(stamp) + 1 /\ three[Len(stamp) + 1] = cert
          /\ \A i \in 1 .. Len(stamp) : three[i] = stamp[i]
      <3>1. stamp \in Seq(Nat) /\ cert \in Nat BY <1>g, <1>7
      <3> QED BY <3>1, AppendProperties
    <2> HIDE DEF three
    <2>2. /\ three \in Reads /\ Len(three) = 3 /\ three[1] = req[r].read[1] /\ three[2] = key
          /\ three[3] = cert
      BY <1>7, <2>a DEF Reads
    <2>3. f \in RequestType /\ f.srv = s /\ f.read = three /\ f.since = req[r].since /\ f.code = req[r].code
      BY <1>g, <2>2 DEF RequestType
    <2>4. "build" \in Ats BY DEF Ats
    <2> HIDE DEF f
    <2>5. /\ req' \in [Requests -> RequestType] /\ \A q \in Requests : q # r => req'[q] = req[q]
          /\ req'[r].at = "build" /\ req'[r].srv = s /\ req'[r].since = req[r].since
          /\ req'[r].read = three /\ req'[r].code = 0
      BY <1>g, <1>4, <2>1, <2>3, <2>4, GoFacts
    <2>6. ReadSound(r)'
      <3>1. /\ req[r].since[1] <= three[1] /\ req[r].since[2] <= three[2] /\ three[1] <= three[3]
            /\ three[2] <= key /\ three[1] <= cert
        BY <1>g, <1>5, <1>7, <2>2
      <3> QED BY <1>2, <2>2, <2>5, <3>1 DEF ReadSound
    <2>7. ShownSound(r)' BY <1>3, <2>5 DEF ShownSound, Past, Authorised
    <2>8. ScrapeSound(r)'
      <3>1. req'[r].code # 200 /\ req'[r].at \notin {"collect", "read"} BY <2>5
      <3> QED BY <3>1 DEF ScrapeSound
    <2> QED BY <1>1, <1>2, <2>1, <2>5, <2>6, <2>7, <2>8, ServersSame, RequestStep
  <1> QED BY <1>8, <1>9

\* The key's file: a matching pair makes a new context, any other drops the connection.
LEMMA BuildKeyInv ==
  ASSUME IInv, NEW r \in Requests, BuildKey(r)
  PROVE  IInv'
  <1> DEFINE s == req[r].srv
             read == req[r].read
             pair == <<read[3], key>>
             stamp == <<read[1], read[2]>>
  <1>g. /\ TypeOK /\ req[r] \in RequestType /\ ShownSound(r) /\ ReadSound(r) /\ cert \in Nat /\ key \in Nat
        /\ (s # 0 => s \in DOMAIN srv /\ srv[s] \in ServerType /\ ServerSound(s))
    BY GivenRequest
  <1>1. req[r].at = "build" /\ UNCHANGED <<lifecycle, disk, status, latest>> BY DEF BuildKey, Only
  <1>2. UNCHANGED <<cert, key>> BY <1>1 DEF disk
  <1>3. s # 0 /\ s \in DOMAIN srv /\ srv[s] \in ServerType /\ ServerSound(s) BY <1>g, <1>1 DEF ShownSound
  <1>4. req[r].code = 0 BY <1>g, <1>1 DEF ShownSound
  <1>5. /\ Len(read) = 3 /\ req[r].since[1] <= read[1] /\ req[r].since[2] <= read[2]
        /\ read[1] <= read[3] /\ read[2] <= key /\ read[1] <= cert
    BY <1>g, <1>1 DEF ReadSound
  <1>6. read \in Seq(Nat) /\ req[r].since[1] \in Nat /\ req[r].since[2] \in Nat
    BY <1>g DEF RequestType, Reads, Times
  <1>7. read[1] \in Nat /\ read[2] \in Nat /\ read[3] \in Nat BY <1>5, <1>6, ElementOfSeq
  <1>8. pair \in Times /\ stamp \in Times BY <1>g, <1>7 DEF Times
  <1>o. pair[1] = read[3] /\ pair[2] = key /\ stamp[1] = read[1] /\ stamp[2] = read[2] OBVIOUS
  <1> HIDE DEF pair, stamp
  <1>9. CASE read[3] = key
    <2> DEFINE e == [srv[s] EXCEPT !.ctx = pair, !.stamp = stamp, !.holder = None]
    <2>1. /\ srv' = [srv EXCEPT ![s].ctx = pair, ![s].stamp = stamp, ![s].holder = None]
          /\ Shaken(r, pair)
      BY <1>9 DEF BuildKey, Stamp, pair, stamp
    <2>2. srv' = [srv EXCEPT ![s] = e] BY <2>1, <1>3
    <2>3. e \in ServerType /\ e.key = srv[s].key /\ e.file = srv[s].file /\ e.tls = srv[s].tls
          /\ e.users = srv[s].users /\ e.verified = srv[s].verified /\ e.stamp = stamp /\ e.ctx = pair
      BY <1>3, <1>8 DEF ServerType
    <2> HIDE DEF e
    <2>4. e.stamp[1] <= e.ctx[1] /\ e.stamp[2] <= e.ctx[2] /\ e.stamp[1] <= cert /\ e.stamp[2] <= key
      BY <1>5, <1>o, <2>3
    <2>5. e.verified \subseteq e.users BY <1>3, <2>3 DEF ServerSound
    <2>6. /\ srv' \in Seq(ServerType) /\ Len(srv') = Len(srv)
          /\ \A i \in DOMAIN srv : /\ srv'[i].key = srv[i].key /\ srv'[i].tls = srv[i].tls
                                   /\ srv'[i].users = srv[i].users /\ ServerSound(i)'
      BY <1>2, <1>3, <2>2, <2>3, <2>4, <2>5, ServerUpdate
    <2>7. req[r].since[1] <= pair[1] /\ req[r].since[2] <= pair[2]
      <3>1. req[r].since[1] \in Nat /\ req[r].since[2] \in Nat /\ key \in Nat BY <1>g, <1>6
      <3>2. req[r].since[1] <= read[3] /\ req[r].since[2] <= key BY <1>5, <1>7, <3>1
      <3> QED BY <1>o, <3>2
    <2>8. srv'[s].tls = srv[s].tls BY <1>3, <2>6
    <2>9. /\ req' \in [Requests -> RequestType] /\ \A q \in Requests : q # r => req'[q] = req[q]
          /\ req'[r].srv = req[r].srv \/ req'[r].srv = 0
          /\ ReadSound(r)' /\ ShownSound(r)' /\ ScrapeSound(r)'
      BY <1>3, <1>4, <1>8, <2>1, <2>7, <2>8, ShakenFacts
    <2> QED BY <1>1, <2>6, <2>9, RequestStep
  <1>10. CASE read[3] # key
    <2> DEFINE e == [srv[s] EXCEPT !.holder = None]
    <2>1. srv' = [srv EXCEPT ![s].holder = None] /\ Go(r, "new", NoRequest)
      BY <1>10 DEF BuildKey, Deny
    <2>2. srv' = [srv EXCEPT ![s] = e] BY <2>1, <1>3
    <2>3. e \in ServerType /\ e.key = srv[s].key /\ e.file = srv[s].file /\ e.tls = srv[s].tls
          /\ e.users = srv[s].users /\ e.verified = srv[s].verified /\ e.stamp = srv[s].stamp /\ e.ctx = srv[s].ctx
      BY <1>3 DEF ServerType
    <2> HIDE DEF e
    <2>4. /\ srv' \in Seq(ServerType) /\ Len(srv') = Len(srv)
          /\ \A i \in DOMAIN srv : /\ srv'[i].key = srv[i].key /\ srv'[i].tls = srv[i].tls
                                   /\ srv'[i].users = srv[i].users /\ ServerSound(i)'
      BY <1>2, <1>3, <2>2, <2>3, ServerUpdate DEF ServerSound
    <2> QED BY <1>1, <2>1, <2>4, DenyFacts, RequestStep
  <1> QED BY <1>9, <1>10

\* The path, and whose credentials the header carries.
LEMMA RouteInv ==
  ASSUME IInv, NEW r \in Requests, Route(r)
  PROVE  IInv'
  <1> DEFINE s == req[r].srv
             q == [NoRequest EXCEPT !.srv = req[r].srv, !.cert = req[r].cert]
  <1>g. /\ TypeOK /\ req[r] \in RequestType /\ ShownSound(r)
        /\ (s # 0 => s \in DOMAIN srv /\ srv[s] \in ServerType /\ ServerSound(s))
    BY GivenRequest
  <1>1. req[r].at = "route" /\ UNCHANGED <<lifecycle, disk, srv, status, latest>> BY DEF Route, Only
  <1>2. UNCHANGED <<cert, key>> BY <1>1 DEF disk
  <1>3. s # 0 /\ s \in DOMAIN srv /\ ServerSound(s) BY <1>g, <1>1 DEF ShownSound
  <1>4. srv[s].tls # NoTls /\ VerifyMode(srv[s].tls) = "required" => req[r].cert
    BY <1>1, <1>3, <1>g DEF ShownSound, Past
  <1>5. q \in RequestType /\ q.srv = s /\ q.cert = req[r].cert /\ q.code = 0
    BY <1>g, NoRequestType DEF RequestType
  <1> HIDE DEF q
  <1>6. ASSUME NEW f \in RequestType, NEW at \in {"respond", "check"}, Go(r, at, f), f.srv = s,
               f.cert = req[r].cert, f.code = 0,
               at = "respond" /\ srv[s].users # {} => f.cred \in srv[s].users
        PROVE  IInv'
    <2>1. at \in Ats BY DEF Ats
    <2>2. /\ req' \in [Requests -> RequestType] /\ \A p \in Requests : p # r => req'[p] = req[p]
          /\ req'[r].at = at /\ req'[r].srv = s /\ req'[r].cert = req[r].cert /\ req'[r].cred = f.cred
          /\ req'[r].code = 0
      BY <1>g, <1>6, <2>1, GoFacts
    <2>3. ReadSound(r)' BY <2>2 DEF ReadSound
    <2>4. ShownSound(r)' BY <1>1, <1>3, <1>4, <1>6, <2>2 DEF ShownSound, Past, Authorised
    <2>5. ScrapeSound(r)'
      <3>1. req'[r].code # 200 /\ req'[r].at \notin {"collect", "read"} BY <2>2
      <3> QED BY <3>1 DEF ScrapeSound
    <2> QED BY <1>1, <1>2, <2>2, <2>3, <2>4, <2>5, ServersSame, RequestStep
  <1>7. CASE Deny(r) BY <1>1, <1>2, <1>7, DenyFacts, ServersSame, RequestStep DEF Deny
  <1>8. CASE srv[s].users = {} /\ Go(r, "respond", q) BY <1>5, <1>6, <1>8
  <1>9. ASSUME NEW c \in Creds, srv[s].users # {},
               Go(r, IF c \in srv[s].verified THEN "respond" ELSE "check", [q EXCEPT !.cred = c])
        PROVE  IInv'
    <2> DEFINE f == [q EXCEPT !.cred = c]
               at == IF c \in srv[s].verified THEN "respond" ELSE "check"
    <2>1. f \in RequestType /\ f.srv = s /\ f.cert = req[r].cert /\ f.code = 0 /\ f.cred = c
      BY <1>5 DEF RequestType
    <2>2. at \in {"respond", "check"} /\ (at = "respond" => c \in srv[s].verified) OBVIOUS
    <2>3. srv[s].verified \subseteq srv[s].users BY <1>3 DEF ServerSound
    <2>4. Go(r, at, f) BY <1>9
    <2> HIDE DEF f, at
    <2> QED BY <1>6, <2>1, <2>2, <2>3, <2>4
  <1> QED BY <1>7, <1>8, <1>9 DEF Route, q

\* The bcrypt check: the credential is one of the server's users, or the slot is free.
LEMMA CheckInv ==
  ASSUME IInv, NEW r \in Requests, Check(r)
  PROVE  IInv'
  <1> DEFINE s == req[r].srv
             c == req[r].cred
  <1>g. /\ TypeOK /\ req[r] \in RequestType /\ ShownSound(r) /\ cert \in Nat /\ key \in Nat
        /\ (s # 0 => s \in DOMAIN srv /\ srv[s] \in ServerType /\ ServerSound(s))
    BY GivenRequest
  <1>1. req[r].at = "check" /\ UNCHANGED <<lifecycle, disk, status, latest>> BY DEF Check, Only
  <1>2. UNCHANGED <<cert, key>> BY <1>1 DEF disk
  <1>3. s # 0 /\ s \in DOMAIN srv /\ srv[s] \in ServerType /\ ServerSound(s) BY <1>g, <1>1 DEF ShownSound
  <1>4. /\ req[r].code = 0
        /\ srv[s].tls # NoTls /\ VerifyMode(srv[s].tls) = "required" => req[r].cert
    BY <1>1, <1>3, <1>g DEF ShownSound, Past
  <1>5. CASE c \in srv[s].users
    <2> DEFINE e == [srv[s] EXCEPT !.verified = @ \cup {c}]
    <2>1. srv' = [srv EXCEPT ![s].verified = @ \cup {c}] /\ Go(r, "respond", req[r])
      BY <1>5 DEF Check
    <2>2. srv' = [srv EXCEPT ![s] = e] BY <2>1, <1>3
    <2>a. srv[s].users \in SUBSET Users /\ srv[s].verified \in SUBSET Users BY <1>3 DEF ServerType
    <2>b. srv[s].verified \cup {c} \in SUBSET Users BY <1>5, <2>a
    <2>3. e \in ServerType /\ e.key = srv[s].key /\ e.file = srv[s].file /\ e.tls = srv[s].tls
          /\ e.users = srv[s].users /\ e.verified = srv[s].verified \cup {c}
          /\ e.stamp = srv[s].stamp /\ e.ctx = srv[s].ctx
      BY <1>3, <2>b DEF ServerType
    <2> HIDE DEF e
    <2>5. e.verified \subseteq e.users BY <1>3, <1>5, <2>3 DEF ServerSound
    <2>6. /\ srv' \in Seq(ServerType) /\ Len(srv') = Len(srv)
          /\ \A i \in DOMAIN srv : /\ srv'[i].key = srv[i].key /\ srv'[i].tls = srv[i].tls
                                   /\ srv'[i].users = srv[i].users /\ ServerSound(i)'
      BY <1>2, <1>3, <2>2, <2>3, <2>5, ServerUpdate DEF ServerSound
    <2>7. "respond" \in Ats BY DEF Ats
    <2>8. /\ req' \in [Requests -> RequestType] /\ \A q \in Requests : q # r => req'[q] = req[q]
          /\ req'[r].at = "respond" /\ req'[r].srv = s /\ req'[r].cert = req[r].cert /\ req'[r].cred = c
          /\ req'[r].code = 0
      BY <1>g, <1>4, <2>1, <2>7, GoFacts
    <2>9. ReadSound(r)' BY <2>8 DEF ReadSound
    <2>10. srv'[s].tls = srv[s].tls /\ srv'[s].users = srv[s].users BY <1>3, <2>6
    <2>11. ShownSound(r)' BY <1>4, <1>5, <2>8, <2>10 DEF ShownSound, Past, Authorised
    <2>12. ScrapeSound(r)'
      <3>1. req'[r].code # 200 /\ req'[r].at \notin {"collect", "read"} BY <2>8
      <3> QED BY <3>1 DEF ScrapeSound
    <2> QED BY <1>1, <2>6, <2>8, <2>9, <2>11, <2>12, RequestStep
  <1>6. CASE c \notin srv[s].users
    <2>1. Go(r, "new", NoRequest) /\ srv' = srv BY <1>6 DEF Check, Deny
    <2> QED BY <1>1, <1>2, <2>1, DenyFacts, ServersSame, RequestStep
  <1> QED BY <1>5, <1>6

\* A request past authorisation stays authorised.
LEMMA StaysAuthorised ==
  ASSUME NEW r \in Requests, ShownSound(r), req[r].at \in Authorised, req'[r].at \in Authorised,
         srv' = srv, req'[r].srv = req[r].srv, req'[r].cert = req[r].cert, req'[r].cred = req[r].cred,
         req'[r].code # 0 => req'[r].at = "done"
  PROVE  ReadSound(r)' /\ ShownSound(r)'
  <1>1. ReadSound(r)' BY DEF ReadSound, Authorised
  <1>2. ShownSound(r)' BY DEF ShownSound, Past, Authorised
  <1> QED BY <1>1, <1>2

\* The method, and whether a reader is serving.
LEMMA RespondInv ==
  ASSUME IInv, NEW r \in Requests, Respond(r)
  PROVE  IInv'
  <1>g. /\ TypeOK /\ OpSound /\ req[r] \in RequestType /\ ShownSound(r) /\ tick \in Nat BY GivenRequest
  <1>1. req[r].at = "respond" /\ UNCHANGED <<lifecycle, disk, srv, status, latest>> BY DEF Respond, Only
  <1>2. UNCHANGED <<cert, key, tick, live>> BY <1>1 DEF disk, lifecycle
  <1>3. req[r].code = 0 BY <1>1, <1>g DEF ShownSound
  <1>4. ASSUME NEW code \in {405, 503}, Answer(r, code) PROVE IInv'
    <2> DEFINE f == [req[r] EXCEPT !.code = code]
    <2>1. code \in Codes /\ "done" \in Ats /\ code # 200 BY DEF Codes, Ats
    <2>2. f \in RequestType /\ f.srv = req[r].srv /\ f.cert = req[r].cert /\ f.cred = req[r].cred /\ f.code = code
      BY <1>g, <2>1 DEF RequestType
    <2>3. Go(r, "done", f) BY <1>4 DEF Answer
    <2> HIDE DEF f
    <2>4. /\ req' \in [Requests -> RequestType] /\ \A q \in Requests : q # r => req'[q] = req[q]
          /\ req'[r].at = "done" /\ req'[r].srv = req[r].srv /\ req'[r].cert = req[r].cert
          /\ req'[r].cred = req[r].cred /\ req'[r].code = code
      BY <1>g, <2>1, <2>2, <2>3, GoFacts
    <2>5. ReadSound(r)' /\ ShownSound(r)' BY <1>g, <1>1, <2>4, StaysAuthorised DEF Authorised
    <2>6. ScrapeSound(r)' BY <2>1, <2>4 DEF ScrapeSound
    <2> QED BY <1>1, <1>2, <2>4, <2>5, <2>6, ServersSame, RequestStep
  <1>5. ASSUME status = "ready", Go(r, "collect", [req[r] EXCEPT !.from = tick]) PROVE IInv'
    <2> DEFINE f == [req[r] EXCEPT !.from = tick]
    <2>1. "collect" \in Ats /\ tick \in Int BY <1>g DEF Ats
    <2>2. f \in RequestType /\ f.srv = req[r].srv /\ f.cert = req[r].cert /\ f.cred = req[r].cred
          /\ f.code = 0 /\ f.from = tick
      BY <1>g, <1>3, <2>1 DEF RequestType
    <2>3. Go(r, "collect", f) BY <1>5
    <2> HIDE DEF f
    <2>4. /\ req' \in [Requests -> RequestType] /\ \A q \in Requests : q # r => req'[q] = req[q]
          /\ req'[r].at = "collect" /\ req'[r].srv = req[r].srv /\ req'[r].cert = req[r].cert
          /\ req'[r].cred = req[r].cred /\ req'[r].code = 0 /\ req'[r].from = tick
      BY <1>g, <2>1, <2>2, <2>3, GoFacts
    <2>5. ReadSound(r)' /\ ShownSound(r)' BY <1>g, <1>1, <2>4, StaysAuthorised DEF Authorised
    <2>6. live BY <1>g, <1>5 DEF OpSound
    <2>7. req'[r].from <= tick' /\ req'[r].code # 200 BY <1>g, <1>2, <2>4
    <2>8. ScrapeSound(r)' BY <1>2, <2>4, <2>6, <2>7 DEF ScrapeSound
    <2> QED BY <1>1, <1>2, <2>4, <2>5, <2>8, ServersSame, RequestStep
  <1> QED BY <1>4, <1>5 DEF Respond

\* A collection holds everything recorded.
LEMMA CollectInv ==
  ASSUME IInv, NEW r \in Requests, Collect(r)
  PROVE  IInv'
  <1>g. TypeOK /\ req[r] \in RequestType /\ ShownSound(r) /\ ScrapeSound(r) /\ tick \in Nat BY GivenRequest
  <1>1. /\ req[r].at = "collect" /\ Go(r, "read", req[r]) /\ latest' = tick
        /\ UNCHANGED <<lifecycle, disk, srv, status>>
    BY DEF Collect, Only
  <1>2. UNCHANGED <<cert, key, tick, live>> BY <1>1 DEF disk, lifecycle
  <1>3. req[r].code = 0 /\ live /\ req[r].from <= tick BY <1>1, <1>g DEF ShownSound, ScrapeSound
  <1>4. "read" \in Ats BY DEF Ats
  <1>5. /\ req' \in [Requests -> RequestType] /\ \A q \in Requests : q # r => req'[q] = req[q]
        /\ req'[r].at = "read" /\ req'[r].srv = req[r].srv /\ req'[r].cert = req[r].cert
        /\ req'[r].cred = req[r].cred /\ req'[r].code = 0 /\ req'[r].from = req[r].from
    BY <1>g, <1>1, <1>3, <1>4, GoFacts
  <1>6. ReadSound(r)' /\ ShownSound(r)' BY <1>g, <1>1, <1>5, StaysAuthorised DEF Authorised
  <1>7. tick # Nothing /\ req'[r].code # 200 BY <1>g, <1>5 DEF Nothing
  <1>8. ScrapeSound(r)' BY <1>1, <1>2, <1>3, <1>5, <1>7 DEF ScrapeSound
  <1> QED BY <1>1, <1>2, <1>5, <1>6, <1>8, ServersSame, RequestStep

\* The scrape answers with the last collection.
LEMMA ReadInv ==
  ASSUME IInv, NEW r \in Requests, Read(r)
  PROVE  IInv'
  <1>g. TypeOK /\ req[r] \in RequestType /\ ShownSound(r) /\ ScrapeSound(r) /\ latest \in Int BY GivenRequest
  <1>1. req[r].at = "read" /\ UNCHANGED <<lifecycle, disk, srv, status, latest>> BY DEF Read, Only
  <1>2. UNCHANGED <<cert, key, tick, live>> BY <1>1 DEF disk, lifecycle
  <1>3. PICK get \in BOOLEAN :
          Go(r, "done", [req[r] EXCEPT !.code = 200, !.body = get, !.data = IF get THEN latest ELSE Nothing])
    BY DEF Read
  <1> DEFINE d == IF get THEN latest ELSE Nothing
             ok == 200
             f == [req[r] EXCEPT !.code = ok, !.body = get, !.data = d]
  <1>4. d \in Int /\ ok \in Codes /\ "done" \in Ats BY <1>g DEF Nothing, Codes, Ats
  <1>5. get => d = latest OBVIOUS
  <1>6. Go(r, "done", f) BY <1>3
  <1>o. ok = 200 OBVIOUS
  <1> HIDE DEF d, ok
  <1>7. f \in RequestType /\ f.srv = req[r].srv /\ f.cert = req[r].cert /\ f.cred = req[r].cred
        /\ f.code = ok /\ f.from = req[r].from /\ f.body = get /\ f.data = d
    BY <1>g, <1>4 DEF RequestType
  <1> HIDE DEF f
  <1>8. /\ req' \in [Requests -> RequestType] /\ \A q \in Requests : q # r => req'[q] = req[q]
        /\ req'[r].at = "done" /\ req'[r].srv = req[r].srv /\ req'[r].cert = req[r].cert
        /\ req'[r].cred = req[r].cred /\ req'[r].code = 200 /\ req'[r].from = req[r].from
        /\ req'[r].body = get /\ req'[r].data = d
    BY <1>g, <1>4, <1>6, <1>7, <1>o, GoFacts
  <1>9. ReadSound(r)' /\ ShownSound(r)' BY <1>g, <1>1, <1>8, StaysAuthorised DEF Authorised
  <1>10. live /\ (IF latest = Nothing THEN status # "ready" ELSE req[r].from <= latest)
    BY <1>g, <1>1 DEF ScrapeSound
  <1>11. ScrapeSound(r)' BY <1>1, <1>2, <1>5, <1>8, <1>10 DEF ScrapeSound
  <1> QED BY <1>1, <1>2, <1>8, <1>9, <1>11, ServersSame, RequestStep

-----------------------------------------------------------------------------
(* The lifecycle and the surroundings.                                     *)

\* A step that is no request's: requests keep what they have shown as long as their
\* servers stay and the invariant's other parts are kept up.
LEMMA OtherStep ==
  ASSUME IInv, req' = req,
         op' \in OpType,
         setup' \in BOOLEAN, want' \in Settings, report' \in {None, "config", "port"}, live' \in BOOLEAN,
         file' \in Contents, cert' \in Nat, key' \in Nat, tick' \in Nat,
         cert <= cert', key <= key', tick <= tick',
         srv' \in Seq(ServerType), run' \in 0 .. Len(srv'), \A s \in DOMAIN srv' : ServerSound(s)',
         \A r \in Requests : req[r].srv <= Len(srv'),
         \A s \in DOMAIN srv : s <= Len(srv') => srv'[s].tls = srv[s].tls /\ srv'[s].users = srv[s].users,
         live => live' /\ (status' = "ready" => status = "ready"),
         latest' = latest \/ (latest' = Nothing /\ status' # "ready"),
         OpSound', ListenerSettles'
  PROVE  IInv'
  <1>1. latest' \in Int
    <2>1. latest \in Int BY DEF IInv, TypeOK
    <2> QED BY <2>1 DEF Nothing
  <1>2. req \in [Requests -> RequestType] BY DEF IInv, TypeOK
  <1>3. TypeOK' BY <1>1, <1>2 DEF TypeOK
  <1>4. ASSUME NEW r \in Requests PROVE ReadSound(r)' /\ ShownSound(r)' /\ ScrapeSound(r)'
    <2>1. /\ TypeOK /\ ReadSound(r) /\ ShownSound(r) /\ ScrapeSound(r)
          /\ req[r].srv # 0 => req[r].srv \in DOMAIN srv
      BY GivenRequest
    <2>2. req'[r] = req[r] OBVIOUS
    <2>3. req[r].srv # 0 => /\ srv'[req[r].srv].tls = srv[req[r].srv].tls
                            /\ srv'[req[r].srv].users = srv[req[r].srv].users
      BY <2>1
    <2> QED BY <2>1, <2>2, <2>3, RequestKept
  <1> QED BY <1>3, <1>4 DEF IInv

\* What is known between steps.
LEMMA Given ==
  ASSUME IInv
  PROVE  /\ TypeOK /\ OpSound /\ ListenerSettles /\ op.key \in Settings /\ op.at \in OpAts
         /\ srv \in Seq(ServerType) /\ Len(srv) \in Nat /\ DOMAIN srv = 1 .. Len(srv) /\ run \in 0 .. Len(srv)
         /\ cert \in Nat /\ key \in Nat /\ tick \in Nat /\ file \in Contents
         /\ setup \in BOOLEAN /\ want \in Settings /\ live \in BOOLEAN
         /\ \A s \in DOMAIN srv : ServerSound(s)
         /\ \A r \in Requests : req[r].srv \in Nat /\ req[r].srv <= Len(srv)
  <1>1. TypeOK BY DEF IInv
  <1>2. op.key \in Settings /\ op.at \in OpAts BY <1>1 DEF TypeOK, OpType
  <1>3. Len(srv) \in Nat /\ DOMAIN srv = 1 .. Len(srv) BY <1>1, LenProperties DEF TypeOK
  <1>4. \A r \in Requests : req[r].srv \in Nat /\ req[r].srv <= Len(srv) BY <1>1 DEF TypeOK, RequestType
  <1> QED BY <1>1, <1>2, <1>3, <1>4 DEF IInv, TypeOK

\* A lifecycle step that builds and removes no server.
LEMMA LifecycleStep ==
  ASSUME IInv, UNCHANGED <<disk, srv, req>>,
         op' \in OpType,
         setup' \in BOOLEAN, want' \in Settings, report' \in {None, "config", "port"}, live' \in BOOLEAN,
         run' = run \/ run' = 0,
         live => live' /\ (status' = "ready" => status = "ready"),
         latest' = latest \/ (latest' = Nothing /\ status' # "ready"),
         OpSound', ListenerSettles'
  PROVE  IInv'
  <1>1. /\ srv \in Seq(ServerType) /\ Len(srv) \in Nat /\ DOMAIN srv = 1 .. Len(srv) /\ run \in 0 .. Len(srv)
        /\ cert \in Nat /\ key \in Nat /\ tick \in Nat /\ file \in Contents
        /\ \A s \in DOMAIN srv : ServerSound(s)
        /\ \A r \in Requests : req[r].srv <= Len(srv)
    BY Given
  <1>2. UNCHANGED <<cert, key, tick, file>> BY DEF disk
  <1>3. \A s \in DOMAIN srv' : ServerSound(s)' BY <1>1, <1>2 DEF ServerSound
  <1>4. run' \in 0 .. Len(srv') BY <1>1
  <1>5. cert <= cert' /\ key <= key' /\ tick <= tick' BY <1>1, <1>2
  <1> QED BY <1>1, <1>2, <1>3, <1>4, <1>5, OtherStep

LEMMA SetupInv ==
  ASSUME IInv, NEW k \in Settings, Setup(k)
  PROVE  IInv'
  <1>g. OpSound /\ live \in BOOLEAN BY Given
  <1>1. /\ op' = [at |-> "sync", key |-> k] /\ setup' = TRUE /\ want' = k /\ report' = None /\ live' = TRUE
        /\ UNCHANGED <<srv, run, latest, disk, req>>
    BY DEF Setup, Begin
  <1>2. op'.at = "sync" /\ op'.key = k
        /\ op' \in OpType
    BY <1>1 DEF OpType, OpAts
  <1>3. live => (status' = "ready" => status = "ready")
    <2>1. status' = CASE held -> status
                   [] ~held /\ k = Off -> "not_selected"
                   [] ~held /\ k # Off /\ live /\ ours -> "process_locked"
                   [] ~held /\ k # Off /\ live /\ ~ours -> "host_provider"
                   [] OTHER -> "ready"
      BY DEF Setup
    <2>2. CASE held BY <2>1, <2>2
    <2>3. CASE ~held /\ live
      <3>1. CASE k = Off BY <2>1, <2>3, <3>1
      <3>2. CASE k # Off /\ ours BY <2>1, <2>3, <3>2
      <3>3. CASE k # Off /\ ~ours BY <2>1, <2>3, <3>3
      <3> QED BY <3>1, <3>2, <3>3
    <2> QED BY <2>2, <2>3
  <1>4. OpSound' BY <1>1, <1>2 DEF OpSound
  <1>5. ListenerSettles' BY <1>2 DEF ListenerSettles
  <1> QED BY <1>1, <1>2, <1>3, <1>4, <1>5, LifecycleStep

\* Only the position of the operation moves.
LEMMA OpAt ==
  ASSUME IInv, NEW at \in OpAts, op' = [op EXCEPT !.at = at]
  PROVE  op' \in OpType /\ op'.at = at /\ op'.key = op.key
  BY DEF IInv, TypeOK, OpType

LEMMA SyncInv ==
  ASSUME IInv, Sync
  PROVE  IInv'
  <1> DEFINE same == run # 0 /\ srv[run].key = op.key
             at == IF same \/ op.key = Off THEN "idle" ELSE "load"
  <1>g. OpSound /\ setup \in BOOLEAN /\ want \in Settings /\ live \in BOOLEAN BY Given
  <1>1. /\ op.at = "sync" /\ run' = IF same THEN run ELSE 0
        /\ op' = [op EXCEPT !.at = at]
        /\ UNCHANGED <<ops, setup, want, report, live, ours, srv, status, latest, disk, req>>
    BY DEF Sync
  <1>2. setup /\ op.key = want /\ report = None BY <1>1, <1>g DEF OpSound
  <1>3. /\ at \in {"idle", "load"} /\ (at = "load" => run' = 0 /\ want # Off)
        /\ run' # 0 => srv[run'].key = want
        /\ run' = run \/ run' = 0
        /\ (at = "idle" /\ run' = 0 => want = Off)
    BY <1>1, <1>2
  <1> HIDE DEF at
  <1>4. op' \in OpType /\ op'.at = at /\ op'.key = op.key
    <2>1. at \in OpAts BY <1>3 DEF OpAts
    <2> QED BY <1>1, <2>1, OpAt
  <1>5. OpSound' BY <1>g, <1>1, <1>2, <1>3, <1>4 DEF OpSound
  <1>6. ListenerSettles' BY <1>1, <1>2, <1>3, <1>4 DEF ListenerSettles, None
  <1>7. report' \in {None, "config", "port"} BY <1>1, <1>2
  <1> QED BY <1>g, <1>1, <1>3, <1>4, <1>5, <1>6, <1>7, LifecycleStep

\* A server is built from the file as it was read, or the file is refused.
LEMMA StartLoadInv ==
  ASSUME IInv, StartLoad
  PROVE  IInv'
  <1>g. /\ TypeOK /\ OpSound /\ ListenerSettles /\ op.key \in Settings /\ srv \in Seq(ServerType)
        /\ Len(srv) \in Nat /\ DOMAIN srv = 1 .. Len(srv) /\ run \in 0 .. Len(srv)
        /\ cert \in Nat /\ key \in Nat /\ tick \in Nat /\ file \in Contents
        /\ setup \in BOOLEAN /\ want \in Settings /\ live \in BOOLEAN
        /\ \A s \in DOMAIN srv : ServerSound(s)
        /\ \A r \in Requests : req[r].srv \in Nat /\ req[r].srv <= Len(srv)
    BY Given
  <1>1. /\ op.at = "load"
        /\ UNCHANGED <<ops, setup, want, run, live, ours, status, latest, disk, req>>
    BY DEF StartLoad
  <1>m. ~(op.key.web /\ Mistyped(file)) BY DEF StartLoad
  <1>2. setup /\ op.key = want /\ report = None /\ run = 0 /\ want # Off BY <1>1, <1>g DEF OpSound
  <1>3. UNCHANGED <<cert, key, tick, file>> BY <1>1 DEF disk
  <1>4. "idle" \in OpAts /\ "bind" \in OpAts BY DEF OpAts
  <1>5. CASE op.key.web /\ Refused(file)
    <2>1. report' = "config" /\ op' = [op EXCEPT !.at = "idle"] /\ srv' = srv
      BY <1>5 DEF StartLoad, Fail
    <2>2. op' \in OpType /\ op'.at = "idle" BY <1>4, <2>1, OpAt
    <2>3. OpSound' BY <1>g, <1>1, <2>2 DEF OpSound
    <2>4. ListenerSettles' BY <1>1, <1>2, <2>1, <2>2 DEF ListenerSettles, None
    <2>5. report' \in {None, "config", "port"} BY <2>1
    <2> QED BY <1>g, <1>1, <2>1, <2>2, <2>3, <2>4, <2>5, LifecycleStep
  <1>6. CASE ~(op.key.web /\ Refused(file))
    <2> DEFINE c == IF op.key.web THEN file ELSE NoFile
               times == IF c.tls = NoTls THEN <<0, 0>> ELSE <<cert, key>>
               e == NewServer(c)
    <2>1. srv' = Append(srv, e) /\ op' = [op EXCEPT !.at = "bind"] /\ report' = report
      BY <1>6 DEF StartLoad
    <2>2. op' \in OpType /\ op'.at = "bind" /\ op'.key = op.key BY <1>4, <2>1, OpAt
    <2>3. c \in Files /\ (op.key.web => c = file /\ ~Refused(c) /\ ~Mistyped(c)) BY <1>g, <1>m, <1>6 DEF Files
    <2> HIDE DEF c
    <2>4. times \in Times /\ times[1] <= cert /\ times[2] <= key /\ times[1] <= times[1] /\ times[2] <= times[2]
      BY <1>g DEF Times
    <2>5. e = [key |-> op.key, file |-> c, users |-> c.users \ {None}, tls |-> c.tls,
               stamp |-> times, ctx |-> times, verified |-> {}, holder |-> None]
      BY DEF NewServer
    <2> HIDE DEF times, e
    <2>6. c.users \ {None} \in SUBSET Users /\ c.tls \in Tlss BY <2>3, FileFacts
    <2>7. e \in ServerType BY <1>g, <2>3, <2>4, <2>5, <2>6 DEF ServerType
    <2>8. /\ e.key = op.key /\ e.file = c /\ e.users = c.users \ {None} /\ e.tls = c.tls
          /\ e.stamp = times /\ e.ctx = times /\ e.verified = {}
      BY <2>5
    <2>9. /\ srv' \in Seq(ServerType) /\ Len(srv') = Len(srv) + 1 /\ srv'[Len(srv) + 1] = e
          /\ \A i \in 1 .. Len(srv) : srv'[i] = srv[i]
      BY <1>g, <2>1, <2>7, AppendProperties
    <2>10. DOMAIN srv' = 1 .. Len(srv) + 1 BY <1>g, <2>9, LenProperties
    <2>11. ASSUME NEW s \in DOMAIN srv' PROVE ServerSound(s)'
      <3>1. CASE s = Len(srv) + 1
        <4>1. srv'[s] = e BY <2>9, <3>1
        <4>2. /\ srv'[s].key = op.key /\ srv'[s].file = c /\ srv'[s].users = c.users \ {None}
              /\ srv'[s].tls = c.tls /\ srv'[s].stamp = times /\ srv'[s].ctx = times /\ srv'[s].verified = {}
          BY <2>8, <4>1
        <4> QED BY <1>3, <2>3, <2>4, <4>2 DEF ServerSound
      <3>2. CASE s # Len(srv) + 1
        <4>1. s \in 1 .. Len(srv) BY <1>g, <2>10, <3>2
        <4>2. srv'[s] = srv[s] /\ ServerSound(s) BY <1>g, <2>9, <4>1
        <4> QED BY <1>3, <4>2 DEF ServerSound
      <3> QED BY <3>1, <3>2
    <2>12. OpSound'
      <3>1. Len(srv') > 0 /\ srv'[Len(srv')].key = want' BY <1>g, <1>1, <1>2, <2>8, <2>9
      <3>2. \A r \in Requests : req'[r].srv < Len(srv') BY <1>g, <1>1, <2>9
      <3> QED BY <1>g, <1>1, <1>2, <2>1, <2>2, <3>1, <3>2 DEF OpSound
    <2>13. ListenerSettles' BY <2>2 DEF ListenerSettles
    <2>14. \A r \in Requests : req[r].srv <= Len(srv') BY <1>g, <2>9
    <2>15. cert <= cert' /\ key <= key' /\ tick <= tick' BY <1>g, <1>3
    <2>16. run' \in 0 .. Len(srv') BY <1>g, <1>1, <2>9
    <2>17. \A s \in DOMAIN srv : srv'[s].tls = srv[s].tls /\ srv'[s].users = srv[s].users
      BY <1>g, <2>9
    <2>18. report' \in {None, "config", "port"} BY <1>2, <2>1
    <2>19. req' = req /\ setup' = setup /\ want' = want /\ live' = live /\ status' = status /\ latest' = latest
      BY <1>1
    <2> QED BY <1>g, <1>3, <2>2, <2>9, <2>11, <2>12, <2>13, <2>14, <2>15, <2>16, <2>17, <2>18, <2>19, OtherStep
  <1> QED BY <1>5, <1>6

\* A wrong type makes the setup raise.
LEMMA LoadRaisesInv ==
  ASSUME IInv, LoadRaises
  PROVE  IInv'
  <1>g. /\ OpSound /\ live \in BOOLEAN /\ want \in Settings /\ report \in {None, "config", "port"}
    BY Given DEF TypeOK
  <1>1. /\ op.at = "load" /\ setup' = FALSE /\ op' = [op EXCEPT !.at = "idle"]
        /\ UNCHANGED <<ops, want, run, report, live, ours, srv, status, latest, disk, req>>
    BY DEF LoadRaises
  <1>2. run = 0 BY <1>g, <1>1 DEF OpSound
  <1>3. "idle" \in OpAts BY DEF OpAts
  <1>4. op' \in OpType /\ op'.at = "idle" BY <1>1, <1>3, OpAt
  <1>5. OpSound' BY <1>g, <1>1, <1>4 DEF OpSound
  <1>6. ListenerSettles' BY <1>1, <1>2, <1>4 DEF ListenerSettles
  <1> QED BY <1>g, <1>1, <1>2, <1>4, <1>5, <1>6, LifecycleStep

\* The server built is bound, or given up with the reason reported.
LEMMA StartBindInv ==
  ASSUME IInv, StartBind
  PROVE  IInv'
  <1>g. /\ TypeOK /\ OpSound /\ ListenerSettles /\ op.key \in Settings /\ srv \in Seq(ServerType)
        /\ Len(srv) \in Nat /\ DOMAIN srv = 1 .. Len(srv) /\ run \in 0 .. Len(srv)
        /\ cert \in Nat /\ key \in Nat /\ tick \in Nat /\ file \in Contents
        /\ setup \in BOOLEAN /\ want \in Settings /\ live \in BOOLEAN
        /\ \A s \in DOMAIN srv : ServerSound(s)
        /\ \A r \in Requests : req[r].srv \in Nat /\ req[r].srv <= Len(srv)
    BY Given
  <1> DEFINE n == Len(srv)
             mismatch == srv[n].tls # NoTls /\ cert # key
             inUse == op.key.port \in busy \/ (run # 0 /\ srv[run].key.port = op.key.port)
  <1>1. /\ op.at = "bind"
        /\ UNCHANGED <<ops, setup, want, live, ours, status, latest, disk, req>>
    BY DEF StartBind
  <1>2. setup /\ op.key = want /\ report = None /\ run = 0 /\ want # Off BY <1>1, <1>g DEF OpSound
  <1>3. UNCHANGED <<cert, key, tick, file, busy>> BY <1>1 DEF disk
  <1>4. "idle" \in OpAts BY DEF OpAts
  <1>5. /\ n > 0 /\ n \in Nat /\ srv[n].key = want
        /\ \A r \in Requests : req[r].srv < n
    BY <1>1, <1>g DEF OpSound
  <1>6. cert <= cert' /\ key <= key' /\ tick <= tick' BY <1>g, <1>3
  <1>7. req' = req /\ setup' = setup /\ want' = want /\ live' = live /\ status' = status /\ latest' = latest
    BY <1>1
  <1>8. CASE mismatch \/ inUse
    <2>1. /\ report' = IF mismatch THEN "config" ELSE "port"
          /\ op' = [op EXCEPT !.at = "idle"] /\ run' = run /\ srv' = SubSeq(srv, 1, n - 1)
      BY <1>8 DEF StartBind, Fail
    <2>2. op' \in OpType /\ op'.at = "idle" BY <1>4, <2>1, OpAt
    <2>3. report' \in {"config", "port"} /\ (report' = "port" => want.port \in busy)
      BY <1>2, <1>8, <2>1
    <2>4. 1 \in 1 .. n + 1 /\ n - 1 \in 0 .. n BY <1>5
    <2>a. \A i \in 1 .. n - 1 : srv[i] \in ServerType
      <3>1. \A i \in 1 .. n - 1 : i \in 1 .. Len(srv) BY <1>5
      <3> QED BY <1>g, <3>1, ElementOfSeq
    <2>5. /\ srv' \in Seq(ServerType) /\ Len(srv') = n - 1
          /\ \A i \in 1 .. n - 1 : srv'[i] = srv[i]
      <3>1. srv' = [i \in 1 .. n - 1 |-> srv[i]]
        <4>1. SubSeq(srv, 1, n - 1) = [i \in 1 .. (n - 1) - 1 + 1 |-> srv[i + 1 - 1]] BY <1>g, <1>5
        <4>2. (n - 1) - 1 + 1 = n - 1 /\ \A i \in 1 .. n - 1 : i + 1 - 1 = i BY <1>5
        <4> QED BY <2>1, <4>1, <4>2
      <3>2. n - 1 \in Nat BY <1>5
      <3> HIDE DEF n
      <3>3. srv' \in Seq(ServerType) BY <2>a, <3>1, <3>2, IsASeq
      <3>4. Len(srv') = n - 1 BY <3>1, <3>2, <3>3, LenProperties
      <3> QED BY <3>1, <3>3, <3>4
    <2>6. DOMAIN srv' = 1 .. n - 1 BY <2>5, LenProperties
    <2>7. ASSUME NEW s \in DOMAIN srv' PROVE ServerSound(s)'
      <3>1. s \in DOMAIN srv BY <1>g, <2>6
      <3>2. srv'[s] = srv[s] /\ ServerSound(s) BY <1>g, <2>5, <2>6, <3>1
      <3> QED BY <1>3, <3>2 DEF ServerSound
    <2>8. OpSound' BY <1>g, <1>7, <2>2 DEF OpSound
    <2>9. ListenerSettles' BY <1>2, <1>3, <1>7, <2>1, <2>2, <2>3 DEF ListenerSettles, None
    <2>10. \A r \in Requests : req[r].srv <= Len(srv') BY <1>g, <1>5, <2>5
    <2>11. run' \in 0 .. Len(srv') BY <1>2, <1>5, <2>1, <2>5
    <2>12. \A s \in DOMAIN srv : s <= Len(srv') => srv'[s].tls = srv[s].tls /\ srv'[s].users = srv[s].users
      BY <1>g, <2>5
    <2>13. report' \in {None, "config", "port"} BY <2>3
    <2> HIDE DEF n, mismatch, inUse
    <2> QED BY <1>g, <1>3, <1>6, <1>7, <2>2, <2>5, <2>7, <2>8, <2>9, <2>10, <2>11, <2>12, <2>13, OtherStep
  <1>9. CASE ~(mismatch \/ inUse)
    <2> DEFINE times == <<cert, key>>
               ctx == IF srv[n].tls = NoTls THEN srv[n].ctx ELSE times
               e == [srv[n] EXCEPT !.ctx = ctx]
    <2>1. /\ run' = n /\ op' = [op EXCEPT !.at = "idle"] /\ report' = report
          /\ srv' = [srv EXCEPT ![n].ctx = IF srv[n].tls = NoTls THEN @ ELSE <<cert, key>>]
      BY <1>9 DEF StartBind
    <2>2. op' \in OpType /\ op'.at = "idle" BY <1>4, <2>1, OpAt
    <2>3. n \in DOMAIN srv /\ ServerSound(n) /\ srv[n] \in ServerType
      <3>1. n \in 1 .. Len(srv) BY <1>5
      <3> QED BY <1>g, <3>1, ElementOfSeq
    <2>4. srv' = [srv EXCEPT ![n] = e] BY <2>1, <2>3
    <2>5. times \in Times /\ times[1] = cert /\ times[2] = key BY <1>g DEF Times
    <2>6. srv[n].ctx \in Times BY <2>3 DEF ServerType
    <2> HIDE DEF times
    <2>7. ctx \in Times /\ (ctx = srv[n].ctx \/ ctx = times) BY <2>5, <2>6
    <2>8. srv[n].stamp[1] <= ctx[1] /\ srv[n].stamp[2] <= ctx[2] BY <2>3, <2>5, <2>7 DEF ServerSound
    <2> HIDE DEF ctx
    <2>9. e \in ServerType /\ e.key = srv[n].key /\ e.file = srv[n].file /\ e.tls = srv[n].tls
          /\ e.users = srv[n].users /\ e.verified = srv[n].verified /\ e.stamp = srv[n].stamp /\ e.ctx = ctx
      BY <2>3, <2>7 DEF ServerType
    <2> HIDE DEF e
    <2>10. /\ srv' \in Seq(ServerType) /\ Len(srv') = Len(srv)
           /\ \A i \in DOMAIN srv : /\ srv'[i].key = srv[i].key /\ srv'[i].tls = srv[i].tls
                                    /\ srv'[i].users = srv[i].users /\ ServerSound(i)'
      BY <1>3, <2>3, <2>4, <2>8, <2>9, ServerUpdate DEF ServerSound
    <2>11. DOMAIN srv' = DOMAIN srv BY <2>4
    <2>12. srv'[n].key = want BY <1>5, <2>3, <2>10
    <2>13. OpSound' BY <1>g, <1>7, <2>2 DEF OpSound
    <2>14. ListenerSettles' BY <1>2, <1>5, <1>7, <2>1, <2>2, <2>12 DEF ListenerSettles, None
    <2>15. run' \in 0 .. Len(srv') BY <1>5, <2>1, <2>10
    <2>16. report' \in {None, "config", "port"} BY <1>2, <2>1
    <2>17. \A r \in Requests : req[r].srv <= Len(srv') BY <1>g, <2>10
    <2>18. \A s \in DOMAIN srv' : ServerSound(s)' BY <2>10, <2>11
    <2> HIDE DEF n, mismatch, inUse
    <2> QED BY <1>g, <1>3, <1>6, <1>7, <2>2, <2>10, <2>13, <2>14, <2>15, <2>16, <2>17, <2>18, OtherStep
  <1> QED BY <1>8, <1>9

LEMMA ShutdownInv ==
  ASSUME IInv, Shutdown
  PROVE  IInv'
  <1>g. OpSound /\ live \in BOOLEAN /\ report \in {None, "config", "port"} BY Given DEF TypeOK
  <1>1. /\ op' = [at |-> "detach", key |-> Off] /\ setup' = FALSE /\ want' = Off /\ run' = 0
        /\ UNCHANGED <<report, live, ours, srv, status, latest, disk, req>>
    BY DEF Shutdown, Begin
  <1>2. op'.at = "detach" /\ op' \in OpType /\ want' \in Settings BY <1>1 DEF OpType, OpAts, Settings
  <1>3. OpSound' BY <1>g, <1>1, <1>2 DEF OpSound
  <1>4. ListenerSettles' BY <1>2 DEF ListenerSettles
  <1> QED BY <1>g, <1>1, <1>2, <1>3, <1>4, LifecycleStep

LEMMA DetachInv ==
  ASSUME IInv, Detach
  PROVE  IInv'
  <1>g. /\ OpSound /\ live \in BOOLEAN /\ setup \in BOOLEAN /\ want \in Settings
        /\ report \in {None, "config", "port"}
    BY Given DEF TypeOK
  <1>1. /\ op.at = "detach" /\ op' = [op EXCEPT !.at = "dispose"] /\ status' = "shut_down"
        /\ UNCHANGED <<ops, setup, want, run, report, live, ours, srv, latest, disk, req>>
    BY DEF Detach
  <1>2. "dispose" \in OpAts BY DEF OpAts
  <1>3. op' \in OpType /\ op'.at = "dispose" BY <1>1, <1>2, OpAt
  <1>4. OpSound' BY <1>g, <1>1, <1>3 DEF OpSound
  <1>5. ListenerSettles' BY <1>3 DEF ListenerSettles
  <1> QED BY <1>g, <1>1, <1>3, <1>4, <1>5, LifecycleStep

LEMMA DisposeInv ==
  ASSUME IInv, Dispose
  PROVE  IInv'
  <1>g. /\ OpSound /\ live \in BOOLEAN /\ setup \in BOOLEAN /\ want \in Settings
        /\ report \in {None, "config", "port"}
    BY Given DEF TypeOK
  <1>1. /\ op.at = "dispose" /\ op' = [op EXCEPT !.at = "idle"] /\ latest' = Nothing
        /\ UNCHANGED <<ops, setup, want, run, report, live, ours, srv, status, disk, req>>
    BY DEF Dispose
  <1>2. run = 0 /\ ~setup /\ status # "ready" BY <1>g, <1>1 DEF OpSound
  <1>3. "idle" \in OpAts BY DEF OpAts
  <1>4. op' \in OpType /\ op'.at = "idle" BY <1>1, <1>3, OpAt
  <1>5. OpSound' BY <1>g, <1>1, <1>4 DEF OpSound
  <1>6. ListenerSettles' BY <1>1, <1>2 DEF ListenerSettles
  <1> QED BY <1>g, <1>1, <1>2, <1>4, <1>5, <1>6, LifecycleStep

LEMMA ResetForTestsInv ==
  ASSUME IInv, ResetForTests
  PROVE  IInv'
  <1>g. /\ OpSound /\ ListenerSettles /\ live \in BOOLEAN /\ want \in Settings
        /\ report \in {None, "config", "port"}
    BY Given DEF TypeOK
  <1>1. /\ op.at = "idle" /\ op' = [at |-> "idle", key |-> Off] /\ setup' = FALSE /\ status' = "not_set_up"
        /\ UNCHANGED <<want, run, report, live, srv, latest, disk, req>>
    BY DEF ResetForTests, Begin
  <1>2. op'.at = "idle" /\ op' \in OpType BY <1>1 DEF OpType, OpAts, Settings
  <1>3. OpSound' BY <1>g, <1>1, <1>2 DEF OpSound
  <1>4. ListenerSettles' BY <1>g, <1>1 DEF ListenerSettles
  <1> QED BY <1>g, <1>1, <1>2, <1>3, <1>4, LifecycleStep

\* What operators and the host do: files and measurements only get newer.
LEMMA EventInv ==
  ASSUME IInv, UNCHANGED <<lifecycle, busy, srv, status, latest, req>>, file' \in Contents,
         cert' = cert \/ cert' = cert + 1, key' = key \/ key' = key + 1, tick' = tick \/ tick' = tick + 1
  PROVE  IInv'
  <1>1. /\ TypeOK /\ OpSound /\ ListenerSettles /\ srv \in Seq(ServerType) /\ run \in 0 .. Len(srv)
        /\ cert \in Nat /\ key \in Nat /\ tick \in Nat
        /\ \A s \in DOMAIN srv : ServerSound(s)
        /\ \A r \in Requests : req[r].srv <= Len(srv)
    BY Given
  <1>2. /\ op \in OpType /\ setup \in BOOLEAN /\ want \in Settings /\ live \in BOOLEAN
        /\ report \in {None, "config", "port"}
    BY <1>1 DEF TypeOK
  <1>3. UNCHANGED <<op, setup, want, run, report, live>> BY DEF lifecycle
  <1>4. cert' \in Nat /\ key' \in Nat /\ tick' \in Nat /\ cert <= cert' /\ key <= key' /\ tick <= tick'
    BY <1>1
  <1>5. \A s \in DOMAIN srv' : ServerSound(s)' BY <1>1, <1>4, ServerKept
  <1>6. OpSound' BY <1>1, <1>3 DEF OpSound
  <1>7. ListenerSettles' BY <1>1, <1>3 DEF ListenerSettles
  <1> QED BY <1>1, <1>2, <1>3, <1>4, <1>5, <1>6, <1>7, OtherStep

-----------------------------------------------------------------------------
(* The invariant and what follows from it.                                 *)

\* Every step preserves the invariant.
LEMMA StepInv == IInv /\ [Next]_vars => IInv'
  <1> SUFFICES ASSUME IInv, [Next]_vars PROVE IInv' OBVIOUS
  <1>f. file \in Contents BY Given
  <1>1. CASE \E k \in Keys \cup {Off} : Setup(k) BY <1>1, SetupInv DEF Settings
  <1>2. CASE Sync BY <1>2, SyncInv
  <1>3. CASE StartLoad BY <1>3, StartLoadInv
  <1>4. CASE StartBind BY <1>4, StartBindInv
  <1>5. CASE Shutdown BY <1>5, ShutdownInv
  <1>6. CASE Detach BY <1>6, DetachInv
  <1>7. CASE Dispose BY <1>7, DisposeInv
  <1>8. CASE ResetForTests BY <1>8, ResetForTestsInv
  <1>9. CASE \E r \in Requests : Request(r)
    <2>1. PICK r \in Requests : Request(r) BY <1>9
    <2> QED BY <2>1, ArriveInv, CloseInv, StatCertInv, StatKeyInv, BuildKeyInv, RouteInv, CheckInv,
               RespondInv, CollectInv, ReadInv DEF Request
  <1>10. CASE EditConfig BY <1>10, EventInv DEF EditConfig, Event
  <1>11. CASE RotateCert BY <1>f, <1>11, EventInv DEF RotateCert, Event
  <1>12. CASE RotateKey BY <1>f, <1>12, EventInv DEF RotateKey, Event
  <1>13. CASE Measure BY <1>f, <1>13, EventInv DEF Measure, Event
  <1>15. CASE LoadRaises BY <1>15, LoadRaisesInv
  <1>14. CASE UNCHANGED vars
    <2>1. UNCHANGED <<lifecycle, busy, srv, status, latest, req, cert, key, tick, file>> BY <1>14 DEF vars, disk
    <2> QED BY <1>f, <2>1, EventInv
  <1> QED BY <1>1, <1>2, <1>3, <1>4, <1>5, <1>6, <1>7, <1>8, <1>9, <1>10, <1>11, <1>12, <1>13, <1>14, <1>15 DEF Next

\* The inductive invariant holds in every reachable state.
THEOREM Invariance == Spec => []IInv
  BY InitInv, StepInv, PTL DEF Spec

\* A TLS section that is not refused makes the certificate required when it says so, or
\* names a client CA and says nothing (_tls).
LEMMA RequiredMode ==
  ASSUME NEW t, ~TlsRefused(t), t # NoTls,
         t.auth = "RequireAndVerifyClientCert" \/ (t.ca /\ t.auth = None)
  PROVE  VerifyMode(t) = "required"
  <1>1. CASE t.auth = "RequireAndVerifyClientCert"
    <2>1. t.auth # None BY <1>1 DEF None
    <2>2. CASE t.ca BY <1>1, <2>1, <2>2 DEF VerifyMode
    <2>3. CASE ~t.ca
      <3>1. VerifyMode(t) = None BY <1>1, <2>1, <2>3 DEF VerifyMode
      <3> QED BY <3>1 DEF TlsRefused
    <2> QED BY <2>2, <2>3
  <1>2. CASE t.ca /\ t.auth = None BY <1>2 DEF VerifyMode, None
  <1> QED BY <1>1, <1>2

\* Only admitted clients get past authorisation.
LEMMA AdmittedFromInv == IInv => OnlyAdmitted
  <1> SUFFICES ASSUME IInv, NEW r \in Requests, req[r].code \in {200, 405, 503}, req[r].srv # 0,
                      srv[req[r].srv].key.web
               PROVE  Admits(srv[req[r].srv].file, req[r])
    BY DEF OnlyAdmitted
  <1> DEFINE s == req[r].srv
             c == srv[s].file
  <1>1. ShownSound(r) /\ ServerSound(s) BY GivenRequest
  <1>2. req[r].code # 0 OBVIOUS
  <1>3. req[r].at = "done" BY <1>1, <1>2 DEF ShownSound
  <1>4. ~Refused(c) /\ ~Mistyped(c) /\ srv[s].tls = c.tls /\ srv[s].users = c.users \ {None}
    BY <1>1 DEF ServerSound
  <1>5. c.kind \notin {"missing", "extra", "mistyped"} /\ c.users # {None} /\ ~TlsRefused(c.tls)
    BY <1>4 DEF Refused, Mistyped
  <1>6. c.users # {} => srv[s].users # {} BY <1>4, <1>5
  <1>7. c.users # {} => req[r].cred \in c.users BY <1>1, <1>3, <1>4, <1>6 DEF ShownSound, Authorised
  <1>8. ASSUME c.tls # NoTls, c.tls.auth = "RequireAndVerifyClientCert" \/ (c.tls.ca /\ c.tls.auth = None)
        PROVE  req[r].cert
    <2>1. VerifyMode(c.tls) = "required" BY <1>5, <1>8, RequiredMode
    <2> QED BY <1>1, <1>3, <1>4, <1>8, <2>1 DEF ShownSound, Past
  <1> QED BY <1>5, <1>7, <1>8 DEF Admits

\* A scrape's body holds what was recorded before its collection.
LEMMA FreshFromInv == IInv => ScrapeFresh
  <1> SUFFICES ASSUME IInv, NEW r \in Requests, req[r].code = 200, req[r].body
               PROVE  IF req[r].data = Nothing THEN status # "ready" ELSE req[r].data >= req[r].from
    BY DEF ScrapeFresh
  <1>1. ScrapeSound(r) /\ req[r].data \in Int /\ req[r].from \in Int BY GivenRequest DEF RequestType
  <1> QED BY <1>1 DEF ScrapeSound

\* An answer past authorisation goes only to a client the accepting server's web config
\* admits, through any edits of the file, restarts of the listener, cached credentials
\* and racing requests; and a scrape's body holds everything recorded before its
\* collection unless the reader was shut down meanwhile (_prom_listener.py, prometheus.py).
THEOREM ResponsesAreSound == Spec => []ResponsesSound
  <1>1. IInv => ResponsesSound BY AdmittedFromInv, FreshFromInv DEF ResponsesSound
  <1> QED BY <1>1, Invariance, PTL

\* A connection whose check began after a certificate or key was replaced never gets a
\* context built from older files, whichever request rebuilds it (_TLSReloader.context).
THEOREM HandshakesAreFresh == Spec => []HandshakeFresh
  <1>1. IInv => HandshakeFresh
    <2> SUFFICES ASSUME IInv, NEW r \in Requests, req[r].at = "route", srv[req[r].srv].tls # NoTls
                 PROVE  req[r].ctx[1] >= req[r].since[1] /\ req[r].ctx[2] >= req[r].since[2]
      BY DEF HandshakeFresh
    <2>1. ShownSound(r) /\ req[r] \in RequestType BY GivenRequest
    <2>2. req[r].ctx[1] \in Nat /\ req[r].ctx[2] \in Nat /\ req[r].since[1] \in Nat /\ req[r].since[2] \in Nat
      BY <2>1 DEF RequestType, Times
    <2>3. req[r].since[1] <= req[r].ctx[1] /\ req[r].since[2] <= req[r].ctx[2] BY <2>1 DEF ShownSound
    <2> QED BY <2>2, <2>3
  <1> QED BY <1>1, Invariance, PTL

\* Between lifecycle operations the listener is the one the last setup asked for, or its
\* absence was reported, a port in use only for another process's sake (sync, _start); or
\* the setup raised and is not done.
THEOREM TheListenerSettles == Spec => []ListenerSettles
  <1>1. IInv => ListenerSettles BY DEF IInv
  <1> QED BY <1>1, Invariance, PTL
=============================================================================
