---------------------------- MODULE PromListener ----------------------------
(***************************************************************************)
(* The Prometheus pull endpoint: the standalone listener that setup starts *)
(* and shutdown stops (metrics/_prom_listener.py) and the scrape it serves *)
(* (metrics/prometheus.py).  Handlers run in daemon threads of their own,  *)
(* so a request accepted by one server may be answered after that server   *)
(* has been replaced; operators edit the web config and rotate the         *)
(* certificate and key files, one file at a time, meanwhile.  A file's     *)
(* modification time is its version.                                       *)
(***************************************************************************)
EXTENDS Integers, Sequences

CONSTANTS
    Requests,      \* requests in progress at a time, each in a thread of its own
    Keys,          \* listener settings: [port, web], web: a web config is named
    Contents,      \* web config files: [kind, users, tls]; kind is "map", "empty",
                   \* "missing", "extra" (an unknown key) or "mistyped" (see Mistyped)
    Creds,         \* (user, password) pairs
    MaxOps,        \* bound: lifecycle operations
    MaxEdits,      \* bound: edits of the web config
    MaxTicks,      \* bound: measurements the host records
    MaxEvents      \* bound: file edits, file rotations and measurements together

None == "none"
Off == [port |-> 0, web |-> FALSE]                     \* no listener is asked for
NoTls == [ca |-> FALSE, auth |-> "absent", wrong |-> FALSE]   \* no tls_server_config
Nothing == -1                                          \* no collection

VARIABLES
    op,       \* the lifecycle operation under way (one at a time): [at, key]
    ops,      \* lifecycle operations begun
    setup,    \* setup_done
    want,     \* the key of the last setup, or Off
    srv,      \* every server built: [key, file, users, tls, stamp, ctx, verified, holder]
    run,      \* _running: an index of srv, or 0
    report,   \* what the last sync reported: None, "config" or "port"
    file, edits,    \* the web config on disk and how often it was edited
    cert, key,      \* versions of the certificate and key files on disk
    live, ours,     \* a live provider is on the OTel global; _meter_global_set
    held,           \* _meter_provider is set
    status, latest, \* prometheus._status (_serving is set iff "ready"); PullReader._latest
    tick,           \* measurements recorded
    busy,           \* ports another process listens on
    req             \* the requests

disk == <<file, edits, cert, key, tick, busy>>
lifecycle == <<op, ops, setup, want, run, report, live, ours, held>>
vars == <<lifecycle, disk, srv, status, latest, req>>

NoRequest == [at |-> "new", srv |-> 0, cred |-> None, cert |-> FALSE,
              read |-> <<>>, since |-> <<0, 0>>, ctx |-> <<0, 0>>, from |-> 0, body |-> FALSE, data |-> Nothing, code |-> 0]

Init ==
    /\ op = [at |-> "idle", key |-> Off] /\ ops = 0 /\ setup = FALSE /\ want = Off
    /\ srv = <<>> /\ run = 0 /\ report = None /\ live = FALSE /\ ours = FALSE /\ held = FALSE
    /\ file \in Contents /\ edits = 0 /\ cert = 0 /\ key = 0
    /\ busy \in SUBSET {k.port : k \in Keys}
    /\ status = "not_set_up" /\ latest = Nothing /\ tick = 0
    /\ req = [r \in Requests |-> NoRequest]

-----------------------------------------------------------------------------
(* The web config. *)

\* The client-certificate mode of a tls_server_config, None when it is refused.
VerifyMode(t) ==
    LET auth == IF t.auth # None THEN t.auth
                ELSE IF t.ca THEN "RequireAndVerifyClientCert" ELSE "NoClientCert"
    IN  CASE auth = "NoClientCert" -> "unasked"
          [] auth = "RequireAndVerifyClientCert" /\ t.ca -> "required"
          [] auth = "VerifyClientCertIfGiven" /\ t.ca -> "optional"
          [] OTHER -> None

\* _tls: unknown keys, no file names, an unknown minimum version or mode.
TlsRefused(t) == t # NoTls /\ (t.wrong \/ VerifyMode(t) = None)

\* load_web_config raises a WebConfigError: unreadable file, unknown keys, users that
\* are not a map to bcrypt hashes (users = {None}; but any falsy value, a map or not,
\* is no users, {}), a refused TLS section.
Refused(c) == c.kind \in {"missing", "extra"} \/ c.users = {None} \/ TlsRefused(c.tls)
\* _tls raises a TypeError, which sync does not catch, behind the users' checks: a file
\* name that is no text, a version or mode that is a list.
Mistyped(c) == c.kind = "mistyped" /\ c.users # {None}

-----------------------------------------------------------------------------
(* Lifecycle operations, serialised by the coordinator's lock. *)

Begin(at, k) == op.at = "idle" /\ ops < MaxOps /\ ops' = ops + 1 /\ op' = [at |-> at, key |-> k]

\* setup_metrics: a provider already held is kept as it is; a pull reader is attached
\* only while the OTel global is free.
Setup(k) ==
    /\ Begin("sync", k) /\ ~setup
    /\ setup' = TRUE /\ want' = k /\ report' = None /\ live' = TRUE /\ ours' = TRUE /\ held' = TRUE
    /\ status' = CASE held -> status
                   [] ~held /\ k = Off -> "not_selected"
                   [] ~held /\ k # Off /\ live /\ ours -> "process_locked"
                   [] ~held /\ k # Off /\ live /\ ~ours -> "host_provider"
                   [] OTHER -> "ready"
    /\ UNCHANGED <<srv, run, latest, disk, req>>

\* Bug: the old listener is not closed.
SyncKeepsOld ==
    /\ op.at = "sync"
    /\ op' = [op EXCEPT !.at = IF op.key = Off THEN "idle" ELSE "load"]
    /\ UNCHANGED <<run, ops, setup, want, report, live, ours, held, srv, status, latest, disk, req>>

\* sync: the same key leaves the listener alone, any other closes it first.
Sync ==
    /\ op.at = "sync"
    /\ LET same == run # 0 /\ srv[run].key = op.key
       IN  /\ run' = IF same THEN run ELSE 0
           /\ op' = [op EXCEPT !.at = IF same \/ op.key = Off THEN "idle" ELSE "load"]
    /\ UNCHANGED <<ops, setup, want, report, live, ours, held, srv, status, latest, disk, req>>

Fail(why) == report' = why /\ op' = [op EXCEPT !.at = "idle"]

NoFile == [kind |-> "empty", users |-> {}, tls |-> NoTls]
NewServer(c) ==
    LET times == IF c.tls = NoTls THEN <<0, 0>> ELSE <<cert, key>>
    IN  [key |-> op.key, file |-> c, users |-> c.users \ {None}, tls |-> c.tls,
         stamp |-> times, ctx |-> times, verified |-> {}, holder |-> None]

\* _start reads the web config and, for TLS, the modification times.
StartLoad ==
    /\ op.at = "load" /\ ~(op.key.web /\ Mistyped(file))
    /\ IF op.key.web /\ Refused(file) THEN Fail("config") /\ UNCHANGED srv
       ELSE /\ srv' = Append(srv, NewServer(IF op.key.web THEN file ELSE NoFile))
            /\ op' = [op EXCEPT !.at = "bind"] /\ UNCHANGED report
    /\ UNCHANGED <<ops, setup, want, run, live, ours, held, status, latest, disk, req>>

\* The error goes through sync and setup_telemetry to the caller: the providers are
\* installed, setup is not done, nothing is reported; the next setup tries again.
LoadRaises ==
    /\ op.at = "load" /\ op.key.web /\ Mistyped(file)
    /\ setup' = FALSE /\ op' = [op EXCEPT !.at = "idle"]
    /\ UNCHANGED <<ops, want, run, report, live, ours, held, srv, status, latest, disk, req>>

\* _start builds the TLS context, a mismatched pair being refused, and binds.
StartBind ==
    /\ op.at = "bind"
    /\ LET s == Len(srv)
           mismatch == srv[s].tls # NoTls /\ cert # key
           inUse == op.key.port \in busy \/ (run # 0 /\ srv[run].key.port = op.key.port)
       IN  IF mismatch \/ inUse
           THEN /\ Fail(IF mismatch THEN "config" ELSE "port") /\ UNCHANGED run
                /\ srv' = SubSeq(srv, 1, s - 1)
           ELSE /\ run' = s /\ op' = [op EXCEPT !.at = "idle"] /\ UNCHANGED report
                /\ srv' = [srv EXCEPT ![s].ctx = IF srv[s].tls = NoTls THEN @ ELSE <<cert, key>>]
    /\ UNCHANGED <<ops, setup, want, live, ours, held, status, latest, disk, req>>

\* shutdown_metrics stops the listener before anything else.
Shutdown ==
    /\ Begin("detach", Off)
    /\ setup' = FALSE /\ want' = Off /\ run' = 0
    /\ UNCHANGED <<report, live, ours, held, srv, status, latest, disk, req>>

\* It then detaches the provider, drops the reader from the endpoint, ...
Detach ==
    /\ op.at = "detach" /\ op' = [op EXCEPT !.at = "dispose"]
    /\ status' = "shut_down" /\ held' = FALSE
    /\ UNCHANGED <<ops, setup, want, run, report, live, ours, srv, latest, disk, req>>

\* ... and shuts the provider down, whose readers forget their last collection.
Dispose ==
    /\ op.at = "dispose" /\ op' = [op EXCEPT !.at = "idle"]
    /\ latest' = Nothing
    /\ UNCHANGED <<ops, setup, want, run, report, live, ours, held, srv, status, disk, req>>

\* The test helpers forget the setup and the provider, and leave the listener.
ResetForTests ==
    /\ Begin("idle", Off)
    /\ setup' = FALSE /\ ours' = FALSE /\ held' = FALSE /\ status' = "not_set_up"
    /\ UNCHANGED <<want, run, report, live, srv, latest, disk, req>>

-----------------------------------------------------------------------------
(* Requests. *)

Go(r, at, f) == req' = [req EXCEPT ![r] = [f EXCEPT !.at = at]]
\* A dropped connection, or the answer "not found" or "unauthorized": the slot is free.
Deny(r) == Go(r, "new", NoRequest)
Answer(r, code) == Go(r, "done", [req[r] EXCEPT !.code = code])
Only(v) == UNCHANGED <<lifecycle, disk, v>>

\* A connection to the listener, whose handler thread keeps its server; without
\* a listener, a call of the handler the host mounted (metrics_handler), which goes
\* the way of a listener without a web config.  What the client sends is chosen
\* where the code first looks at it.
Arrive(r) ==
    /\ req[r].at = "new"
    /\ Go(r, IF run = 0 THEN "respond" ELSE IF srv[run].tls # NoTls THEN "handshake" ELSE "route",
          [NoRequest EXCEPT !.srv = run])
    /\ Only(<<srv, status, latest>>)

\* The answer is sent; the slot serves another request.
Close(r) == req[r].at = "done" /\ Go(r, "new", NoRequest) /\ Only(<<srv, status, latest>>)

\* _TLSReloader.context takes its lock and reads the certificate's time, ...
StatCert(r) ==
    LET s == req[r].srv IN
    /\ req[r].at = "handshake" /\ srv[s].holder = None
    /\ srv' = [srv EXCEPT ![s].holder = r]
    /\ Go(r, "stat", [req[r] EXCEPT !.since = <<cert, key>>, !.read = <<cert>>])
    /\ Only(<<status, latest>>)

\* The handshake fails for a client that owes a certificate and has none.
Shaken(r, ctx) ==
    LET owed == VerifyMode(srv[req[r].srv].tls) = "required" IN
    \/ owed /\ Deny(r)
    \/ Go(r, "route", [req[r] EXCEPT !.ctx = ctx, !.cert = owed, !.read = <<>>])

\* ... then the key's.  Unchanged times keep the context; a changed one rebuilds
\* it: load_cert_chain reads the certificate (a replacement between the two reads
\* of this step is one before it or one after it), ...
StatKey(r) ==
    LET s == req[r].srv  stamp == Append(req[r].read, key) IN
    /\ req[r].at = "stat"
    /\ IF stamp = srv[s].stamp
       THEN Shaken(r, srv[s].ctx) /\ srv' = [srv EXCEPT ![s].holder = None]
       ELSE Go(r, "build", [req[r] EXCEPT !.read = Append(stamp, cert)]) /\ UNCHANGED srv
    /\ Only(<<status, latest>>)

\* Bug: the stamp is taken after the files were read.
StampAfterBuild(r) == <<cert, key>>
Stamp(r) == <<req[r].read[1], req[r].read[2]>>

\* ... then the key, and raises when they do not match: the context and its
\* stamp stay, and the connection is dropped.
BuildKey(r) ==
    LET s == req[r].srv  read == req[r].read IN
    /\ req[r].at = "build"
    /\ IF read[3] = key
       THEN /\ srv' = [srv EXCEPT ![s].ctx = <<read[3], key>>, ![s].stamp = Stamp(r), ![s].holder = None]
            /\ Shaken(r, <<read[3], key>>)
       ELSE srv' = [srv EXCEPT ![s].holder = None] /\ Deny(r)
    /\ Only(<<status, latest>>)

\* _dispatch and WebSecurity.authorized up to the bcrypt check.
Route(r) ==
    LET s == srv[req[r].srv]
        q == [NoRequest EXCEPT !.srv = req[r].srv, !.cert = req[r].cert]
    IN
    /\ req[r].at = "route"
    /\ \/ Deny(r)   \* another path: 404
       \/ s.users = {} /\ Go(r, "respond", q)
       \/ s.users # {} /\ Deny(r)   \* no usable header: 401
       \/ \E c \in Creds :
             s.users # {} /\ Go(r, IF c \in s.verified THEN "respond" ELSE "check", [q EXCEPT !.cred = c])
    /\ Only(<<srv, status, latest>>)

\* Bug: a credential is cached before it is checked.
CheckCachesFirst(r) ==
    LET s == req[r].srv  c == req[r].cred IN
    /\ req[r].at = "check"
    /\ srv' = [srv EXCEPT ![s].verified = @ \cup {c}]
    /\ IF c \in srv[s].users THEN Go(r, "respond", req[r]) ELSE Deny(r)
    /\ Only(<<status, latest>>)

\* authenticate: bcrypt.checkpw, slow and outside any lock; success is cached.
Check(r) ==
    LET s == req[r].srv  c == req[r].cred IN
    /\ req[r].at = "check"
    /\ IF c \in srv[s].users
       THEN srv' = [srv EXCEPT ![s].verified = @ \cup {c}] /\ Go(r, "respond", req[r])
       ELSE Deny(r) /\ UNCHANGED srv
    /\ Only(<<status, latest>>)

\* response_for and _current: the method, and whether a reader is serving.
Respond(r) ==
    /\ req[r].at = "respond"
    /\ \/ Answer(r, 405)
       \/ status # "ready" /\ Answer(r, 503)
       \/ status = "ready" /\ Go(r, "collect", [req[r] EXCEPT !.from = tick])
    /\ Only(<<srv, status, latest>>)

\* PullReader.snapshot collects, through _receive_metrics, ...
Collect(r) ==
    /\ req[r].at = "collect" /\ Go(r, "read", req[r])
    /\ latest' = tick
    /\ Only(<<srv, status>>)

\* ... and reads what is there; a HEAD request is answered without the body.
Read(r) ==
    /\ req[r].at = "read"
    /\ \E get \in BOOLEAN :
           Go(r, "done", [req[r] EXCEPT !.code = 200, !.body = get, !.data = IF get THEN latest ELSE Nothing])
    /\ Only(<<srv, status, latest>>)

Request(r) ==
    \/ Arrive(r) \/ Close(r) \/ StatCert(r) \/ StatKey(r) \/ BuildKey(r)
    \/ Route(r) \/ Check(r) \/ Respond(r) \/ Collect(r) \/ Read(r)

-----------------------------------------------------------------------------
(* The surroundings: operators and the host application. *)

Event == edits + cert + key + tick < MaxEvents /\ UNCHANGED <<lifecycle, busy, srv, status, latest, req>>
EditConfig == Event /\ edits < MaxEdits /\ edits' = edits + 1 /\ (\E c \in Contents \ {file} : file' = c) /\ UNCHANGED <<cert, key, tick>>
\* Replacements while nothing looks at the files are left out.
Watched == op.at \in {"load", "bind"} \/ \E s \in DOMAIN srv : srv[s].tls # NoTls
RotateCert == Event /\ Watched /\ cert' = cert + 1 /\ UNCHANGED <<file, edits, key, tick>>
RotateKey == Event /\ Watched /\ key' = key + 1 /\ UNCHANGED <<file, edits, cert, tick>>
Measure == Event /\ tick < MaxTicks /\ tick' = tick + 1 /\ UNCHANGED <<file, edits, cert, key>>

Next ==
    \/ \E k \in Keys \cup {Off} : Setup(k)
    \/ Sync \/ StartLoad \/ LoadRaises \/ StartBind \/ Shutdown \/ Detach \/ Dispose \/ ResetForTests
    \/ \E r \in Requests : Request(r)
    \/ EditConfig \/ RotateCert \/ RotateKey \/ Measure

Spec == Init /\ [][Next]_vars

-----------------------------------------------------------------------------
(* Properties. *)

\* What a web config asks of a client, read off the file (the reference): one of
\* its users' credentials, if it has users, and a certificate, if it says that one is
\* required or names a client CA and says nothing; a file that cannot be read, or used,
\* admits nobody.
Admits(c, q) ==
    /\ c.kind \notin {"missing", "extra", "mistyped"}
    /\ c.users # {} => q.cred \in c.users
    /\ c.tls # NoTls /\ (c.tls.auth = "RequireAndVerifyClientCert" \/ (c.tls.ca /\ c.tls.auth = None)) => q.cert

\* A response past authorisation goes only to a client that the web config the
\* accepting server was started from admits: unusable files keep the listener
\* from starting (load_web_config, sync), failed checks are never cached
\* (authenticate), and a replaced server's handlers keep its own users.
OnlyAdmitted ==
    \A r \in Requests : (req[r].code \in {200, 405, 503} /\ req[r].srv # 0 /\ srv[req[r].srv].key.web)
                            => Admits(srv[req[r].srv].file, req[r])

\* Rotation needs no restart (_TLSReloader.context): a connection whose check
\* began after a file was replaced never gets a context built from older files.
HandshakeFresh ==
    \A r \in Requests : req[r].at = "route" /\ srv[req[r].srv].tls # NoTls
                            => req[r].ctx[1] >= req[r].since[1] /\ req[r].ctx[2] >= req[r].since[2]

\* Between operations the listener is the one the last setup asked for, or it is
\* not running and the failure was reported, a port in use only for another
\* process's sake: sync closes the old server before it binds the new one.  (A web
\* config of a wrong type makes the setup itself raise: it is then not done.)
ListenerSettles ==
    op.at = "idle" =>
        /\ run # 0 => srv[run].key = want
        /\ (setup /\ want # Off /\ run = 0) => report # None
        /\ report = "port" /\ setup => want.port \in busy

\* A scrape is one collection (PullReader.snapshot): its body holds everything
\* recorded before the collection, which concurrent scrapes, sharing the reader's
\* last collection, only make newer; it is empty only when the reader was shut
\* down meanwhile.
ScrapeFresh ==
    \A r \in Requests : req[r].code = 200 /\ req[r].body
                            => IF req[r].data = Nothing THEN status # "ready" ELSE req[r].data >= req[r].from

\* An answer goes to whom it may and says what was measured.
ResponsesSound == OnlyAdmitted /\ ScrapeFresh
=============================================================================
