--------------------------- MODULE SessionsProofs ---------------------------
(***************************************************************************)
(* Proofs about the client's session and the exchange of refresh tokens,   *)
(* for any number of client processes, commands, tokens, faults and        *)
(* expiries: that no request is executed twice, that a session keeps one   *)
(* live refresh token unless an exchange of it was raced or cut off, and   *)
(* that commands run one after the other cost neither the session nor the  *)
(* knowledge of the application.                                           *)
(***************************************************************************)
EXTENDS Sessions, TLAPS, FiniteSetTheorems

TokenRecords == [state : {"none", "live", "revoked", "expired"}, root : 0..MaxTokens]
AnyProc ==
    [at : {"idle", "request", "answered", "refreshing", "storing", "stored", "retry", "auth", "saving", "writing"},
     cmd : {"none", "plain", "deploy", "delete", "login", "signup"},
     step : {"create", "run"}, token : 0..MaxTokens, app : 0..MaxCommands, reply : {"ok", "error"}]
ProcRecords == {r \in AnyProc : r.at \notin {"idle", "auth"} => r.token \in Tokens}
HandlerRecords ==
    [at : {"none", "check", "create", "rotate", "login", "signup", "issue", "reply"},
     token : 0..MaxTokens, new : 0..MaxTokens]
Files == [torn : BOOLEAN, token : 0..MaxTokens, app : 0..MaxCommands]

\* The types, with a handler of an exchange always at work on a stored token.
Typed ==
    /\ account \in BOOLEAN /\ apps \in [Apps -> {"none", "live", "deleted"}]
    /\ tokens \in [Tokens -> TokenRecords]
    /\ expired \in SUBSET Tokens
    /\ file \in Files
    /\ procs \in [Procs -> ProcRecords]
    /\ handlers \in [Procs -> HandlerRecords]
    /\ commands \in 0..MaxCommands
    /\ runs \in [Procs -> Nat]
    /\ refused \in BOOLEAN
    /\ causes \in SUBSET {"overlap", "fault", "unsaved", "expiry", "login"}
    /\ forked \in SUBSET Tokens
    /\ \A p \in Procs : handlers[p].at \in {"check", "create", "rotate"} => handlers[p].token \in Tokens
    /\ \A p \in Procs : handlers[p].at \in {"rotate", "reply"} => handlers[p].new \in Tokens
    /\ \A p \in Procs : handlers[p].at \in {"create", "rotate"} => tokens[handlers[p].token].root \in Tokens
    /\ \A t \in Tokens : tokens[t].state # "none" => tokens[t].root \in Tokens

-----------------------------------------------------------------------------
(* Types *)

\* NoToken is none of the token numbers.
LEMMA TokenNumbers == Tokens \subseteq 0..MaxTokens /\ NoToken \in 0..MaxTokens /\ NoToken \notin Tokens
BY SessionsAssumption DEF Tokens, NoToken

\* NoApp is none of the applications.
LEMMA AppNumbers == Apps \subseteq 0..MaxCommands /\ NoApp \in 0..MaxCommands /\ NoApp \notin Apps
BY SessionsAssumption DEF Apps, NoApp

\* An idle process and the absence of a handler have their types.
LEMMA IdleTypes == Idle \in ProcRecords /\ NoHandler \in HandlerRecords
BY TokenNumbers, AppNumbers DEF Idle, NoHandler, AnyProc, ProcRecords, HandlerRecords

\* The next token is one that was not issued.
LEMMA NextTokenFresh ==
    ASSUME TokenLeft
    PROVE  NextToken \in Tokens /\ tokens[NextToken].state = "none"
BY DEF TokenLeft, NextToken

\* The next application is one that was not created.
LEMMA NextAppFresh ==
    ASSUME AppLeft
    PROVE  NextApp \in Apps /\ apps[NextApp] = "none"
BY DEF AppLeft, NextApp

\* The end of a command keeps the types.
LEMMA EndTypes ==
    ASSUME Typed, NEW p \in Procs, NEW how, End(p, how)
    PROVE  procs' \in [Procs -> ProcRecords] /\ runs' \in [Procs -> Nat] /\ refused' \in BOOLEAN
BY IdleTypes DEF Typed, End, Become

\* A process may become anything of its type.
LEMMA BecomeTypes ==
    ASSUME Typed, NEW p \in Procs, NEW proc \in ProcRecords, Become(p, proc)
    PROVE  procs' \in [Procs -> ProcRecords]
BY DEF Typed, Become

\* What a handler may be replaced by.
LEMMA HandlerTypes ==
    ASSUME Typed, NEW p \in Procs, NEW h \in HandlerRecords, handlers' = [handlers EXCEPT ![p] = h],
           h.at \in {"check", "create", "rotate"} => h.token \in Tokens,
           h.at \in {"rotate", "reply"} => h.new \in Tokens,
           h.at \in {"create", "rotate"} => tokens'[h.token].root \in Tokens,
           \A t \in Tokens : tokens[t].root \in Tokens => tokens'[t].root \in Tokens
    PROVE  /\ handlers' \in [Procs -> HandlerRecords]
           /\ \A q \in Procs : handlers'[q].at \in {"check", "create", "rotate"} => handlers'[q].token \in Tokens
           /\ \A q \in Procs : handlers'[q].at \in {"rotate", "reply"} => handlers'[q].new \in Tokens
           /\ \A q \in Procs : handlers'[q].at \in {"create", "rotate"} => tokens'[handlers'[q].token].root \in Tokens
BY DEF Typed

\* A handler that ends leaves its type alone.
LEMMA NoHandlerTypes ==
    ASSUME Typed, NEW p \in Procs, Answering(p, NoHandler), tokens' = tokens
    PROVE  /\ handlers' \in [Procs -> HandlerRecords]
           /\ \A q \in Procs : handlers'[q].at \in {"check", "create", "rotate"} => handlers'[q].token \in Tokens
           /\ \A q \in Procs : handlers'[q].at \in {"rotate", "reply"} => handlers'[q].new \in Tokens
           /\ \A q \in Procs : handlers'[q].at \in {"create", "rotate"} => tokens'[handlers'[q].token].root \in Tokens
<1>1. NoHandler \in HandlerRecords /\ NoHandler.at = "none"
    BY IdleTypes DEF NoHandler
<1> QED BY <1>1, HandlerTypes DEF Answering

\* The steps of a client process keep the types.
LEMMA ClientTypes ==
    ASSUME Typed, NEW p \in Procs, Client(p)
    PROVE  Typed'
<1>0. procs[p] \in ProcRecords
    BY DEF Typed
<1>1. ASSUME NEW cmd \in {"plain", "deploy", "delete"}, Start(p, cmd) PROVE Typed'
    <2>1. procs' \in [Procs -> ProcRecords]
        <3>1. file.token \in 0..MaxTokens /\ file.app \in 0..MaxCommands
            BY DEF Typed, Files
        <3>2. file.token \in Tokens
            BY <1>1, <3>1, SessionsAssumption DEF Start, NoToken, Tokens
        <3> DEFINE step == IF cmd = "deploy" /\ file.app = NoApp THEN "create" ELSE "run"
                   proc == [at |-> "request", cmd |-> cmd, step |-> step, token |-> file.token, app |-> file.app,
                            reply |-> "ok"]
        <3>3. Become(p, proc)
            BY <1>1 DEF Start
        <3>4. step \in {"create", "run"}
            OBVIOUS
        <3> HIDE DEF step
        <3>5. proc \in ProcRecords
            BY <3>1, <3>2, <3>4 DEF AnyProc, ProcRecords
        <3> HIDE DEF proc
        <3> QED BY <3>3, <3>5, BecomeTypes
    <2>2. commands' \in 0..MaxCommands
        BY <1>1, SessionsAssumption DEF Start, Loads, Typed
    <2> QED BY <1>1, <2>1, <2>2 DEF Start, Loads, Typed
<1>2. ASSUME NEW cmd \in {"login", "signup"}, StartAuth(p, cmd) PROVE Typed'
    <2>1. procs' \in [Procs -> ProcRecords]
        <3>1. file.token \in 0..MaxTokens /\ file.app \in 0..MaxCommands
            BY DEF Typed, Files
        <3>2. [Idle EXCEPT !.at = "auth", !.cmd = cmd, !.token = file.token, !.app = file.app] \in ProcRecords
            BY <3>1, IdleTypes DEF AnyProc, ProcRecords
        <3> QED BY <1>2, <3>2 DEF Typed, StartAuth, Become
    <2>2. commands' \in 0..MaxCommands
        BY <1>2, SessionsAssumption DEF StartAuth, Loads, Typed
    <2>3. [NoHandler EXCEPT !.at = cmd] \in HandlerRecords /\ [NoHandler EXCEPT !.at = cmd].at = cmd
        BY IdleTypes DEF HandlerRecords, NoHandler
    <2>4. handlers' = [handlers EXCEPT ![p] = [NoHandler EXCEPT !.at = cmd]]
        BY <1>2 DEF StartAuth
    <2> QED BY <1>2, <2>1, <2>2, <2>3, <2>4, HandlerTypes DEF StartAuth, Loads, Typed
<1>3. CASE Send(p)
    <2> DEFINE reply == Answer(procs[p])
               id == IF Remembers(procs[p]) THEN NextApp ELSE procs[p].app
               sent == [procs[p] EXCEPT !.at = "answered", !.reply = reply, !.app = id]
    <2>1. reply \in {"ok", "error"}
        BY DEF Answer
    <2>2. id \in 0..MaxCommands
        BY <1>0, <1>3, NextAppFresh, AppNumbers DEF Send, AnyProc, ProcRecords
    <2>3. apps' \in [Apps -> {"none", "live", "deleted"}]
        BY <1>3 DEF Send, AppsAfter, Typed
    <2>4. Become(p, sent)
        BY <1>0, <1>3 DEF Send, AnyProc, ProcRecords
    <2> HIDE DEF reply, id
    <2>5. sent \in ProcRecords
        BY <1>0, <1>3, <2>1, <2>2 DEF Send, AnyProc, ProcRecords
    <2> HIDE DEF sent
    <2>6. procs' \in [Procs -> ProcRecords]
        BY <2>4, <2>5, BecomeTypes
    <2>7. runs' \in [Procs -> Nat]
        BY <1>3 DEF Send, Typed
    <2> QED BY <1>3, <2>3, <2>6, <2>7 DEF Send, Typed
<1>4. CASE Refused(p)
    <2>1. CASE procs[p].at = "request"
        <3> DEFINE h == [at |-> "check", token |-> procs[p].token, new |-> NoToken]
        <3>1. h \in HandlerRecords /\ h.token \in Tokens
            BY <1>4, TokenNumbers DEF Refused, Typed, HandlerRecords
        <3>2. procs' \in [Procs -> ProcRecords]
            <4>1. [procs[p] EXCEPT !.at = "refreshing"] \in ProcRecords
                BY <1>0, <2>1 DEF AnyProc, ProcRecords
            <4> QED BY <1>4, <2>1, <4>1, BecomeTypes DEF Refused
        <3>3. handlers' = [handlers EXCEPT ![p] = h] /\ UNCHANGED <<runs, refused>>
            BY <1>4, <2>1 DEF Refused
        <3>4. h.at \notin {"rotate", "reply"}
            OBVIOUS
        <3> HIDE DEF h
        <3> QED BY <1>4, <3>1, <3>2, <3>3, <3>4, HandlerTypes DEF Refused, Typed
    <2>2. CASE procs[p].at # "request"
        BY <1>4, <2>2, EndTypes DEF Refused, Typed
    <2> QED BY <2>1, <2>2
<1>5. CASE Answered(p)
    <2>1. CASE End(p, "failed") \/ End(p, "ok")
        BY <1>5, <2>1, EndTypes DEF Answered, Typed
    <2>2. CASE Become(p, [procs[p] EXCEPT !.at = "saving", !.app = IF Remembers(procs[p]) THEN @ ELSE NoApp]) /\ UNCHANGED <<runs, refused>>
        <3>1. procs' \in [Procs -> ProcRecords]
            <4>1. [procs[p] EXCEPT !.at = "saving", !.app = IF Remembers(procs[p]) THEN @ ELSE NoApp] \in ProcRecords
                BY <1>0, <1>5, AppNumbers DEF Answered, AnyProc, ProcRecords
            <4> QED BY <2>2, <4>1, BecomeTypes
        <3> QED BY <1>5, <2>2, <3>1 DEF Answered, Typed
    <2> QED BY <1>5, <2>1, <2>2 DEF Answered
<1>6. CASE Lost(p)
    BY <1>6, EndTypes DEF Lost, Fault, AfterLost, Typed
<1>7. CASE Truncate(p)
    <2>1. [procs[p] EXCEPT !.at = IF @ = "storing" THEN "stored" ELSE "writing"] \in ProcRecords
        BY <1>0, <1>7 DEF Truncate, AnyProc, ProcRecords
    <2>2. procs' \in [Procs -> ProcRecords]
        BY <1>7, <2>1, BecomeTypes DEF Truncate
    <2>3. file' \in Files
        BY <1>7 DEF Truncate, Typed, Files
    <2> QED BY <1>7, <2>2, <2>3 DEF Truncate, Typed
<1>8. CASE Written(p)
    <2>1. file' \in Files
        BY <1>8, <1>0 DEF Written, Save, Typed, AnyProc, ProcRecords, Files
    <2>2. procs' \in [Procs -> ProcRecords] /\ runs' \in [Procs -> Nat] /\ refused' \in BOOLEAN
        <3>1. CASE End(p, "ok")
            BY <3>1, EndTypes
        <3>2. CASE Become(p, [procs[p] EXCEPT !.at = "retry"]) /\ UNCHANGED <<runs, refused>>
            <4>1. [procs[p] EXCEPT !.at = "retry"] \in ProcRecords
                BY <1>0, <1>8 DEF Written, AnyProc, ProcRecords
            <4> QED BY <3>2, <4>1, BecomeTypes DEF Typed
        <3>3. CASE Become(p, [procs[p] EXCEPT !.at = "request", !.step = "run"]) /\ runs' = [runs EXCEPT ![p] = 0]
                   /\ UNCHANGED refused
            <4>1. [procs[p] EXCEPT !.at = "request", !.step = "run"] \in ProcRecords
                BY <1>0, <1>8 DEF Written, AnyProc, ProcRecords
            <4>2. runs' \in [Procs -> Nat] /\ refused' \in BOOLEAN
                BY <3>3 DEF Typed
            <4> QED BY <3>3, <4>1, <4>2, BecomeTypes
        <3> QED BY <1>8, <3>1, <3>2, <3>3 DEF Written
    <2> QED BY <1>8, <2>1, <2>2 DEF Written, Typed
<1>9. CASE SaveFails(p)
    <2>1. procs' \in [Procs -> ProcRecords] /\ runs' \in [Procs -> Nat] /\ refused' \in BOOLEAN
        <3>1. CASE End(p, "failed")
            BY <3>1, EndTypes
        <3>2. CASE Become(p, [procs[p] EXCEPT !.at = "retry"]) /\ UNCHANGED <<runs, refused>>
            <4>1. [procs[p] EXCEPT !.at = "retry"] \in ProcRecords
                BY <1>0, <1>9 DEF SaveFails, AnyProc, ProcRecords
            <4> QED BY <3>2, <4>1, BecomeTypes DEF Typed
        <3> QED BY <1>9, <3>1, <3>2 DEF SaveFails
    <2> QED BY <1>9, <2>1 DEF SaveFails, Fault, Typed
<1>10. CASE Kill(p)
    BY <1>10, EndTypes DEF Kill, Fault, Typed
<1> QED BY <1>1, <1>2, <1>3, <1>4, <1>5, <1>6, <1>7, <1>8, <1>9, <1>10 DEF Client

\* The steps of a handler keep the types.
LEMMA ServerTypes ==
    ASSUME Typed, NEW p \in Procs, Server(p)
    PROVE  Typed'
<1>0. procs[p] \in ProcRecords /\ handlers[p] \in HandlerRecords
    BY DEF Typed
<1>1. ASSUME NEW passes, GoesOn(p, passes), UNCHANGED <<apps, tokens, expired, file, commands, causes, forked, budget>>,
             account' \in BOOLEAN
      PROVE  Typed'
    <2>1. CASE passes
        <3> DEFINE h == [handlers[p] EXCEPT !.at = "issue"]
        <3>1. h \in HandlerRecords /\ h.at = "issue"
            BY <1>0 DEF HandlerRecords
        <3>2. handlers' = [handlers EXCEPT ![p] = h] /\ UNCHANGED <<procs, runs, refused>>
            BY <1>1, <2>1 DEF GoesOn, Answering
        <3> HIDE DEF h
        <3> QED BY <1>1, <3>1, <3>2, HandlerTypes DEF Typed
    <2>2. CASE ~passes
        <3>1. procs' \in [Procs -> ProcRecords] /\ runs' \in [Procs -> Nat] /\ refused' \in BOOLEAN
            BY <1>1, <2>2, EndTypes DEF GoesOn, Typed
        <3> QED BY <1>1, <2>2, <3>1, NoHandlerTypes DEF GoesOn, Typed
    <2> QED BY <2>1, <2>2
<1>2. CASE SignUp(p) \/ LogIn(p)
    BY <1>1, <1>2 DEF SignUp, LogIn, Typed
<1>3. ASSUME NEW root \in Tokens, NEW at \in {"rotate", "reply"}, TokenLeft,
             handlers[p].at \in {"issue", "create"}, at = "rotate" => handlers[p].at = "create",
             tokens' = [tokens EXCEPT ![NextToken] = [state |-> "live", root |-> root]],
             Answering(p, [handlers[p] EXCEPT !.at = at, !.new = NextToken]),
             UNCHANGED <<account, apps, expired, file, procs, commands, runs, refused, causes, forked, budget>>
      PROVE  Typed'
    <2> DEFINE h == [handlers[p] EXCEPT !.at = at, !.new = NextToken]
    <2>1. NextToken \in Tokens
        BY <1>3, NextTokenFresh
    <2>2. h \in HandlerRecords /\ h.at = at /\ h.new = NextToken /\ h.token = handlers[p].token
        BY <1>0, <2>1, TokenNumbers DEF HandlerRecords
    <2>3. [state |-> "live", root |-> root] \in TokenRecords
        BY TokenNumbers DEF TokenRecords
    <2>4. tokens' \in [Tokens -> TokenRecords]
        BY <1>3, <2>1, <2>3 DEF Typed
    <2>5. \A t \in Tokens : tokens'[t].state # "none" => tokens'[t].root \in Tokens
        BY <1>3, <2>1 DEF Typed
    <2>6. handlers' = [handlers EXCEPT ![p] = h]
        BY <1>3 DEF Answering
    <2>7. at = "rotate" => handlers[p].token \in Tokens /\ tokens[handlers[p].token].root \in Tokens
        BY <1>3 DEF Typed
    <2>8. \A t \in Tokens : tokens[t].root \in Tokens => tokens'[t].root \in Tokens
        BY <1>3, <2>1 DEF Typed
    <2> HIDE DEF h
    <2> QED BY <1>3, <2>1, <2>2, <2>4, <2>5, <2>6, <2>7, <2>8, HandlerTypes DEF Typed
<1>4. CASE Issue(p)
    BY <1>3, <1>4, NextTokenFresh DEF Issue
<1>5. CASE Check(p)
    <2>1. CASE Redeemable(handlers[p].token)
        <3> DEFINE h == [handlers[p] EXCEPT !.at = "create"]
        <3>1. h \in HandlerRecords /\ h.at = "create" /\ h.token = handlers[p].token /\ handlers[p].token \in Tokens
            BY <1>0, <1>5 DEF HandlerRecords, Check, Typed
        <3>2. handlers' = [handlers EXCEPT ![p] = h] /\ UNCHANGED <<procs, runs, refused>>
            BY <1>5, <2>1 DEF Check, Answering
        <3>3. tokens[handlers[p].token].root \in Tokens /\ tokens' = tokens
            BY <1>5, <2>1, <3>1 DEF Check, Typed, Redeemable
        <3>4. forked' \in SUBSET Tokens
            BY <1>5, <2>1, <3>3 DEF Check, Typed
        <3> HIDE DEF h
        <3> QED BY <1>5, <3>1, <3>2, <3>3, <3>4, HandlerTypes DEF Check, Typed
    <2>2. CASE ~Redeemable(handlers[p].token)
        <3>1. procs' \in [Procs -> ProcRecords] /\ runs' \in [Procs -> Nat] /\ refused' \in BOOLEAN
            BY <1>5, <2>2, EndTypes DEF Check, Typed
        <3> QED BY <1>5, <2>2, <3>1, NoHandlerTypes DEF Check, Typed
    <2> QED BY <2>1, <2>2
<1>6. CASE Create(p)
    <2>1. tokens[handlers[p].token].root \in Tokens
        BY <1>6 DEF Create, Typed
    <2> QED BY <1>3, <1>6, <2>1 DEF Create
<1>8. CASE Rotate(p)
    <2> DEFINE h == [handlers[p] EXCEPT !.at = "reply"]
    <2>1. h \in HandlerRecords /\ h.at = "reply" /\ h.new = handlers[p].new /\ handlers[p].new \in Tokens
        BY <1>0, <1>8 DEF HandlerRecords, Rotate, Typed
    <2>2. handlers' = [handlers EXCEPT ![p] = h]
        BY <1>8 DEF Rotate, Answering
    <2>3. tokens' \in [Tokens -> TokenRecords]
        BY <1>8 DEF Rotate, Typed, TokenRecords
    <2>4. \A t \in Tokens : tokens'[t].root = tokens[t].root
        BY <1>8 DEF Rotate, Typed, TokenRecords
    <2>5. \A t \in Tokens : tokens'[t].state # "none" => tokens'[t].root \in Tokens
        BY <1>8, <2>4 DEF Rotate, Revoked, Typed
    <2> HIDE DEF h
    <2> QED BY <1>8, <2>1, <2>2, <2>3, <2>4, <2>5, HandlerTypes DEF Rotate, Typed
<1>9. CASE Reply(p)
    <2>1. /\ [procs[p] EXCEPT !.at = "storing", !.token = handlers[p].new] \in ProcRecords
          /\ [procs[p] EXCEPT !.at = "saving", !.token = handlers[p].new, !.app = NoApp] \in ProcRecords
        BY <1>0, <1>9, AppNumbers DEF Reply, Typed, AnyProc, ProcRecords, HandlerRecords
    <2>2. procs' \in [Procs -> ProcRecords]
        BY <1>9, <2>1, BecomeTypes DEF Reply, Typed
    <2>3. causes' \in SUBSET {"overlap", "fault", "unsaved", "expiry", "login"}
        BY <1>9 DEF Reply, Typed
    <2> QED BY <1>9, <2>2, <2>3, NoHandlerTypes DEF Reply, Typed
<1>10. CASE Cancel(p)
    <2>1. forked' \in SUBSET Tokens
        BY <1>10 DEF Cancel, Typed
    <2> QED BY <1>10, <2>1, NoHandlerTypes DEF Cancel, Typed
<1> QED BY <1>2, <1>4, <1>5, <1>6, <1>8, <1>9, <1>10 DEF Server

\* Tokens that expire keep the types.
LEMMA ExpiryTypes ==
    ASSUME Typed, NEW t \in Tokens, ExpireAccess(t) \/ ExpireRefresh(t)
    PROVE  Typed'
<1>1. CASE ExpireAccess(t)
    BY <1>1 DEF ExpireAccess, Typed
<1>2. CASE ExpireRefresh(t)
    <2>1. tokens' \in [Tokens -> TokenRecords] /\ \A u \in Tokens : tokens'[u].root = tokens[u].root
        BY <1>2 DEF ExpireRefresh, Typed, TokenRecords
    <2>2. \A u \in Tokens : tokens'[u].state # "none" => tokens[u].state # "none"
        BY <1>2 DEF ExpireRefresh, Typed, TokenRecords
    <2> QED BY <1>2, <2>1, <2>2 DEF ExpireRefresh, Typed
<1> QED BY <1>1, <1>2

\* Nobody has signed up: everything is well typed.
LEMMA InitTypes == Init => Typed
<1> SUFFICES ASSUME Init PROVE Typed
    OBVIOUS
<1>1. [state |-> "none", root |-> NoToken] \in TokenRecords
    BY TokenNumbers DEF TokenRecords
<1>2. [torn |-> FALSE, token |-> NoToken, app |-> NoApp] \in Files
    BY TokenNumbers, AppNumbers DEF Files
<1>3. \A p \in Procs : handlers[p].at = "none"
    BY DEF Init, NoHandler
<1>4. \A t \in Tokens : tokens[t].state = "none"
    BY DEF Init
<1>5. tokens \in [Tokens -> TokenRecords] /\ file \in Files
    BY <1>1, <1>2 DEF Init
<1>6. procs \in [Procs -> ProcRecords] /\ handlers \in [Procs -> HandlerRecords] /\ runs \in [Procs -> Nat]
    BY IdleTypes DEF Init
<1>7. commands \in 0..MaxCommands
    BY SessionsAssumption DEF Init
<1>8. account \in BOOLEAN /\ apps \in [Apps -> {"none", "live", "deleted"}] /\ refused \in BOOLEAN /\ expired = {} /\ causes = {} /\ forked = {}
    BY DEF Init
<1> QED BY <1>3, <1>4, <1>5, <1>6, <1>7, <1>8 DEF Typed

\* Every step keeps the types.
LEMMA StepTypes == Typed /\ [Next]_vars => Typed'
<1>1. ASSUME Typed, Next PROVE Typed'
    BY <1>1, ClientTypes, ServerTypes, ExpiryTypes DEF Next
<1>2. ASSUME Typed, UNCHANGED vars PROVE Typed'
    BY <1>2 DEF Typed, vars
<1> QED BY <1>1, <1>2

\* Every state of the client, the file and the server has its type: a response
\* is one of those the client knows, and a handler holds stored tokens only.
THEOREM TypeCorrect == Spec => []TypeOK
<1>1. Typed => TypeOK
    BY DEF Typed, TypeOK, TokenRecords, AnyProc, ProcRecords, HandlerRecords, Files
<1> QED BY <1>1, InitTypes, StepTypes, PTL DEF Spec

-----------------------------------------------------------------------------
(* Requests *)

\* A request has been executed only while its response is dealt with.
Untried == {"idle", "request", "refreshing", "storing", "stored", "retry", "auth"}
Attempts == \A p \in Procs : runs[p] \in {0, 1} /\ (procs[p].at \in Untried => runs[p] = 0)

\* A command that ends takes its count along.
LEMMA EndAttempts ==
    ASSUME Typed, Attempts, NEW p \in Procs, NEW how, End(p, how)
    PROVE  Attempts'
BY DEF End, Become, Typed, Attempts, Idle, Untried

\* A process that moves while its request stays as it is.
LEMMA MoveAttempts ==
    ASSUME Typed, Attempts, NEW p \in Procs, NEW proc \in AnyProc, Become(p, proc), UNCHANGED runs,
           proc.at \in Untried => procs[p].at \in Untried
    PROVE  Attempts'
BY DEF Become, Typed, Attempts

\* A request is executed only from a state in which it was not yet.
LEMMA StepAttempts ==
    ASSUME Typed, Attempts, [Next]_vars
    PROVE  Attempts'
<1>1. ASSUME UNCHANGED <<procs, runs>> PROVE Attempts'
    BY <1>1 DEF Attempts
<1>2. ASSUME NEW p \in Procs, Client(p) PROVE Attempts'
    <2>0. procs[p] \in ProcRecords
        BY DEF Typed
    <2>1. ASSUME NEW cmd \in {"plain", "deploy", "delete"}, Start(p, cmd) PROVE Attempts'
        BY <2>1 DEF Start, Loads, Active, Become, Typed, Attempts, Untried
    <2>2. ASSUME NEW cmd \in {"login", "signup"}, StartAuth(p, cmd) PROVE Attempts'
        BY <2>2 DEF StartAuth, Loads, Active, Idle, Become, Typed, Attempts, Untried
    <2>3. CASE Send(p)
        <3>1. runs[p] = 0
            BY <2>3 DEF Send, Attempts, Untried
        <3>2. procs'[p].at = "answered"
            BY <2>3, <2>0 DEF Send, Become, Typed, AnyProc, ProcRecords
        <3>3. runs'[p] = 1 /\ \A q \in Procs \ {p} : runs'[q] = runs[q] /\ procs'[q] = procs[q]
            BY <2>3, <3>1 DEF Send, Become, Typed
        <3> QED BY <3>2, <3>3 DEF Attempts, Untried
    <2>4. CASE Refused(p)
        <3>1. CASE procs[p].at = "request"
            <4>1. [procs[p] EXCEPT !.at = "refreshing"] \in AnyProc
                BY <2>0 DEF AnyProc, ProcRecords
            <4> QED BY <2>4, <3>1, <4>1, MoveAttempts DEF Refused, Untried
        <3>2. CASE procs[p].at # "request"
            BY <2>4, <3>2, EndAttempts DEF Refused
        <3> QED BY <3>1, <3>2
    <2>5. CASE Answered(p)
        <3> DEFINE saving == [procs[p] EXCEPT !.at = "saving", !.app = IF Remembers(procs[p]) THEN @ ELSE NoApp]
        <3>1. saving \in AnyProc /\ saving.at \notin Untried
            BY <2>0, AppNumbers DEF AnyProc, ProcRecords, Untried
        <3> HIDE DEF saving
        <3>2. CASE Become(p, saving) /\ UNCHANGED runs
            BY <3>1, <3>2, MoveAttempts
        <3>3. CASE End(p, "failed") \/ End(p, "ok")
            BY <3>3, EndAttempts
        <3> QED BY <2>5, <3>2, <3>3 DEF Answered, saving
    <2>6. CASE Lost(p) \/ Kill(p)
        BY <2>6, EndAttempts DEF Lost, AfterLost, Kill
    <2>7. CASE Truncate(p)
        <3> DEFINE next == [procs[p] EXCEPT !.at = IF @ = "storing" THEN "stored" ELSE "writing"]
        <3>1. next \in AnyProc /\ (next.at \in Untried => procs[p].at \in Untried)
            BY <2>0 DEF AnyProc, ProcRecords, Untried
        <3>2. Become(p, next) /\ UNCHANGED runs
            BY <2>7 DEF Truncate
        <3> HIDE DEF next
        <3> QED BY <3>1, <3>2, MoveAttempts
    <2>8. ASSUME procs[p].at \in Untried, Become(p, [procs[p] EXCEPT !.at = "retry"]), UNCHANGED runs PROVE Attempts'
        <3>1. [procs[p] EXCEPT !.at = "retry"] \in AnyProc
            BY <2>0 DEF AnyProc, ProcRecords
        <3> QED BY <2>8, <3>1, MoveAttempts
    <2>9. CASE Written(p)
        <3>1. CASE procs[p].at = "stored"
            BY <2>8, <2>9, <3>1 DEF Written, Untried
        <3>2. CASE End(p, "ok")
            BY <3>2, EndAttempts
        <3>3. CASE Become(p, [procs[p] EXCEPT !.at = "request", !.step = "run"]) /\ runs' = [runs EXCEPT ![p] = 0]
            BY <3>3 DEF Become, Typed, Attempts
        <3> QED BY <2>9, <3>1, <3>2, <3>3 DEF Written
    <2>10. CASE SaveFails(p)
        <3>1. CASE procs[p].at = "storing"
            BY <2>8, <2>10, <3>1 DEF SaveFails, Untried
        <3>2. CASE procs[p].at # "storing"
            BY <2>10, <3>2, EndAttempts DEF SaveFails
        <3> QED BY <3>1, <3>2
    <2> QED BY <1>2, <2>1, <2>2, <2>3, <2>4, <2>5, <2>6, <2>7, <2>9, <2>10 DEF Client
<1>3. ASSUME NEW p \in Procs, Server(p) PROVE Attempts'
    <2>0. procs[p] \in ProcRecords /\ handlers[p].new \in 0..MaxTokens
        BY DEF Typed, HandlerRecords
    <2>1. CASE Reply(p)
        <3>1. [procs[p] EXCEPT !.at = "storing", !.token = handlers[p].new] \in AnyProc
            BY <2>0 DEF AnyProc, ProcRecords
        <3>2. [procs[p] EXCEPT !.at = "saving", !.token = handlers[p].new, !.app = NoApp] \in AnyProc
            BY <2>0, AppNumbers DEF AnyProc, ProcRecords
        <3>3. [procs[p] EXCEPT !.at = "saving", !.token = handlers[p].new, !.app = NoApp].at \notin Untried
            BY <2>0 DEF AnyProc, ProcRecords, Untried
        <3>4. CASE procs[p].at = "refreshing"
            BY <2>1, <3>1, <3>4, MoveAttempts DEF Reply, Waiting, Untried
        <3>5. CASE Waiting(p) /\ procs[p].at # "refreshing"
            BY <2>1, <3>2, <3>3, <3>5, MoveAttempts DEF Reply
        <3>6. CASE ~Waiting(p)
            BY <1>1, <2>1, <3>6 DEF Reply
        <3> QED BY <3>4, <3>5, <3>6
    <2>2. CASE SignUp(p) \/ LogIn(p)
        BY <1>1, <2>2, EndAttempts DEF SignUp, LogIn, GoesOn
    <2>3. CASE Check(p)
        BY <1>1, <2>3, EndAttempts DEF Check
    <2>4. CASE Issue(p) \/ Create(p) \/ Rotate(p) \/ Cancel(p)
        BY <1>1, <2>4 DEF Issue, Create, Rotate, Cancel
    <2> QED BY <1>3, <2>1, <2>2, <2>3, <2>4 DEF Server
<1>4. ASSUME NEW t \in Tokens, ExpireAccess(t) \/ ExpireRefresh(t) PROVE Attempts'
    BY <1>1, <1>4 DEF ExpireAccess, ExpireRefresh
<1>5. CASE UNCHANGED vars
    BY <1>1, <1>5 DEF vars
<1> QED BY <1>2, <1>3, <1>4, <1>5 DEF Next

\* The server executes no request of a command twice: do repeats it only after a
\* 401, and a 401 is answered before the request runs.
THEOREM AtMostOnce == Spec => []ExecutedAtMostOnce
<1>1. Init => Attempts
    BY DEF Init, Attempts
<1>2. Attempts => ExecutedAtMostOnce
    BY DEF Attempts, ExecutedAtMostOnce
<1> QED BY <1>1, <1>2, InitTypes, StepTypes, StepAttempts, PTL DEF Spec

-----------------------------------------------------------------------------
(* Refresh tokens *)

Live(t, r) == tokens[t].state = "live" /\ tokens[t].root = r
Exchanging(p) == handlers[p].at \in {"create", "rotate"}
RootOf(p) == tokens[handlers[p].token].root

\* A handler outlives its client, but no client goes on without its handler.
Served == \A p \in Procs : handlers[p].at # "none" => procs[p].at \in {"idle", "refreshing", "auth"}

\* Every token somebody holds has been issued.
Issued(t) == t \in Tokens => tokens[t].state # "none"
Held ==
    /\ Issued(file.token)
    /\ \A p \in Procs : Issued(procs[p].token) /\ Issued(handlers[p].token) /\ Issued(handlers[p].new)
    /\ \A t \in Tokens : tokens[t].state # "none" => tokens[tokens[t].root].state # "none"

\* Nobody but its handler knows a token whose predecessor is not revoked yet.
Secret ==
    \A p \in Procs : handlers[p].at = "rotate" =>
       /\ file.token # handlers[p].new
       /\ \A q \in Procs : /\ procs[q].token # handlers[p].new /\ handlers[q].token # handlers[p].new
                           /\ q # p => handlers[q].new # handlers[p].new

SameRoot == \A p \in Procs : handlers[p].at = "rotate" => tokens[handlers[p].new].root = RootOf(p)

\* A session that was not forked: one exchange at a time, which knows of all
\* its live tokens, and a single one outside an exchange.
OneExchange ==
    \A p, q \in Procs : (Exchanging(p) /\ Exchanging(q) /\ RootOf(p) = RootOf(q) /\ RootOf(p) \notin forked) => p = q
Covered ==
    \A p \in Procs, t \in Tokens : (Exchanging(p) /\ RootOf(p) \notin forked /\ Live(t, RootOf(p))) =>
       t = handlers[p].token \/ (handlers[p].at = "rotate" /\ t = handlers[p].new)
Single ==
    \A r \in Tokens \ forked : (\A p \in Procs : Exchanging(p) => RootOf(p) # r) =>
       \A t, u \in Tokens : Live(t, r) /\ Live(u, r) => t = u

Sessionwise == Served /\ Held /\ Secret /\ SameRoot /\ OneExchange /\ Covered /\ Single

\* A step that touches no stored token and no exchange, and passes on only what
\* is known already, or the token of an exchange that is complete.
LEMMA Calm ==
    ASSUME Typed, Typed', Sessionwise, NEW m \in Procs,
           tokens' = tokens, forked' = forked,
           \A q \in Procs \ {m} : procs'[q] = procs[q] /\ handlers'[q] = handlers[q],
           \/ handlers'[m] = handlers[m]
           \/ /\ handlers[m].at \notin {"create", "rotate"} /\ handlers'[m].at \notin {"create", "rotate"}
              /\ handlers'[m].token \in {NoToken, handlers[m].token, procs[m].token}
              /\ handlers'[m].new \in {NoToken, handlers[m].new},
           \/ procs'[m].token \in {NoToken, procs[m].token, file.token}
           \/ handlers[m].at = "reply" /\ procs'[m].token = handlers[m].new,
           file'.token \in {file.token, procs[m].token},
           handlers'[m].at # "none" => procs'[m].at \in {"idle", "refreshing", "auth"}
    PROVE  Sessionwise'
<1>1. Served'
    BY DEF Sessionwise, Served
<1>2. Held'
    <2>1. NoToken \notin Tokens
        BY TokenNumbers
    <2> QED BY <2>1 DEF Sessionwise, Held, Issued
<1>3. \A p \in Procs : Exchanging(p)' => handlers'[p] = handlers[p]
    BY DEF Exchanging
<1>4. \A p \in Procs : handlers[p].at \in {"create", "rotate"} => handlers'[p] = handlers[p]
    OBVIOUS
<1>5. Secret'
    <2> SUFFICES ASSUME NEW p \in Procs, handlers'[p].at = "rotate"
                 PROVE  /\ file'.token # handlers'[p].new
                        /\ \A q \in Procs : /\ procs'[q].token # handlers'[p].new /\ handlers'[q].token # handlers'[p].new
                                            /\ q # p => handlers'[q].new # handlers'[p].new
        BY DEF Secret
    <2>1. handlers'[p] = handlers[p] /\ handlers[p].at = "rotate"
        BY <1>3 DEF Exchanging
    <2>2. handlers[p].new \in Tokens /\ handlers[p].new # NoToken
        BY <2>1, TokenNumbers DEF Typed
    <2>3. /\ file.token # handlers[p].new
          /\ \A q \in Procs : /\ procs[q].token # handlers[p].new /\ handlers[q].token # handlers[p].new
                              /\ q # p => handlers[q].new # handlers[p].new
        BY <2>1 DEF Sessionwise, Secret
    <2>4. procs'[m].token # handlers[p].new
        BY <2>1, <2>2, <2>3
    <2>5. handlers'[m].token # handlers[p].new /\ (m # p => handlers'[m].new # handlers[p].new)
        BY <2>1, <2>2, <2>3
    <2> QED BY <2>1, <2>3, <2>4, <2>5
<1>6. SameRoot' /\ OneExchange' /\ Covered'
    BY <1>3 DEF Sessionwise, SameRoot, OneExchange, Covered, Exchanging, RootOf, Live
<1>7. Single'
    BY <1>3, <1>4 DEF Sessionwise, Single, Exchanging, RootOf, Live
<1> QED BY <1>1, <1>2, <1>5, <1>6, <1>7 DEF Sessionwise

\* A client's step: it learns the file's token, or writes its own into the file.
LEMMA ClientSessionwise ==
    ASSUME Typed, Typed', Sessionwise, NEW p \in Procs, Client(p)
    PROVE  Sessionwise'
<1>1. tokens' = tokens /\ forked' = forked
    BY DEF Client, Start, StartAuth, Loads, Send, Refused, Answered, Lost, Truncate, Written, SaveFails, Kill
<1>2. \A q \in Procs \ {p} : procs'[q] = procs[q] /\ handlers'[q] = handlers[q]
    BY DEF Client, Start, StartAuth, Loads, Send, Refused, Answered, Lost, AfterLost, Truncate, Written, SaveFails, Kill,
           Become, End, Typed
<1>3. procs'[p].token \in {NoToken, procs[p].token, file.token}
    <2>1. \A how : End(p, how) => procs'[p].token = NoToken
        BY DEF End, Become, Idle, Typed
    <2>2. \A q : Become(p, q) => procs'[p] = q
        BY DEF Become, Typed
    <2>3. procs[p] \in ProcRecords
        BY DEF Typed
    <2>4. CASE Send(p) \/ Refused(p) \/ Answered(p) \/ Truncate(p) \/ Written(p) \/ SaveFails(p)
        BY <2>1, <2>2, <2>3, <2>4 DEF Send, Refused, Answered, Truncate, Written, SaveFails, AnyProc, ProcRecords
    <2>5. CASE Lost(p) \/ Kill(p)
        BY <2>1, <2>5 DEF Lost, AfterLost, Kill
    <2>6. ASSUME NEW cmd, Start(p, cmd) \/ StartAuth(p, cmd) PROVE procs'[p].token = file.token
        <3>1. CASE Start(p, cmd)
            BY <2>2, <3>1 DEF Start
        <3>2. CASE StartAuth(p, cmd)
            <4>1. procs'[p] = [Idle EXCEPT !.at = "auth", !.cmd = cmd, !.token = file.token, !.app = file.app]
                BY <2>2, <3>2 DEF StartAuth
            <4> QED BY <4>1 DEF Idle
        <3> QED BY <2>6, <3>1, <3>2
    <2> QED BY <2>4, <2>5, <2>6 DEF Client
<1>4. file'.token \in {file.token, procs[p].token}
    BY DEF Client, Start, StartAuth, Loads, Send, Refused, Answered, Lost, Truncate, Written, Save, SaveFails, Kill,
           Typed, Files
<1>5. CASE handlers' = handlers
    <2>1. handlers[p].at # "none" => procs'[p].at \in {"idle", "refreshing", "auth"}
        <3> SUFFICES ASSUME handlers[p].at # "none" PROVE procs'[p].at \in {"idle", "refreshing", "auth"}
            OBVIOUS
        <3>1. procs[p].at \in {"idle", "refreshing", "auth"}
            BY DEF Sessionwise, Served
        <3>2. \A how : End(p, how) => procs'[p].at = "idle"
            BY DEF End, Become, Idle, Typed
        <3>3. CASE Lost(p) \/ Kill(p)
            BY <3>2, <3>3 DEF Lost, AfterLost, Kill
        <3>4. CASE Send(p) \/ Refused(p) \/ Answered(p) \/ Truncate(p) \/ Written(p) \/ SaveFails(p)
            BY <3>1, <3>4 DEF Send, Refused, Answered, Truncate, Written, SaveFails
        <3>5. \A cmd : ~Start(p, cmd) /\ ~StartAuth(p, cmd)
            BY DEF Start, StartAuth, Loads, Active
        <3> QED BY <3>3, <3>4, <3>5 DEF Client
    <2> QED BY <1>1, <1>2, <1>3, <1>4, <1>5, <2>1, Calm
<1>6. CASE handlers' # handlers
    <2>1. CASE Refused(p)
        <3>1. procs[p].at = "request" /\ handlers[p].at = "none"
            BY <1>6, <2>1 DEF Refused, Sessionwise, Served
        <3>2. handlers'[p] = [at |-> "check", token |-> procs[p].token, new |-> NoToken]
            BY <2>1, <3>1 DEF Refused, Typed
        <3>3. procs'[p].at = "refreshing"
            BY <2>1, <3>1 DEF Refused, Become, Typed, AnyProc, ProcRecords
        <3> QED BY <1>1, <1>2, <1>3, <1>4, <3>1, <3>2, <3>3, Calm
    <2>2. ASSUME NEW cmd \in {"login", "signup"}, StartAuth(p, cmd) PROVE Sessionwise'
        <3>1. handlers[p].at = "none"
            BY <2>2 DEF StartAuth, Loads, Active
        <3>2. handlers'[p].at = cmd /\ handlers'[p].token = NoToken /\ handlers'[p].new = NoToken
            BY <2>2 DEF StartAuth, Typed, NoHandler
        <3>3. procs'[p].at = "auth"
            BY <2>2 DEF StartAuth, Become, Typed, Idle
        <3> QED BY <1>1, <1>2, <1>3, <1>4, <3>1, <3>2, <3>3, Calm
    <2> QED BY <1>6, <2>1, <2>2 DEF Client, Start, Send, Answered, Lost, Truncate, Written, SaveFails, Kill
<1> QED BY <1>5, <1>6

\* A handler that goes on without touching a stored token.
LEMMA HandlerSessionwise ==
    ASSUME Typed, Typed', Sessionwise, NEW p \in Procs,
           \/ SignUp(p) \/ LogIn(p) \/ Reply(p)
           \/ Check(p) /\ ~Redeemable(handlers[p].token)
           \/ Cancel(p) /\ handlers[p].at \notin {"create", "rotate"}
    PROVE  Sessionwise'
<1>0. procs[p] \in ProcRecords /\ handlers[p] \in HandlerRecords
    BY DEF Typed
<1>1. tokens' = tokens /\ forked' = forked /\ file' = file
    BY DEF SignUp, LogIn, Reply, Check, Cancel
<1>2. \A q \in Procs \ {p} : procs'[q] = procs[q] /\ handlers'[q] = handlers[q]
    BY DEF SignUp, LogIn, GoesOn, Reply, Check, Cancel, Become, End, Answering, Typed
<1>3. /\ handlers[p].at \notin {"create", "rotate"} /\ handlers'[p].at \notin {"create", "rotate"}
      /\ handlers'[p].token \in {NoToken, handlers[p].token} /\ handlers'[p].new \in {NoToken, handlers[p].new}
    BY <1>0 DEF SignUp, LogIn, GoesOn, Reply, Check, Cancel, Answering, Typed, NoHandler, HandlerRecords
<1>4. \/ procs'[p].token \in {NoToken, procs[p].token}
      \/ handlers[p].at = "reply" /\ procs'[p].token = handlers[p].new
    <2>1. \A how : End(p, how) => procs'[p].token = NoToken
        BY DEF End, Become, Idle, Typed
    <2>2. CASE Reply(p)
        <3>1. CASE procs' = procs
            BY <3>1
        <3>2. \A proc : Become(p, proc) => procs'[p] = proc
            BY DEF Become, Typed
        <3>3. [procs[p] EXCEPT !.at = "storing", !.token = handlers[p].new].token = handlers[p].new
            BY <1>0 DEF AnyProc, ProcRecords
        <3>4. [procs[p] EXCEPT !.at = "saving", !.token = handlers[p].new, !.app = NoApp].token = handlers[p].new
            BY <1>0 DEF AnyProc, ProcRecords
        <3> QED BY <2>2, <3>1, <3>2, <3>3, <3>4 DEF Reply
    <2>3. CASE ~Reply(p)
        BY <2>1, <2>3 DEF SignUp, LogIn, GoesOn, Check, Cancel
    <2> QED BY <2>2, <2>3
<1>5. handlers'[p].at # "none" => procs'[p] = procs[p] /\ handlers[p].at # "none"
    BY DEF SignUp, LogIn, GoesOn, Reply, Check, Cancel, Answering, Typed, NoHandler
<1>6. handlers'[p].at # "none" => procs'[p].at \in {"idle", "refreshing", "auth"}
    BY <1>5 DEF Sessionwise, Served
<1> QED BY <1>1, <1>2, <1>3, <1>4, <1>6, Calm

\* A step that leaves tokens and exchanges alone leaves the sessions alone.
LEMMA UntouchedSessionwise ==
    ASSUME Sessionwise, UNCHANGED <<tokens, forked, procs, handlers, file>>
    PROVE  Sessionwise'
BY DEF Sessionwise, Served, Held, Issued, Secret, SameRoot, OneExchange, Covered, Single, Exchanging, RootOf, Live

\* A token that is stored for the first time is held by nobody, and no other
\* token has it for its root.
LEMMA FreshToken ==
    ASSUME Typed, Sessionwise, TokenLeft
    PROVE  /\ NextToken \in Tokens /\ tokens[NextToken].state = "none" /\ NextToken # NoToken
           /\ file.token # NextToken
           /\ \A p \in Procs : procs[p].token # NextToken /\ handlers[p].token # NextToken /\ handlers[p].new # NextToken
           /\ \A t \in Tokens : tokens[t].state # "none" => tokens[t].root # NextToken
<1>1. NextToken \in Tokens /\ tokens[NextToken].state = "none" /\ NextToken # NoToken
    BY NextTokenFresh, TokenNumbers
<1> QED BY <1>1 DEF Sessionwise, Held, Issued

\* Storing a token takes nobody's token away.
LEMMA StoreHeld ==
    ASSUME Typed, Typed', Sessionwise, NEW p \in Procs, TokenLeft, NEW root \in Tokens,
           tokens' = [tokens EXCEPT ![NextToken] = [state |-> "live", root |-> root]],
           root = NextToken \/ tokens[root].state # "none",
           UNCHANGED <<file, procs>>,
           \A q \in Procs \ {p} : handlers'[q] = handlers[q],
           handlers'[p].token = handlers[p].token, handlers'[p].new = NextToken, handlers[p].at # "none"
    PROVE  /\ Held' /\ Served'
           /\ \A t \in Tokens : t # NextToken => tokens'[t] = tokens[t]
           /\ tokens'[NextToken] = [state |-> "live", root |-> root]
<1>1. /\ tokens'[NextToken] = [state |-> "live", root |-> root]
      /\ \A t \in Tokens : t # NextToken => tokens'[t] = tokens[t]
    BY FreshToken DEF Typed
<1>2. \A t \in Tokens : tokens[t].state # "none" => tokens'[t].state # "none"
    BY <1>1
<1>3. \A t \in Tokens : tokens'[t].state # "none" => tokens'[tokens'[t].root].state # "none"
    <2> SUFFICES ASSUME NEW t \in Tokens, tokens'[t].state # "none" PROVE tokens'[tokens'[t].root].state # "none"
        OBVIOUS
    <2>1. CASE t = NextToken
        BY <1>1, <1>2, <2>1
    <2>2. CASE t # NextToken
        <3>1. tokens[t].root \in Tokens /\ tokens[tokens[t].root].state # "none"
            BY <1>1, <2>2 DEF Typed, Sessionwise, Held
        <3> QED BY <1>1, <1>2, <2>2, <3>1
    <2> QED BY <2>1, <2>2
<1>4. Issued(file.token)' /\ \A q \in Procs : Issued(procs[q].token)' /\ Issued(handlers[q].token)'
    BY <1>2 DEF Sessionwise, Held, Issued
<1>5. \A q \in Procs : Issued(handlers[q].new)'
    BY <1>1, <1>2 DEF Sessionwise, Held, Issued
<1>6. Served'
    BY DEF Sessionwise, Served
<1> QED BY <1>1, <1>3, <1>4, <1>5, <1>6 DEF Held

\* A login starts a session of its own.
LEMMA IssueSessionwise ==
    ASSUME Typed, Typed', Sessionwise, NEW p \in Procs, Issue(p)
    PROVE  Sessionwise'
<1>1. /\ handlers'[p].at = "reply" /\ handlers'[p].token = handlers[p].token /\ handlers'[p].new = NextToken
      /\ \A q \in Procs \ {p} : handlers'[q] = handlers[q]
      /\ TokenLeft /\ handlers[p].at = "issue" /\ UNCHANGED <<file, procs, forked>>
    BY DEF Issue, Answering, Typed, HandlerRecords
<1>2. /\ NextToken \in Tokens /\ tokens[NextToken].state = "none" /\ file.token # NextToken
      /\ \A q \in Procs : procs[q].token # NextToken /\ handlers[q].token # NextToken /\ handlers[q].new # NextToken
      /\ \A t \in Tokens : tokens[t].state # "none" => tokens[t].root # NextToken
    BY <1>1, FreshToken
<1>3. /\ Held' /\ Served' /\ \A t \in Tokens : t # NextToken => tokens'[t] = tokens[t]
      /\ tokens'[NextToken] = [state |-> "live", root |-> NextToken]
    BY <1>1, <1>2, StoreHeld DEF Issue
<1>4. \A q \in Procs : (Exchanging(q)' => handlers'[q] = handlers[q]) /\ (Exchanging(q) => handlers'[q] = handlers[q])
    BY <1>1 DEF Exchanging
<1>5. ASSUME NEW q \in Procs, Exchanging(q) PROVE RootOf(q)' = RootOf(q) /\ RootOf(q) # NextToken
    <2>1. handlers[q].token \in Tokens /\ tokens[handlers[q].token].state # "none"
        BY <1>5 DEF Exchanging, Typed, Sessionwise, Held, Issued
    <2> QED BY <1>2, <1>3, <1>4, <1>5, <2>1 DEF RootOf
<1>6. \A t \in Tokens, r \in Tokens : Live(t, r)' => Live(t, r) \/ (t = NextToken /\ r = NextToken)
    BY <1>3 DEF Live
<1>7. Secret'
    BY <1>1, <1>2, <1>4 DEF Sessionwise, Secret, Exchanging
<1>8. SameRoot'
    <2> SUFFICES ASSUME NEW q \in Procs, handlers'[q].at = "rotate" PROVE tokens'[handlers'[q].new].root = RootOf(q)'
        BY DEF SameRoot
    <2>1. handlers'[q] = handlers[q] /\ Exchanging(q) /\ handlers[q].new \in Tokens
        BY <1>4 DEF Exchanging, Typed
    <2> QED BY <1>2, <1>3, <1>5, <2>1 DEF Sessionwise, SameRoot
<1>9. \A q \in Procs : Exchanging(q)' = Exchanging(q)
    BY <1>1 DEF Exchanging
<1>10. OneExchange'
    BY <1>1, <1>5, <1>9 DEF Sessionwise, OneExchange
<1>11. Covered'
    <2> SUFFICES ASSUME NEW q \in Procs, NEW t \in Tokens, Exchanging(q)', RootOf(q)' \notin forked', Live(t, RootOf(q))'
                 PROVE  t = handlers'[q].token \/ (handlers'[q].at = "rotate" /\ t = handlers'[q].new)
        BY DEF Covered
    <2>1. Exchanging(q) /\ handlers'[q] = handlers[q] /\ RootOf(q)' = RootOf(q) /\ RootOf(q) # NextToken
        BY <1>4, <1>5, <1>9
    <2>2. RootOf(q) \in Tokens
        BY <2>1 DEF Exchanging, RootOf, Typed
    <2>3. Live(t, RootOf(q))
        BY <1>6, <2>1, <2>2 DEF Live
    <2> QED BY <1>1, <2>1, <2>3 DEF Sessionwise, Covered
<1>12. Single'
    <2> SUFFICES ASSUME NEW r \in Tokens \ forked, \A q \in Procs : Exchanging(q)' => RootOf(q)' # r,
                        NEW t \in Tokens, NEW u \in Tokens, Live(t, r)', Live(u, r)'
                 PROVE  t = u
        BY <1>1 DEF Single, Live
    <2>1. CASE r = NextToken
        <3>1. \A v \in Tokens : ~Live(v, r)
            BY <1>2, <2>1 DEF Live
        <3> QED BY <1>6, <3>1
    <2>2. CASE r # NextToken
        <3>1. Live(t, r) /\ Live(u, r)
            BY <1>6, <2>2
        <3>2. \A q \in Procs : Exchanging(q) => RootOf(q) # r
            BY <1>5, <1>9
        <3> QED BY <3>1, <3>2 DEF Sessionwise, Single
    <2> QED BY <2>1, <2>2
<1> QED BY <1>3, <1>7, <1>8, <1>10, <1>11, <1>12 DEF Sessionwise

\* An exchange begins: nobody else is at work on the session, or it is forked.
LEMMA CheckSessionwise ==
    ASSUME Typed, Typed', Sessionwise, NEW p \in Procs, Check(p), Redeemable(handlers[p].token)
    PROVE  Sessionwise'
<1> DEFINE r == tokens[handlers[p].token].root
<1>1. /\ handlers[p].at = "check" /\ handlers[p].token \in Tokens /\ Live(handlers[p].token, r)
      /\ UNCHANGED <<tokens, file, procs>> /\ forked \subseteq forked'
      /\ handlers'[p].at = "create" /\ handlers'[p].token = handlers[p].token /\ handlers'[p].new = handlers[p].new
      /\ \A q \in Procs \ {p} : handlers'[q] = handlers[q]
    BY DEF Check, Redeemable, Answering, Typed, HandlerRecords, Live
<1>2. (\E q \in Procs \ {p} : Exchanging(q) /\ handlers[q].token = handlers[p].token) => r \in forked'
    BY DEF Check, Exchanging
<1>3. ASSUME r \notin forked' PROVE /\ \A q \in Procs : Exchanging(q) => RootOf(q) # r
                                    /\ \A t \in Tokens : Live(t, r) => t = handlers[p].token
    <2>0. r \notin forked /\ r \in Tokens
        BY <1>1, <1>3 DEF Typed, Live
    <2>1. ASSUME NEW q \in Procs, Exchanging(q), RootOf(q) = r PROVE FALSE
        <3>1. q # p
            BY <1>1, <2>1 DEF Exchanging
        <3>2. handlers[q].token # handlers[p].token
            BY <1>2, <1>3, <2>1, <3>1
        <3>3. handlers[q].at = "rotate" /\ handlers[p].token = handlers[q].new
            BY <1>1, <2>0, <2>1, <3>2 DEF Sessionwise, Covered
        <3> QED BY <3>3 DEF Sessionwise, Secret
    <2>2. \A t \in Tokens : Live(t, r) => t = handlers[p].token
        BY <1>1, <2>0, <2>1 DEF Sessionwise, Single
    <2> QED BY <2>1, <2>2
<1> HIDE DEF r
<1>4. RootOf(p)' = r /\ \A q \in Procs \ {p} : RootOf(q)' = RootOf(q) /\ Exchanging(q)' = Exchanging(q)
    BY <1>1 DEF RootOf, Exchanging, r
<1>5. Served' /\ Held' /\ Secret' /\ SameRoot'
    BY <1>1 DEF Sessionwise, Served, Held, Issued, Secret, SameRoot, RootOf
<1>6. OneExchange'
    <2> SUFFICES ASSUME NEW a \in Procs, NEW b \in Procs, Exchanging(a)', Exchanging(b)', RootOf(a)' = RootOf(b)',
                        RootOf(a)' \notin forked', a # b
                 PROVE  FALSE
        BY DEF OneExchange
    <2>1. CASE a = p
        BY <1>3, <1>4, <2>1
    <2>2. CASE b = p
        BY <1>3, <1>4, <2>2
    <2>3. CASE a # p /\ b # p
        BY <1>1, <1>4, <2>3 DEF Sessionwise, OneExchange
    <2> QED BY <2>1, <2>2, <2>3
<1>7. \A t, x : Live(t, x)' = Live(t, x)
    BY <1>1 DEF Live
<1>8. Covered'
    <2> SUFFICES ASSUME NEW q \in Procs, NEW t \in Tokens, Exchanging(q)', RootOf(q)' \notin forked', Live(t, RootOf(q))'
                 PROVE  t = handlers'[q].token \/ (handlers'[q].at = "rotate" /\ t = handlers'[q].new)
        BY DEF Covered
    <2>1. CASE q = p
        BY <1>1, <1>3, <1>4, <2>1 DEF Live
    <2>2. CASE q # p
        BY <1>1, <1>4, <2>2 DEF Sessionwise, Covered, Live
    <2> QED BY <2>1, <2>2
<1>9. Single'
    <2> SUFFICES ASSUME NEW x \in Tokens \ forked', \A q \in Procs : Exchanging(q)' => RootOf(q)' # x,
                        NEW t \in Tokens, NEW u \in Tokens, Live(t, x), Live(u, x)
                 PROVE  t = u
        BY <1>7 DEF Single, Live
    <2>1. \A q \in Procs : Exchanging(q) => RootOf(q) # x
        BY <1>1, <1>4 DEF Exchanging
    <2> QED BY <1>1, <2>1 DEF Sessionwise, Single
<1> QED BY <1>5, <1>6, <1>8, <1>9 DEF Sessionwise

\* The successor is stored: the exchange knows both live tokens.
LEMMA CreateSessionwise ==
    ASSUME Typed, Typed', Sessionwise, NEW p \in Procs, Create(p)
    PROVE  Sessionwise'
<1> DEFINE r == tokens[handlers[p].token].root
<1>1. /\ handlers'[p].at = "rotate" /\ handlers'[p].token = handlers[p].token /\ handlers'[p].new = NextToken
      /\ \A q \in Procs \ {p} : handlers'[q] = handlers[q]
      /\ TokenLeft /\ handlers[p].at = "create" /\ UNCHANGED <<file, procs, forked>>
      /\ tokens' = [tokens EXCEPT ![NextToken] = [state |-> "live", root |-> r]]
    BY DEF Create, Answering, Typed, HandlerRecords
<1>2. r \in Tokens /\ handlers[p].token \in Tokens /\ tokens[handlers[p].token].state # "none"
    BY <1>1 DEF Typed, Sessionwise, Held, Issued
<1>3. tokens[r].state # "none"
    BY <1>2 DEF Sessionwise, Held
<1> HIDE DEF r
<1>4. /\ NextToken \in Tokens /\ tokens[NextToken].state = "none" /\ file.token # NextToken
      /\ \A q \in Procs : procs[q].token # NextToken /\ handlers[q].token # NextToken /\ handlers[q].new # NextToken
    BY <1>1, FreshToken
<1>5. /\ Held' /\ Served' /\ \A t \in Tokens : t # NextToken => tokens'[t] = tokens[t]
      /\ tokens'[NextToken] = [state |-> "live", root |-> r]
    BY <1>1, <1>2, <1>3, StoreHeld
<1>6. \A q \in Procs : Exchanging(q)' = Exchanging(q) /\ handlers'[q].token = handlers[q].token
    BY <1>1 DEF Exchanging
<1>7. \A q \in Procs : Exchanging(q) => RootOf(q)' = RootOf(q)
    BY <1>4, <1>5, <1>6 DEF RootOf, Exchanging, Typed
<1>8. \A t \in Tokens : \A x : Live(t, x)' => Live(t, x) \/ (t = NextToken /\ x = r)
    BY <1>5 DEF Live
<1>9. Secret'
    BY <1>1, <1>4, <1>6 DEF Sessionwise, Secret
<1>10. SameRoot'
    <2> SUFFICES ASSUME NEW q \in Procs, handlers'[q].at = "rotate" PROVE tokens'[handlers'[q].new].root = RootOf(q)'
        BY DEF SameRoot
    <2>1. CASE q = p
        BY <1>1, <1>2, <1>4, <1>5, <2>1 DEF RootOf, r
    <2>2. CASE q # p
        <3>1. handlers'[q] = handlers[q] /\ Exchanging(q) /\ handlers[q].new \in Tokens
            BY <1>1, <2>2 DEF Exchanging, Typed
        <3> QED BY <1>4, <1>5, <1>7, <3>1 DEF Sessionwise, SameRoot
    <2> QED BY <2>1, <2>2
<1>11. OneExchange'
    BY <1>1, <1>6, <1>7 DEF Sessionwise, OneExchange
<1>12. Covered'
    <2> SUFFICES ASSUME NEW q \in Procs, NEW t \in Tokens, Exchanging(q), RootOf(q) \notin forked, Live(t, RootOf(q))'
                 PROVE  t = handlers'[q].token \/ (handlers'[q].at = "rotate" /\ t = handlers'[q].new)
        BY <1>1, <1>6, <1>7 DEF Covered
    <2>1. Exchanging(p) /\ RootOf(p) = r
        BY <1>1 DEF Exchanging, RootOf, r
    <2>2. Live(t, RootOf(q)) \/ (t = NextToken /\ q = p)
        <3>1. Live(t, RootOf(q)) \/ (t = NextToken /\ RootOf(q) = r)
            BY <1>5, <1>7 DEF Live
        <3> QED BY <2>1, <3>1 DEF Sessionwise, OneExchange
    <2> QED BY <1>1, <1>4, <2>2 DEF Sessionwise, Covered
<1>13. Single'
    <2> SUFFICES ASSUME NEW x \in Tokens \ forked, \A q \in Procs : Exchanging(q)' => RootOf(q)' # x,
                        NEW t \in Tokens, NEW u \in Tokens, Live(t, x)', Live(u, x)'
                 PROVE  t = u
        BY <1>1 DEF Single, Live
    <2>1. \A q \in Procs : Exchanging(q) => RootOf(q) # x
        BY <1>6, <1>7
    <2>2. x # r
        BY <1>1, <2>1 DEF Exchanging, RootOf, r
    <2> QED BY <1>8, <2>1, <2>2 DEF Sessionwise, Single
<1> QED BY <1>5, <1>9, <1>10, <1>11, <1>12, <1>13 DEF Sessionwise

StillLive(t, r) == tokens'[t].state = "live" /\ tokens'[t].root = r

\* An exchange ends, with at most one live token left, or a fork on record.
LEMMA ExchangeEnds ==
    ASSUME Typed, Typed', Sessionwise, NEW p \in Procs, Exchanging(p), ~Exchanging(p)', forked \subseteq forked',
           UNCHANGED <<file, procs>>, \A q \in Procs \ {p} : handlers'[q] = handlers[q],
           handlers'[p].token \in {NoToken, handlers[p].token}, handlers'[p].new \in {NoToken, handlers[p].new},
           \A t \in Tokens : /\ tokens'[t].root = tokens[t].root
                             /\ (tokens[t].state # "none" => tokens'[t].state # "none")
                             /\ (tokens'[t].state # "none" => tokens[t].state # "none")
                             /\ (tokens'[t].state = "live" => tokens[t].state = "live"),
           RootOf(p) \notin forked' =>
              \A t, u \in Tokens : StillLive(t, RootOf(p)) /\ StillLive(u, RootOf(p)) => t = u
    PROVE  Sessionwise'
<1>1. \A q \in Procs : Exchanging(q)' => q # p /\ Exchanging(q) /\ handlers'[q] = handlers[q] /\ RootOf(q)' = RootOf(q)
    BY DEF Exchanging, RootOf, Typed
<1>2. Served'
    BY DEF Sessionwise, Served, Exchanging
<1>3. Held'
    <2>1. NoToken \notin Tokens
        BY TokenNumbers
    <2>2. \A t \in Tokens : tokens'[t].state # "none" => tokens'[tokens'[t].root].state # "none"
        BY DEF Sessionwise, Held, Typed
    <2> QED BY <2>1, <2>2 DEF Sessionwise, Held, Issued
<1>4. Secret'
    <2>1. \A q \in Procs : handlers'[q].at = "rotate" => q # p /\ handlers'[q] = handlers[q] /\ handlers[q].new \in Tokens
        BY <1>1 DEF Exchanging, Typed
    <2>2. NoToken \notin Tokens
        BY TokenNumbers
    <2> QED BY <2>1, <2>2 DEF Sessionwise, Secret
<1>5. SameRoot'
    <2> SUFFICES ASSUME NEW q \in Procs, handlers'[q].at = "rotate" PROVE tokens'[handlers'[q].new].root = RootOf(q)'
        BY DEF SameRoot
    <2>1. handlers'[q] = handlers[q] /\ RootOf(q)' = RootOf(q) /\ handlers[q].new \in Tokens
        BY <1>1 DEF Exchanging, Typed
    <2> QED BY <2>1 DEF Sessionwise, SameRoot
<1>6. OneExchange'
    BY <1>1 DEF Sessionwise, OneExchange
<1>7. \A t \in Tokens : \A x : Live(t, x)' => Live(t, x)
    BY DEF Live
<1>8. Covered'
    <2> SUFFICES ASSUME NEW q \in Procs, NEW t \in Tokens, Exchanging(q)', RootOf(q)' \notin forked', Live(t, RootOf(q))'
                 PROVE  t = handlers'[q].token \/ (handlers'[q].at = "rotate" /\ t = handlers'[q].new)
        BY DEF Covered
    <2>1. Live(t, RootOf(q))
        BY <1>1 DEF Live
    <2> QED BY <1>1, <2>1 DEF Sessionwise, Covered
<1>9. Single'
    <2> SUFFICES ASSUME NEW x \in Tokens \ forked', \A q \in Procs : Exchanging(q)' => RootOf(q)' # x,
                        NEW t \in Tokens, NEW u \in Tokens, Live(t, x)', Live(u, x)'
                 PROVE  t = u
        BY DEF Single, Live
    <2>1. CASE x = RootOf(p)
        BY <2>1 DEF Live, StillLive
    <2>2. CASE x # RootOf(p)
        <3>1. ASSUME NEW q \in Procs, Exchanging(q) PROVE RootOf(q) # x
            <4>1. CASE q = p
                BY <2>2, <4>1
            <4>2. CASE q # p
                <5>1. Exchanging(q)' /\ RootOf(q)' = RootOf(q)
                    BY <3>1, <4>2 DEF Exchanging, RootOf, Typed
                <5> QED BY <5>1
            <4> QED BY <4>1, <4>2
        <3> QED BY <1>7, <3>1 DEF Sessionwise, Single
    <2> QED BY <2>1, <2>2
<1> QED BY <1>2, <1>3, <1>4, <1>5, <1>6, <1>8, <1>9 DEF Sessionwise

\* Rotation leaves the new token as the live one.
LEMMA RotateSessionwise ==
    ASSUME Typed, Typed', Sessionwise, NEW p \in Procs, Rotate(p)
    PROVE  Sessionwise'
<1>1. /\ handlers'[p].at = "reply" /\ handlers'[p].token = handlers[p].token /\ handlers'[p].new = handlers[p].new
      /\ \A q \in Procs \ {p} : handlers'[q] = handlers[q]
      /\ handlers[p].at = "rotate" /\ UNCHANGED <<file, procs, forked>>
    BY DEF Rotate, Answering, Typed, HandlerRecords
<1>2. Exchanging(p) /\ ~Exchanging(p)' /\ handlers[p].token \in Tokens /\ tokens[handlers[p].token].state # "none"
    BY <1>1 DEF Exchanging, Typed, Sessionwise, Held, Issued
<1>3. /\ tokens'[handlers[p].token].state = "revoked" /\ tokens'[handlers[p].token].root = tokens[handlers[p].token].root
      /\ \A t \in Tokens : t # handlers[p].token => tokens'[t] = tokens[t]
    BY <1>2 DEF Rotate, Revoked, Typed, TokenRecords
<1>4. \A t \in Tokens : /\ tokens'[t].root = tokens[t].root
                        /\ (tokens[t].state # "none" => tokens'[t].state # "none")
                        /\ (tokens'[t].state # "none" => tokens[t].state # "none")
                        /\ (tokens'[t].state = "live" => tokens[t].state = "live")
    BY <1>2, <1>3
<1>6. ASSUME RootOf(p) \notin forked, NEW t \in Tokens, StillLive(t, RootOf(p)) PROVE t = handlers[p].new
    <2>1. Live(t, RootOf(p)) /\ t # handlers[p].token
        BY <1>3, <1>4, <1>6 DEF Live, StillLive
    <2> QED BY <1>2, <1>6, <2>1 DEF Sessionwise, Covered
<1> QED BY <1>1, <1>2, <1>4, <1>6, ExchangeEnds

\* An exchange cut off halfway is remembered.
LEMMA CancelSessionwise ==
    ASSUME Typed, Typed', Sessionwise, NEW p \in Procs, Cancel(p), Exchanging(p)
    PROVE  Sessionwise'
<1>1. /\ handlers'[p] = NoHandler /\ \A q \in Procs \ {p} : handlers'[q] = handlers[q]
      /\ UNCHANGED <<tokens, file, procs>> /\ forked \subseteq forked'
      /\ handlers[p].at = "rotate" => RootOf(p) \in forked'
    BY DEF Cancel, Answering, Typed, RootOf
<1>2. handlers'[p].at = "none" /\ handlers'[p].token = NoToken /\ handlers'[p].new = NoToken
    BY <1>1 DEF NoHandler
<1>3. ~Exchanging(p)'
    BY <1>2 DEF Exchanging
<1>4. ASSUME RootOf(p) \notin forked', NEW t \in Tokens, Live(t, RootOf(p)) PROVE t = handlers[p].token
    BY <1>1, <1>4 DEF Sessionwise, Covered
<1>5. ASSUME RootOf(p) \notin forked', NEW t \in Tokens, StillLive(t, RootOf(p)) PROVE t = handlers[p].token
    BY <1>1, <1>4, <1>5 DEF Live, StillLive
<1> QED BY <1>1, <1>2, <1>3, <1>5, ExchangeEnds

\* Expiry only takes live tokens away.
LEMMA ExpireSessionwise ==
    ASSUME Typed, Typed', Sessionwise, NEW e \in Tokens, ExpireRefresh(e)
    PROVE  Sessionwise'
<1>1. UNCHANGED <<file, procs, handlers, forked>>
    BY DEF ExpireRefresh
<1>2. \A t \in Tokens : /\ tokens'[t].root = tokens[t].root
                        /\ (tokens[t].state # "none" => tokens'[t].state # "none")
                        /\ (tokens'[t].state # "none" => tokens[t].state # "none")
                        /\ (tokens'[t].state = "live" => tokens[t].state = "live")
    BY DEF ExpireRefresh, Typed, TokenRecords
<1>3. Served' /\ Secret'
    BY <1>1 DEF Sessionwise, Served, Secret
<1>4. Held'
    <2>1. \A t \in Tokens : tokens'[t].state # "none" => tokens'[tokens'[t].root].state # "none"
        BY <1>2 DEF Sessionwise, Held, Typed
    <2> QED BY <1>1, <1>2, <2>1 DEF Sessionwise, Held, Issued
<1>5. \A p \in Procs : Exchanging(p)' = Exchanging(p) /\ (Exchanging(p) => RootOf(p)' = RootOf(p))
    BY <1>1, <1>2 DEF Exchanging, RootOf, Typed
<1>6. SameRoot'
    BY <1>1, <1>2, <1>5 DEF Sessionwise, SameRoot, Exchanging, Typed
<1>7. OneExchange'
    BY <1>1, <1>5 DEF Sessionwise, OneExchange
<1>8. Covered'
    <2> SUFFICES ASSUME NEW p \in Procs, NEW t \in Tokens, Exchanging(p), RootOf(p) \notin forked, Live(t, RootOf(p))'
                 PROVE  t = handlers[p].token \/ (handlers[p].at = "rotate" /\ t = handlers[p].new)
        BY <1>1, <1>5 DEF Covered
    <2>1. Live(t, RootOf(p))
        BY <1>2, <1>5 DEF Live
    <2> QED BY <2>1 DEF Sessionwise, Covered
<1>9. Single'
    <2> SUFFICES ASSUME NEW x \in Tokens \ forked, \A q \in Procs : Exchanging(q)' => RootOf(q)' # x,
                        NEW t \in Tokens, NEW u \in Tokens, Live(t, x)', Live(u, x)'
                 PROVE  t = u
        BY <1>1 DEF Single, Live
    <2>1. Live(t, x) /\ Live(u, x) /\ \A q \in Procs : Exchanging(q) => RootOf(q) # x
        BY <1>2, <1>5 DEF Live
    <2> QED BY <2>1 DEF Sessionwise, Single
<1> QED BY <1>3, <1>4, <1>6, <1>7, <1>8, <1>9 DEF Sessionwise

\* Every step keeps what is known of the sessions.
LEMMA StepSessionwise ==
    ASSUME Typed, Sessionwise, [Next]_vars
    PROVE  Sessionwise'
<1>0. Typed'
    BY StepTypes
<1>1. ASSUME NEW p \in Procs, Client(p) PROVE Sessionwise'
    BY <1>0, <1>1, ClientSessionwise
<1>2. ASSUME NEW p \in Procs, Server(p) PROVE Sessionwise'
    BY <1>0, <1>2, HandlerSessionwise, IssueSessionwise, CheckSessionwise, CreateSessionwise, RotateSessionwise,
       CancelSessionwise DEF Server, Exchanging
<1>3. ASSUME NEW t \in Tokens, ExpireAccess(t) PROVE Sessionwise'
    BY <1>3, UntouchedSessionwise DEF ExpireAccess
<1>4. CASE UNCHANGED vars
    BY <1>4, UntouchedSessionwise DEF vars
<1> QED BY <1>0, <1>1, <1>2, <1>3, <1>4, ExpireSessionwise DEF Next

\* There is no session yet.
LEMMA InitSessionwise == Init => Sessionwise
<1> SUFFICES ASSUME Init PROVE Sessionwise
    OBVIOUS
<1>1. /\ \A p \in Procs : /\ handlers[p].at = "none" /\ handlers[p].token = NoToken /\ handlers[p].new = NoToken
                          /\ procs[p].token = NoToken
      /\ \A t \in Tokens : tokens[t].state = "none"
      /\ file.token = NoToken /\ NoToken \notin Tokens
    BY TokenNumbers DEF Init, Idle, NoHandler
<1> QED BY <1>1 DEF Sessionwise, Served, Held, Issued, Secret, SameRoot, OneExchange, Covered, Single, Exchanging, Live

\* Outside an exchange a session has one live refresh token at most, however
\* many clients share the file and whatever is lost or expires, unless two
\* exchanges of one token overlapped or one was cut off between its statements.
THEOREM LiveTokens == Spec => []OneLiveToken
<1>1. Typed /\ Sessionwise => OneLiveToken
    <2> SUFFICES ASSUME Typed, Sessionwise, NEW r \in Tokens \ forked,
                        \A p \in Procs : ~(handlers[p].at = "rotate" /\ RootOf(p) = r)
                 PROVE  Cardinality({t \in Tokens : tokens[t] = [state |-> "live", root |-> r]}) <= 1
        BY DEF OneLiveToken, RootOf
    <2> DEFINE S == {t \in Tokens : tokens[t] = [state |-> "live", root |-> r]}
    <2>1. \A t \in S : t \in Tokens /\ Live(t, r)
        BY DEF Live
    <2>2. \A t, u \in S : t = u
        <3>1. CASE \E p \in Procs : Exchanging(p) /\ RootOf(p) = r
            <4>1. PICK p \in Procs : Exchanging(p) /\ RootOf(p) = r
                BY <3>1
            <4>2. \A t \in Tokens : Live(t, r) => t = handlers[p].token
                BY <4>1 DEF Sessionwise, Covered
            <4> QED BY <2>1, <4>2
        <3>2. CASE \A p \in Procs : Exchanging(p) => RootOf(p) # r
            BY <2>1, <3>2 DEF Sessionwise, Single
        <3> QED BY <3>1, <3>2
    <2> HIDE DEF S
    <2>3. Cardinality(S) <= 1
        <3>1. CASE S = {}
            BY <3>1, FS_EmptySet
        <3>2. CASE S # {}
            <4>1. PICK t \in S : TRUE
                BY <3>2
            <4>2. S = {t}
                BY <2>2, <4>1
            <4>3. Cardinality({t}) = 1
                BY FS_Singleton
            <4>4. Cardinality(S) = 1
                BY <4>2, <4>3
            <4> QED BY <4>4
        <3> QED BY <3>1, <3>2
    <2> QED BY <2>3 DEF S
<1> QED BY <1>1, InitTypes, StepTypes, InitSessionwise, StepSessionwise, PTL DEF Spec

-----------------------------------------------------------------------------
(* Commands that neither overlap nor fail.  There is then one process at   *)
(* most, and what the file, the process and its handler hold follows from  *)
(* where the process is.                                                   *)

Smooth == causes \cap {"overlap", "fault"} = {}

Alone == "overlap" \notin causes => \A p, q \in Procs : Active(p) /\ Active(q) => p = q
Solo(p) == \A q \in Procs \ {p} : ~Active(q)

\* A handler works for a process that waits for it.
Handled(p) ==
    /\ handlers[p].at \in {"check", "create", "rotate"} => procs[p].at = "refreshing"
    /\ handlers[p].at \in {"login", "signup", "issue"} => procs[p].at = "auth"
    /\ handlers[p].at = "reply" => procs[p].at \in {"refreshing", "auth"}
    /\ procs[p].at = "refreshing" => handlers[p].at \in {"check", "create", "rotate", "reply"}
    /\ procs[p].at = "auth" => handlers[p].at \in {"login", "signup", "issue", "reply"}

\* Which tokens it holds: they can be exchanged, and one just received can be used.
Good(t) == t \in Tokens => tokens[t].state = "live"
TokenOf(p) ==
    /\ procs[p].at \in {"idle", "request", "answered", "retry", "auth"} => Good(file.token)
    /\ procs[p].at \in {"request", "answered", "retry"} => procs[p].token = file.token
    /\ procs[p].at \in {"storing", "stored", "saving", "writing"} => Good(procs[p].token)
    /\ procs[p].at \in {"storing", "stored", "retry"} => procs[p].token \notin expired
    /\ handlers[p].at \in {"check", "create", "rotate"} =>
          Good(file.token) /\ procs[p].token = file.token /\ handlers[p].token = file.token
    /\ handlers[p].at \in {"rotate", "reply"} => Good(handlers[p].new) /\ handlers[p].new \notin expired

Fit(p) ==
    /\ Handled(p)
    /\ "expiry" \notin causes => TokenOf(p) /\ ~refused

\* What is left when every command has ended.
AtRest ==
    /\ "expiry" \notin causes => Good(file.token) /\ ~refused

\* Only tokens that were issued expire.
ExpiredIssued == \A t \in expired : tokens[t].state # "none"

Undisturbed ==
    /\ Alone /\ ExpiredIssued
    /\ Smooth => \A p \in Procs : Solo(p) => Fit(p)
    /\ Smooth /\ AllIdle => AtRest

\* The fields of a process that becomes something else.
LEMMA BecomeFields ==
    ASSUME Typed, NEW p \in Procs, NEW proc, Become(p, proc)
    PROVE  procs'[p] = proc /\ \A q \in Procs \ {p} : procs'[q] = procs[q]
BY DEF Typed, Become

\* A step of a process leaves the others alone, and the history only grows.
LEMMA OthersKept ==
    ASSUME Typed, NEW p \in Procs, Client(p) \/ Server(p)
    PROVE  /\ causes \subseteq causes'
           /\ \A q \in Procs \ {p} : procs'[q] = procs[q] /\ handlers'[q] = handlers[q]
           /\ ~Active(p) => Loads(p)
<1>1. ASSUME NEW proc, Become(p, proc) PROVE \A q \in Procs \ {p} : procs'[q] = procs[q]
    BY <1>1, BecomeFields
<1>2. ASSUME NEW h, Answering(p, h) PROVE \A q \in Procs \ {p} : handlers'[q] = handlers[q]
    BY <1>2 DEF Answering, Typed
<1>3. ASSUME NEW how, End(p, how) PROVE \A q \in Procs \ {p} : procs'[q] = procs[q]
    BY <1>1, <1>3 DEF End
<1>4. CASE Client(p)
    <2>1. ASSUME NEW cmd \in {"plain", "deploy", "delete"}, Start(p, cmd)
          PROVE  /\ causes \subseteq causes' /\ Loads(p)
                 /\ \A q \in Procs \ {p} : procs'[q] = procs[q] /\ handlers'[q] = handlers[q]
        <3>1. \A q \in Procs \ {p} : procs'[q] = procs[q]
            BY <1>1, <2>1 DEF Start
        <3> QED BY <2>1, <3>1 DEF Start, Loads
    <2>2. ASSUME NEW cmd \in {"login", "signup"}, StartAuth(p, cmd)
          PROVE  /\ causes \subseteq causes' /\ Loads(p)
                 /\ \A q \in Procs \ {p} : procs'[q] = procs[q] /\ handlers'[q] = handlers[q]
        <3>1. \A q \in Procs \ {p} : procs'[q] = procs[q]
            BY <1>1, <2>2 DEF StartAuth
        <3>2. \A q \in Procs \ {p} : handlers'[q] = handlers[q]
            BY <2>2, <1>2 DEF StartAuth, Answering
        <3> QED BY <2>2, <3>1, <3>2 DEF StartAuth, Loads
    <2>3. CASE Send(p) \/ Truncate(p)
        BY <1>1, <2>3 DEF Send, Truncate, Active
    <2>4. CASE Refused(p)
        <3>1. \A q \in Procs \ {p} : handlers'[q] = handlers[q]
            BY <2>4 DEF Refused, Typed
        <3> QED BY <1>1, <1>3, <2>4, <3>1 DEF Refused, Active
    <2>5. CASE Answered(p) \/ Written(p) \/ SaveFails(p)
        BY <1>1, <1>3, <2>5 DEF Answered, Written, SaveFails, Fault, Active
    <2>6. CASE Lost(p) \/ Kill(p)
        BY <1>3, <2>6 DEF Lost, AfterLost, Kill, Fault, Active
    <2> QED BY <1>4, <2>1, <2>2, <2>3, <2>4, <2>5, <2>6 DEF Client
<1>5. CASE Server(p)
    <2>1. CASE SignUp(p) \/ LogIn(p)
        BY <1>2, <1>3, <2>1 DEF SignUp, LogIn, GoesOn, Active
    <2>2. CASE Issue(p) \/ Create(p) \/ Rotate(p) \/ Cancel(p)
        BY <1>2, <2>2 DEF Issue, Create, Rotate, Cancel, Active
    <2>3. CASE Check(p)
        BY <1>2, <1>3, <2>3 DEF Check, Active
    <2>4. CASE Reply(p)
        BY <1>1, <1>2, <2>4 DEF Reply, Active
    <2> QED BY <1>5, <2>1, <2>2, <2>3, <2>4 DEF Server
<1> QED BY <1>4, <1>5

\* Until two commands overlap, the process that takes a step is the only one.
LEMMA OnlyOne ==
    ASSUME Typed, Alone, NEW p \in Procs, Client(p) \/ Server(p), "overlap" \notin causes'
    PROVE  Solo(p) /\ Solo(p)'
<1>1. /\ "overlap" \notin causes
      /\ \A q \in Procs \ {p} : procs'[q] = procs[q] /\ handlers'[q] = handlers[q]
    BY OthersKept
<1>2. Solo(p)
    <2>1. CASE Active(p)
        BY <1>1, <2>1 DEF Alone, Solo
    <2>2. CASE ~Active(p)
        BY <1>1, <2>2, OthersKept DEF Loads, Solo
    <2> QED BY <2>1, <2>2
<1>3. Solo(p)'
    BY <1>1, <1>2 DEF Solo, Active
<1> QED BY <1>2, <1>3

\* A command that ends leaves nothing to hold but the file.
LEMMA EndFit ==
    ASSUME Typed, NEW p \in Procs, NEW how, End(p, how), handlers'[p].at = "none",
           "expiry" \notin causes' => Good(file.token)' /\ ~refused /\ how # "unauthorized"
    PROVE  Fit(p)'
<1>1. procs'[p].at = "idle"
    BY BecomeFields DEF End, Idle
<1>2. Handled(p)'
    BY <1>1 DEF Handled
<1>4. "expiry" \notin causes' => TokenOf(p)' /\ ~refused'
    BY <1>1 DEF TokenOf, End
<1> QED BY <1>2, <1>4 DEF Fit

\* The steps of a client process whose command meets no other and no fault.
LEMMA ClientFit ==
    ASSUME Typed, Typed', NEW p \in Procs, Client(p), Smooth', Fit(p)
    PROVE  Fit(p)'
<1>0. procs[p] \in ProcRecords /\ "fault" \notin causes' /\ causes \subseteq causes'
    BY OthersKept DEF Typed, Smooth
<1>h. Handled(p) /\ ("expiry" \notin causes' => TokenOf(p) /\ ~refused)
    BY <1>0 DEF Fit
<1>1. ASSUME NEW cmd \in {"plain", "deploy", "delete"}, Start(p, cmd) PROVE Fit(p)'
    <2>1. /\ procs[p].at = "idle" /\ handlers[p].at = "none"
          /\ UNCHANGED <<apps, file, tokens, expired, refused, handlers>>
        BY <1>1 DEF Start, Loads, Active
    <2>2. /\ procs'[p].at = "request" /\ procs'[p].cmd = cmd /\ procs'[p].token = file.token
        BY <1>1, BecomeFields DEF Start
    <2>3. Handled(p)'
        BY <2>1, <2>2 DEF Handled
    <2>5. "expiry" \notin causes' => TokenOf(p)' /\ ~refused'
        BY <1>h, <2>1, <2>2 DEF TokenOf, Good
    <2> QED BY <2>3, <2>5 DEF Fit
<1>2. ASSUME NEW cmd \in {"login", "signup"}, StartAuth(p, cmd) PROVE Fit(p)'
    <2>1. /\ procs[p].at = "idle" /\ UNCHANGED <<apps, file, tokens, expired, refused>>
        BY <1>2 DEF StartAuth, Loads, Active
    <2>2. procs'[p].at = "auth" /\ handlers'[p].at = cmd
        <3>1. procs'[p].at = "auth"
            <4>1. procs'[p] = [Idle EXCEPT !.at = "auth", !.cmd = cmd, !.token = file.token, !.app = file.app]
                BY <1>2, BecomeFields DEF StartAuth
            <4> QED BY <4>1 DEF Idle
        <3>2. handlers'[p].at = cmd
            BY <1>2, IdleTypes DEF StartAuth, Typed, HandlerRecords, NoHandler
        <3> QED BY <3>1, <3>2
    <2>3. Handled(p)'
        BY <2>2 DEF Handled
    <2>5. "expiry" \notin causes' => TokenOf(p)' /\ ~refused'
        BY <1>h, <2>1, <2>2 DEF TokenOf, Good
    <2> QED BY <2>3, <2>5 DEF Fit
<1>3. CASE Send(p)
    <2>1. /\ procs[p].at \in {"request", "retry"} /\ UNCHANGED <<file, tokens, expired, refused, handlers>>
        BY <1>3 DEF Send
    <2>2. /\ procs'[p].at = "answered" /\ procs'[p].cmd = procs[p].cmd /\ procs'[p].step = procs[p].step
          /\ procs'[p].token = procs[p].token /\ procs'[p].reply = Answer(procs[p])
        <3> DEFINE reply == Answer(procs[p])
                   id == IF Remembers(procs[p]) THEN NextApp ELSE procs[p].app
        <3>1. procs'[p] = [procs[p] EXCEPT !.at = "answered", !.reply = reply, !.app = id]
            BY <1>0, <1>3, BecomeFields DEF Send, AnyProc, ProcRecords
        <3> HIDE DEF reply, id
        <3>2. /\ procs'[p].at = "answered" /\ procs'[p].cmd = procs[p].cmd /\ procs'[p].step = procs[p].step
              /\ procs'[p].token = procs[p].token /\ procs'[p].reply = reply
            BY <1>0, <3>1 DEF AnyProc, ProcRecords
        <3> QED BY <3>2 DEF reply
    <2>3. Handled(p)'
        BY <1>h, <2>1, <2>2 DEF Handled
    <2>5. "expiry" \notin causes' => TokenOf(p)' /\ ~refused'
        BY <1>h, <2>1, <2>2 DEF TokenOf, Good, Handled
    <2> QED BY <2>3, <2>5 DEF Fit
<1>4. CASE Refused(p)
    <2>1. UNCHANGED <<file, tokens, expired, causes>> /\ procs[p].token \in expired
        BY <1>4 DEF Refused
    <2>2. CASE procs[p].at = "request"
        <3>1. /\ procs'[p].at = "refreshing" /\ procs'[p].cmd = procs[p].cmd /\ procs'[p].step = procs[p].step
              /\ procs'[p].token = procs[p].token /\ UNCHANGED refused
            BY <1>0, <1>4, <2>2, BecomeFields DEF Refused, AnyProc, ProcRecords
        <3>2. handlers'[p].at = "check" /\ handlers'[p].token = procs[p].token
            BY <1>4, <2>2 DEF Refused, Typed
        <3>3. Handled(p)'
            BY <3>1, <3>2 DEF Handled
        <3>5. "expiry" \notin causes' => TokenOf(p)' /\ ~refused'
            BY <1>h, <2>1, <2>2, <3>1, <3>2 DEF TokenOf, Good
        <3> QED BY <3>3, <3>5 DEF Fit
    <2>3. CASE procs[p].at = "retry"
        <3>1. "expiry" \in causes'
            BY <1>h, <2>1, <2>3 DEF TokenOf
        <3>2. handlers'[p].at = "none" /\ End(p, "unauthorized")
            BY <1>4, <1>h, <2>3 DEF Refused, Handled, Typed, HandlerRecords
        <3> QED BY <3>1, <3>2, EndFit
    <2> QED BY <1>4, <2>2, <2>3 DEF Refused
<1>5. CASE Answered(p)
    <2>1. UNCHANGED <<file, tokens, expired, handlers, causes>> /\ procs[p].at = "answered"
        BY <1>5 DEF Answered
    <2>2. handlers[p].at = "none"
        BY <1>h, <2>1 DEF Handled, Typed, HandlerRecords
    <2>3. "expiry" \notin causes' => Good(file.token)' /\ ~refused /\ procs[p].token = file.token
        BY <1>h, <2>1 DEF TokenOf, Good
    <2>4. CASE /\ End(p, "failed") \/ End(p, "ok")
               /\ procs[p].reply = "error" \/ ~(Remembers(procs[p]) \/ Forgets(procs[p]))
        <3> QED BY <2>1, <2>2, <2>3, <2>4, EndFit
    <2>5. CASE /\ procs[p].reply # "error" /\ (Remembers(procs[p]) \/ Forgets(procs[p])) /\ UNCHANGED refused
               /\ Become(p, [procs[p] EXCEPT !.at = "saving", !.app = IF Remembers(procs[p]) THEN @ ELSE NoApp])
        <3>1. procs'[p].at = "saving" /\ procs'[p].token = procs[p].token
            <4> DEFINE known == IF Remembers(procs[p]) THEN procs[p].app ELSE NoApp
            <4>1. procs'[p] = [procs[p] EXCEPT !.at = "saving", !.app = known]
                BY <1>0, <2>5, BecomeFields DEF AnyProc, ProcRecords
            <4> HIDE DEF known
            <4>2. procs'[p].at = "saving" /\ procs'[p].token = procs[p].token
                BY <1>0, <4>1 DEF AnyProc, ProcRecords
            <4> QED BY <4>2 DEF known
        <3>2. Handled(p)'
            BY <2>1, <2>2, <3>1 DEF Handled
        <3>4. "expiry" \notin causes' => TokenOf(p)' /\ ~refused'
            BY <2>1, <2>2, <2>3, <2>5, <3>1 DEF TokenOf, Good
        <3> QED BY <3>2, <3>4 DEF Fit
    <2> QED BY <1>5, <2>4, <2>5 DEF Answered
<1>6. CASE Truncate(p)
    <2>1. /\ UNCHANGED <<apps, tokens, expired, refused, handlers, causes>>
          /\ procs[p].at \in {"storing", "saving"}
          /\ file'.token = file.token
        BY <1>6 DEF Truncate, Typed, Files
    <2>2. /\ procs'[p].at = IF procs[p].at = "storing" THEN "stored" ELSE "writing"
          /\ procs'[p].cmd = procs[p].cmd /\ procs'[p].step = procs[p].step
          /\ procs'[p].token = procs[p].token
        BY <1>0, <1>6, BecomeFields DEF Truncate, AnyProc, ProcRecords
    <2>3. Handled(p)'
        BY <1>h, <2>1, <2>2 DEF Handled
    <2>5. "expiry" \notin causes' => TokenOf(p)' /\ ~refused'
        BY <1>h, <2>1, <2>2 DEF TokenOf, Good, Handled
    <2> QED BY <2>3, <2>5 DEF Fit
<1>7. CASE Written(p)
    <2>1. /\ UNCHANGED <<apps, tokens, expired, handlers, causes>>
          /\ procs[p].at \in {"stored", "writing"}
          /\ file'.token = procs[p].token
        BY <1>7 DEF Written, Save
    <2>2. handlers[p].at = "none"
        BY <1>h, <2>1 DEF Handled, Typed, HandlerRecords
    <2>4. "expiry" \notin causes' => Good(file.token)' /\ ~refused
        BY <1>h, <2>1 DEF TokenOf, Good
    <2>5. CASE procs[p].at = "stored" /\ Become(p, [procs[p] EXCEPT !.at = "retry"]) /\ UNCHANGED refused
        <3>1. /\ procs'[p].at = "retry" /\ procs'[p].cmd = procs[p].cmd /\ procs'[p].step = procs[p].step
              /\ procs'[p].token = procs[p].token
            BY <1>0, <2>5, BecomeFields DEF AnyProc, ProcRecords
        <3>2. Handled(p)'
            BY <2>1, <2>2, <3>1 DEF Handled
        <3>4. "expiry" \notin causes' => TokenOf(p)' /\ ~refused'
            BY <1>h, <2>1, <2>2, <2>4, <2>5, <3>1 DEF TokenOf
        <3> QED BY <3>2, <3>4 DEF Fit
    <2>6. CASE /\ procs[p].at = "writing" /\ procs[p].cmd = "deploy" /\ UNCHANGED refused
               /\ Become(p, [procs[p] EXCEPT !.at = "request", !.step = "run"])
        <3>1. /\ procs'[p].at = "request" /\ procs'[p].cmd = "deploy" /\ procs'[p].step = "run"
              /\ procs'[p].token = procs[p].token
            <4>1. procs'[p] = [procs[p] EXCEPT !.at = "request", !.step = "run"]
                BY <2>6, BecomeFields
            <4> QED BY <1>0, <2>6, <4>1 DEF AnyProc, ProcRecords
        <3>2. Handled(p)'
            BY <2>1, <2>2, <3>1 DEF Handled
        <3>4. "expiry" \notin causes' => TokenOf(p)' /\ ~refused'
            BY <2>1, <2>2, <2>4, <2>6, <3>1 DEF TokenOf
        <3> QED BY <3>2, <3>4 DEF Fit
    <2>7. CASE End(p, "ok")
        BY <2>1, <2>2, <2>4, <2>7, EndFit
    <2> QED BY <1>7, <2>1, <2>5, <2>6, <2>7 DEF Written
<1>8. ~Lost(p) /\ ~SaveFails(p) /\ ~Kill(p)
    BY <1>0 DEF Lost, SaveFails, Kill, Fault
<1> QED BY <1>1, <1>2, <1>3, <1>4, <1>5, <1>6, <1>7, <1>8 DEF Client

\* The steps of the apiserver for a process whose command meets no other and no fault.
LEMMA ServerFit ==
    ASSUME Typed, Typed', Sessionwise, ExpiredIssued, NEW p \in Procs, Server(p), Smooth', Fit(p)
    PROVE  Fit(p)'
<1>0. procs[p] \in ProcRecords /\ handlers[p] \in HandlerRecords /\ causes \subseteq causes'
    BY OthersKept DEF Typed
<1>h. Handled(p) /\ ("expiry" \notin causes' => TokenOf(p) /\ ~refused)
    BY <1>0 DEF Fit
<1>a. ASSUME NEW h, Answering(p, h) PROVE handlers'[p] = h
    BY <1>a DEF Answering, Typed
<1>n. NoHandler.at = "none"
    BY DEF NoHandler
<1>1. CASE SignUp(p) \/ LogIn(p)
    <2>1. /\ handlers[p].at \in {"signup", "login"} /\ procs[p].at = "auth" /\ Waiting(p)
          /\ UNCHANGED <<apps, tokens, expired, file, causes>>
        BY <1>1, <1>h DEF SignUp, LogIn, Handled, Waiting
    <2>2. CASE Answering(p, [handlers[p] EXCEPT !.at = "issue"]) /\ UNCHANGED <<procs, refused>>
        <3>1. handlers'[p].at = "issue"
            BY <1>0, <1>a, <2>2 DEF HandlerRecords
        <3>2. Handled(p)'
            BY <2>1, <2>2, <3>1 DEF Handled
        <3>4. "expiry" \notin causes' => TokenOf(p)' /\ ~refused'
            BY <1>h, <2>1, <2>2, <3>1 DEF TokenOf, Good
        <3> QED BY <3>2, <3>4 DEF Fit
    <2>3. CASE Answering(p, NoHandler) /\ End(p, "failed")
        <3>1. handlers'[p].at = "none"
            BY <1>a, <1>n, <2>3
        <3>3. "expiry" \notin causes' => Good(file.token)' /\ ~refused
            BY <1>h, <2>1 DEF TokenOf, Good
        <3> QED BY <2>3, <3>1, <3>3, EndFit
    <2> QED BY <1>1, <2>1, <2>2, <2>3 DEF SignUp, LogIn, GoesOn
<1>2. CASE Issue(p) \/ Create(p)
    <2>1. /\ handlers[p].at \in {"issue", "create"} /\ UNCHANGED <<apps, expired, file, causes, procs, refused>>
          /\ TokenLeft /\ \E r : tokens' = [tokens EXCEPT ![NextToken] = [state |-> "live", root |-> r]]
        BY <1>2 DEF Issue, Create
    <2>2. NextToken \in Tokens /\ NextToken \notin expired
        BY <2>1, NextTokenFresh DEF ExpiredIssued
    <2> DEFINE new == NextToken
    <2>3. /\ handlers'[p].new = new /\ handlers'[p].token = handlers[p].token
          /\ handlers'[p].at = IF handlers[p].at = "issue" THEN "reply" ELSE "rotate"
        <3>1. \/ handlers[p].at = "issue" /\ handlers'[p] = [handlers[p] EXCEPT !.at = "reply", !.new = new]
              \/ handlers[p].at = "create" /\ handlers'[p] = [handlers[p] EXCEPT !.at = "rotate", !.new = new]
            BY <1>2, <1>a DEF Issue, Create
        <3> HIDE DEF new
        <3> QED BY <1>0, <3>1 DEF HandlerRecords
    <2>4. /\ new \in Tokens /\ new \notin expired /\ tokens'[new].state = "live"
          /\ \A t \in Tokens : t # new => tokens'[t] = tokens[t]
        BY <2>1, <2>2 DEF Typed
    <2> HIDE DEF new
    <2>5. Handled(p)'
        BY <1>h, <2>1, <2>3 DEF Handled
    <2>7. "expiry" \notin causes' => TokenOf(p)' /\ ~refused'
        <3>1. \A t \in Tokens : tokens[t].state = "live" => tokens'[t].state = "live"
            BY <2>4
        <3> QED BY <1>h, <2>1, <2>3, <2>4, <3>1 DEF TokenOf, Good, Handled
    <2> QED BY <2>5, <2>7 DEF Fit
<1>3. CASE Check(p)
    <2>1. /\ handlers[p].at = "check" /\ procs[p].at = "refreshing" /\ Waiting(p) /\ handlers[p].token \in Tokens
          /\ UNCHANGED <<apps, tokens, expired, file, causes>>
        BY <1>3, <1>h DEF Check, Handled, Waiting, Typed
    <2>2. CASE Redeemable(handlers[p].token)
        <3>0. UNCHANGED <<procs, refused>> /\ handlers'[p] = [handlers[p] EXCEPT !.at = "create"]
            BY <1>3, <1>a, <2>2 DEF Check
        <3>1. handlers'[p].at = "create" /\ handlers'[p].token = handlers[p].token
            BY <1>0, <3>0 DEF HandlerRecords
        <3>2. Handled(p)'
            BY <2>1, <3>0, <3>1 DEF Handled
        <3>4. "expiry" \notin causes' => TokenOf(p)' /\ ~refused'
            BY <1>h, <2>1, <3>0, <3>1 DEF TokenOf, Good
        <3> QED BY <3>2, <3>4 DEF Fit
    <2>3. CASE ~Redeemable(handlers[p].token)
        <3>1. handlers'[p].at = "none" /\ End(p, "unauthorized")
            BY <1>3, <1>a, <1>n, <2>1, <2>3 DEF Check
        <3>3. "expiry" \in causes'
            BY <1>h, <2>1, <2>3 DEF TokenOf, Good, Redeemable
        <3> QED BY <3>1, <3>3, EndFit
    <2> QED BY <2>2, <2>3
<1>4. CASE Rotate(p)
    <2>1. /\ handlers[p].at = "rotate" /\ procs[p].at = "refreshing" /\ handlers[p].token \in Tokens
          /\ UNCHANGED <<apps, expired, file, causes, procs, refused>>
        BY <1>4, <1>h DEF Rotate, Handled, Typed
    <2>2. /\ handlers'[p].at = "reply" /\ handlers'[p].new = handlers[p].new
        BY <1>0, <1>4, <1>a DEF Rotate, HandlerRecords
    <2>3. handlers[p].new # handlers[p].token
        BY <2>1 DEF Sessionwise, Secret
    <2>4. \A t \in Tokens : t # handlers[p].token => tokens'[t] = tokens[t]
        BY <1>4 DEF Rotate, Revoked, Typed
    <2>5. Handled(p)'
        BY <2>1, <2>2 DEF Handled
    <2>7. "expiry" \notin causes' => TokenOf(p)' /\ ~refused'
        BY <1>h, <2>1, <2>2, <2>3, <2>4 DEF TokenOf, Good
    <2> QED BY <2>5, <2>7 DEF Fit
<1>5. CASE Reply(p)
    <2>1. /\ handlers[p].at = "reply" /\ procs[p].at \in {"refreshing", "auth"} /\ Waiting(p)
          /\ UNCHANGED <<apps, tokens, expired, file, refused>> /\ handlers'[p].at = "none"
        BY <1>5, <1>a, <1>h, <1>n DEF Reply, Handled, Waiting
    <2>2. CASE procs[p].at = "refreshing"
        <3>0. procs'[p] = [procs[p] EXCEPT !.at = "storing", !.token = handlers[p].new] /\ UNCHANGED causes
            BY <1>5, <2>1, <2>2, BecomeFields DEF Reply
        <3>1. /\ procs'[p].at = "storing" /\ procs'[p].cmd = procs[p].cmd /\ procs'[p].step = procs[p].step
              /\ procs'[p].token = handlers[p].new
            BY <1>0, <3>0 DEF AnyProc, ProcRecords
        <3>2. Handled(p)'
            BY <2>1, <3>1 DEF Handled
        <3>4. "expiry" \notin causes' => TokenOf(p)' /\ ~refused'
            BY <1>h, <2>1, <3>1 DEF TokenOf, Good
        <3> QED BY <3>2, <3>4 DEF Fit
    <2>3. CASE procs[p].at = "auth"
        <3>0. procs'[p] = [procs[p] EXCEPT !.at = "saving", !.token = handlers[p].new, !.app = NoApp]
            BY <1>5, <2>1, <2>3, BecomeFields DEF Reply
        <3>1. procs'[p].at = "saving" /\ procs'[p].token = handlers[p].new
            BY <1>0, <3>0 DEF AnyProc, ProcRecords
        <3>2. Handled(p)'
            BY <2>1, <3>1 DEF Handled
        <3>4. "expiry" \notin causes' => TokenOf(p)' /\ ~refused'
            BY <1>h, <2>1, <3>1 DEF TokenOf, Good
        <3> QED BY <3>2, <3>4 DEF Fit
    <2> QED BY <2>1, <2>2, <2>3
<1>6. ~Cancel(p)
    BY <1>0, <1>h DEF Cancel, Handled, Waiting, HandlerRecords
<1> QED BY <1>1, <1>2, <1>3, <1>4, <1>5, <1>6 DEF Server

\* Issued tokens stay issued, and only issued ones expire.
LEMMA ExpiredKept ==
    ASSUME Typed, Sessionwise, ExpiredIssued, [Next]_vars
    PROVE  ExpiredIssued'
<1>1. ASSUME UNCHANGED <<tokens, expired>> PROVE ExpiredIssued'
    BY <1>1 DEF ExpiredIssued
<1>2. ASSUME UNCHANGED expired, \A t \in Tokens : tokens[t].state # "none" => tokens'[t].state # "none"
      PROVE  ExpiredIssued'
    BY <1>2 DEF ExpiredIssued, Typed
<1>3. ASSUME NEW p \in Procs, Client(p) PROVE ExpiredIssued'
    BY <1>1, <1>3 DEF Client, Start, StartAuth, Loads, Send, Refused, Answered, Lost, Truncate, Written, SaveFails, Kill
<1>4. ASSUME NEW p \in Procs, Server(p) PROVE ExpiredIssued'
    <2>1. CASE SignUp(p) \/ LogIn(p) \/ Check(p) \/ Reply(p) \/ Cancel(p)
        BY <1>1, <2>1 DEF SignUp, LogIn, Check, Reply, Cancel
    <2>2. CASE Issue(p) \/ Create(p)
        BY <1>2, <2>2 DEF Issue, Create, Typed
    <2>3. CASE Rotate(p)
        <3>1. \A t \in Tokens : tokens[t].state # "none" => tokens'[t].state # "none"
            BY <2>3 DEF Rotate, Revoked, Typed, TokenRecords
        <3> QED BY <1>2, <2>3, <3>1 DEF Rotate
    <2> QED BY <1>4, <2>1, <2>2, <2>3 DEF Server
<1>5. ASSUME NEW t \in Tokens, ExpireAccess(t) PROVE ExpiredIssued'
    BY <1>5 DEF ExpireAccess, ExpiredIssued
<1>6. ASSUME NEW t \in Tokens, ExpireRefresh(t) PROVE ExpiredIssued'
    <2>1. \A u \in Tokens : tokens[u].state # "none" => tokens'[u].state # "none"
        BY <1>6 DEF ExpireRefresh, Typed, TokenRecords
    <2> QED BY <1>2, <1>6, <2>1 DEF ExpireRefresh
<1>7. CASE UNCHANGED vars
    BY <1>1, <1>7 DEF vars
<1> QED BY <1>3, <1>4, <1>5, <1>6, <1>7 DEF Next

\* When the process that took a step has ended its command, everything is at rest.
LEMMA FitUndisturbed ==
    ASSUME Typed, Undisturbed, ExpiredIssued', NEW p \in Procs, Client(p) \/ Server(p), Smooth' => Fit(p)'
    PROVE  Undisturbed'
<1>1. /\ causes \subseteq causes'
      /\ "overlap" \notin causes' => Solo(p) /\ Solo(p)'
    BY OthersKept, OnlyOne DEF Undisturbed
<1>2. Alone'
    BY <1>1 DEF Alone, Solo
<1>3. ASSUME Smooth', ~Active(p)' PROVE AtRest' /\ \A q \in Procs : Fit(q)'
    <2>1. \A q \in Procs : ~Active(q)'
        BY <1>1, <1>3 DEF Solo, Smooth
    <2>2. \A q \in Procs : procs'[q].at = "idle" /\ handlers'[q].at = "none"
        BY <2>1 DEF Active
    <2>4. "expiry" \notin causes' => Good(file.token)' /\ ~refused'
        BY <1>3, <2>2 DEF Fit, TokenOf
    <2>5. ASSUME NEW q \in Procs PROVE Fit(q)'
        <3>1. Handled(q)'
            BY <2>2 DEF Handled
        <3>3. "expiry" \notin causes' => TokenOf(q)'
            BY <2>2, <2>4 DEF TokenOf
        <3> QED BY <2>4, <3>1, <3>3 DEF Fit
    <2> QED BY <2>4, <2>5 DEF AtRest
<1>4. ASSUME Smooth', NEW q \in Procs, Solo(q)' PROVE Fit(q)'
    <2>1. CASE q = p
        BY <1>4, <2>1
    <2>2. CASE q # p
        BY <1>3, <1>4, <2>2 DEF Solo
    <2> QED BY <2>1, <2>2
<1>5. ASSUME Smooth', AllIdle' PROVE AtRest'
    BY <1>3, <1>5 DEF AllIdle
<1> QED BY <1>2, <1>4, <1>5 DEF Undisturbed

\* Time passes: a process that just received a token still uses it, unless a
\* token reached its expiry and that is on record.
LEMMA ExpiryUndisturbed ==
    ASSUME Typed, Undisturbed, ExpiredIssued', NEW t \in Tokens, ExpireAccess(t) \/ ExpireRefresh(t)
    PROVE  Undisturbed'
<1>1. UNCHANGED <<apps, file, procs, handlers, refused>> /\ causes \subseteq causes'
    BY DEF ExpireAccess, ExpireRefresh
<1>2. /\ \A p \in Procs : Active(p)' = Active(p) /\ Solo(p)' = Solo(p)
      /\ AllIdle' = AllIdle /\ (Smooth' => Smooth)
    BY <1>1 DEF Active, Solo, AllIdle, Smooth
<1>3. Alone'
    BY <1>1, <1>2 DEF Undisturbed, Alone
<1>4. ASSUME "expiry" \notin causes'
      PROVE  /\ UNCHANGED tokens
             /\ \A p \in Procs : /\ procs[p].at \in {"storing", "stored", "retry"} /\ procs[p].token \notin expired =>
                                       procs[p].token \notin expired'
                                 /\ handlers[p].new \notin expired => handlers[p].new \notin expired'
    BY <1>4 DEF ExpireAccess, ExpireRefresh
<1>5. ASSUME Smooth', NEW p \in Procs, Solo(p)' PROVE Fit(p)'
    <2>1. Fit(p)
        BY <1>2, <1>5 DEF Undisturbed
    <2>2. Handled(p)'
        BY <1>1, <2>1 DEF Fit, Handled
    <2>4. "expiry" \notin causes' => TokenOf(p)' /\ ~refused'
        BY <1>1, <1>4, <2>1 DEF Fit, TokenOf, Good
    <2> QED BY <2>2, <2>4 DEF Fit
<1>6. ASSUME Smooth', AllIdle' PROVE AtRest'
    BY <1>1, <1>2, <1>4, <1>6 DEF Undisturbed, AtRest, Good
<1> QED BY <1>3, <1>5, <1>6 DEF Undisturbed

\* Every step keeps it.
LEMMA StepUndisturbed ==
    ASSUME Typed, Sessionwise, Undisturbed, [Next]_vars
    PROVE  Undisturbed'
<1>0. Typed' /\ ExpiredIssued'
    BY StepTypes, ExpiredKept DEF Undisturbed
<1>1. ASSUME NEW p \in Procs, Client(p) \/ Server(p) PROVE Undisturbed'
    <2>1. ASSUME Smooth' PROVE Fit(p)'
        <3>1. Smooth /\ Solo(p)
            BY <1>1, <2>1, OthersKept, OnlyOne DEF Smooth, Undisturbed
        <3>2. Fit(p) /\ ExpiredIssued
            BY <3>1 DEF Undisturbed
        <3> QED BY <1>0, <1>1, <2>1, <3>2, ClientFit, ServerFit
    <2> QED BY <1>0, <1>1, <2>1, FitUndisturbed
<1>2. ASSUME NEW t \in Tokens, ExpireAccess(t) \/ ExpireRefresh(t) PROVE Undisturbed'
    BY <1>0, <1>2, ExpiryUndisturbed
<1>3. CASE UNCHANGED vars
    <2>1. UNCHANGED <<apps, tokens, expired, file, procs, handlers, refused, causes>>
        BY <1>3 DEF vars
    <2> QED BY <2>1 DEF Undisturbed, Alone, ExpiredIssued, Smooth, Solo, Active, AllIdle, AtRest, Good, Fit, Handled,
                        TokenOf
<1> QED BY <1>1, <1>2, <1>3 DEF Next

\* Nobody has signed up.
LEMMA InitUndisturbed == Init => Undisturbed
<1> SUFFICES ASSUME Init PROVE Undisturbed
    OBVIOUS
<1>1. /\ \A p \in Procs : procs[p].at = "idle" /\ handlers[p].at = "none"
      /\ file.token = NoToken /\ NoToken \notin Tokens /\ expired = {} /\ ~refused
    BY TokenNumbers DEF Init, Idle, NoHandler
<1>2. Good(file.token) /\ AtRest
    BY <1>1 DEF Good, AtRest
<1>3. Alone /\ ExpiredIssued
    BY <1>1 DEF Alone, Active, ExpiredIssued
<1>4. ASSUME NEW p \in Procs PROVE Fit(p)
    BY <1>1, <1>2 DEF Fit, Handled, TokenOf
<1> QED BY <1>2, <1>3, <1>4 DEF Undisturbed

\* The invariant of sessions whose commands follow one another.
LEMMA UndisturbedInvariant == Spec => [](Typed /\ Sessionwise /\ Undisturbed)
BY InitTypes, StepTypes, InitSessionwise, StepSessionwise, InitUndisturbed, StepUndisturbed, PTL DEF Spec

\* There is a process that is alone, or nobody is active.
LEMMA SomebodyAlone ==
    ASSUME Undisturbed, Smooth
    PROVE  AllIdle \/ \E p \in Procs : Solo(p)
BY DEF Undisturbed, Alone, Smooth, AllIdle, Solo

\* A user whose commands run one after the other, without a fault and within the
\* life of the refresh token, is never told to log in again: do saves each
\* exchanged token before the next command loads the file.
THEOREM NoNeedlessRelogin == Spec => []ReloginOnlyForCause
<1>1. Undisturbed => ReloginOnlyForCause
    <2> SUFFICES ASSUME Undisturbed, causes \cap {"overlap", "fault", "expiry"} = {} PROVE ~refused
        BY DEF ReloginOnlyForCause
    <2>1. Smooth /\ "expiry" \notin causes
        BY DEF Smooth
    <2> QED BY <2>1, SomebodyAlone DEF Undisturbed, AtRest, Fit
<1> QED BY <1>1, UndisturbedInvariant, PTL

-----------------------------------------------------------------------------
(* Applications.  Commands that do not overlap may still fail; what the    *)
(* file and the process know of the application follows from where the     *)
(* process is until a fault strikes before a create or delete is saved.    *)

Only(a) == {a} \ {NoApp}

\* What the only process knows of the application.
AppOf(p) ==
    /\ procs[p].at \in Untried => LiveApps = Only(file.app)
    /\ procs[p].at \in Untried \ {"idle", "auth"} =>
          /\ procs[p].app = file.app
          /\ procs[p].step = "create" => file.app = NoApp
          /\ procs[p].cmd = "delete" => file.app # NoApp
    /\ procs[p].at = "answered" =>
          IF Remembers(procs[p]) THEN procs[p].reply = "ok" /\ LiveApps = Only(procs[p].app)
          ELSE IF Forgets(procs[p]) THEN procs[p].reply = "ok" /\ LiveApps = {}
          ELSE LiveApps = Only(file.app)
    /\ procs[p].at \in {"saving", "writing"} => LiveApps = Only(procs[p].app)

Settling == causes \cap {"overlap", "unsaved", "login"} = {}

Remembered ==
    /\ Alone
    /\ Settling => \A p \in Procs : Solo(p) => AppOf(p)
    /\ Settling /\ AllIdle => LiveApps = Only(file.app)

\* A command that ends when the file is right leaves it right.
LEMMA EndAppOf ==
    ASSUME Typed, NEW p \in Procs, NEW how, End(p, how), LiveApps' = Only(file'.app)
    PROVE  AppOf(p)'
<1>1. procs'[p].at = "idle"
    BY BecomeFields DEF End, Idle
<1> QED BY <1>1 DEF AppOf, Untried, Only

\* A create adds one application to none, a delete takes the only one away.
LEMMA SendAppOf ==
    ASSUME Typed, NEW p \in Procs, Send(p), AppOf(p)
    PROVE  AppOf(p)'
<1>0. procs[p] \in ProcRecords /\ procs[p].at \in {"request", "retry"} /\ UNCHANGED file
    BY DEF Typed, Send
<1>1. /\ LiveApps = Only(file.app) /\ procs[p].app = file.app
      /\ procs[p].step = "create" => file.app = NoApp
      /\ procs[p].cmd = "delete" => file.app # NoApp
    BY <1>0 DEF AppOf, Untried
<1> DEFINE reply == Answer(procs[p])
           id == IF Remembers(procs[p]) THEN NextApp ELSE procs[p].app
<1>2. procs'[p] = [procs[p] EXCEPT !.at = "answered", !.reply = reply, !.app = id]
    BY <1>0, BecomeFields DEF Send, AnyProc, ProcRecords
<1> HIDE DEF reply, id
<1>3. /\ procs'[p].at = "answered" /\ procs'[p].cmd = procs[p].cmd /\ procs'[p].step = procs[p].step
      /\ procs'[p].reply = reply /\ procs'[p].app = id
    BY <1>0, <1>2 DEF AnyProc, ProcRecords
<1>4. CASE Remembers(procs[p])
    <2>1. NextApp \in Apps /\ NextApp # NoApp /\ LiveApps = {}
        BY <1>1, <1>4, NextAppFresh, AppNumbers DEF Send, Remembers, Only
    <2>2. apps' = [apps EXCEPT ![NextApp] = "live"]
        <3>1. ~Forgets(procs[p])
            BY <1>4 DEF Remembers, Forgets
        <3> QED BY <1>4, <3>1 DEF Send, AppsAfter
    <2>3. LiveApps' = {NextApp}
        BY <2>1, <2>2 DEF LiveApps, Typed
    <2>4. id = NextApp /\ reply = "ok"
        BY <1>4 DEF id, reply, Answer
    <2>5. LiveApps' = Only(NextApp)
        BY <2>1, <2>3 DEF Only
    <2> QED BY <1>3, <1>4, <2>4, <2>5 DEF AppOf, Untried, Remembers, Only
<1>5. CASE Forgets(procs[p])
    <2>1. ~Remembers(procs[p]) /\ procs[p].app \in LiveApps /\ LiveApps = {procs[p].app}
        BY <1>1, <1>5 DEF Remembers, Forgets, Only
    <2>2. apps' = [apps EXCEPT ![procs[p].app] = "deleted"]
        BY <1>5, <2>1 DEF Send, AppsAfter
    <2>3. LiveApps' = {}
        BY <2>1, <2>2 DEF LiveApps, Typed
    <2>4. reply = "ok"
        BY <2>1 DEF reply, Answer
    <2> QED BY <1>3, <1>5, <2>1, <2>3, <2>4 DEF AppOf, Untried, Remembers, Forgets
<1>6. CASE ~Remembers(procs[p]) /\ ~Forgets(procs[p])
    <2>1. apps' = apps
        BY <1>6 DEF Send, AppsAfter
    <2>2. LiveApps' = Only(file'.app)
        BY <1>0, <1>1, <2>1 DEF LiveApps, Only
    <2> QED BY <1>3, <1>6, <2>2 DEF AppOf, Untried, Remembers, Forgets, Only
<1> QED BY <1>4, <1>5, <1>6

\* A process that moves on and keeps what it knows.
LEMMA MoveAppOf ==
    ASSUME Typed, NEW p \in Procs, AppOf(p), UNCHANGED apps, file'.app = file.app,
           procs[p].at \in Untried \ {"idle", "auth"}, procs'[p].at \in Untried \ {"idle", "auth"},
           procs'[p].app = procs[p].app, procs'[p].cmd = procs[p].cmd, procs'[p].step = procs[p].step
    PROVE  AppOf(p)'
BY DEF AppOf, Untried, LiveApps, Only

\* A client process, faults included.
LEMMA ClientAppOf ==
    ASSUME Typed, NEW p \in Procs, Client(p), Settling', AppOf(p)
    PROVE  AppOf(p)'
<1>0. procs[p] \in ProcRecords
    BY DEF Typed
<1>e. ASSUME NEW how, End(p, how), UNCHANGED <<apps, file>>, LiveApps = Only(file.app) PROVE AppOf(p)'
    BY <1>e, EndAppOf DEF LiveApps, Only
<1>1. ASSUME NEW cmd \in {"plain", "deploy", "delete"}, Start(p, cmd) PROVE AppOf(p)'
    <2>1. procs[p].at = "idle" /\ UNCHANGED <<apps, file>> /\ LiveApps = Only(file.app)
        BY <1>1 DEF Start, Loads, Active, AppOf, Untried
    <2>2. /\ procs'[p].at = "request" /\ procs'[p].cmd = cmd /\ procs'[p].app = file.app
          /\ procs'[p].step = "create" => file.app = NoApp
          /\ cmd = "delete" => file.app # NoApp
        BY <1>1, BecomeFields DEF Start
    <2> QED BY <2>1, <2>2 DEF AppOf, Untried, LiveApps, Only
<1>2. ASSUME NEW cmd \in {"login", "signup"}, StartAuth(p, cmd) PROVE AppOf(p)'
    <2>1. procs[p].at = "idle" /\ UNCHANGED <<apps, file>> /\ LiveApps = Only(file.app)
        BY <1>2 DEF StartAuth, Loads, Active, AppOf, Untried
    <2>2. procs'[p].at = "auth"
        <3>1. procs'[p] = [Idle EXCEPT !.at = "auth", !.cmd = cmd, !.token = file.token, !.app = file.app]
            BY <1>2, BecomeFields DEF StartAuth
        <3> QED BY <3>1, IdleTypes DEF AnyProc, ProcRecords
    <2> QED BY <2>1, <2>2 DEF AppOf, Untried, LiveApps, Only
<1>3. CASE Send(p)
    BY <1>3, SendAppOf
<1>4. CASE Refused(p)
    <2>1. procs[p].at \in {"request", "retry"} /\ UNCHANGED <<apps, file>> /\ LiveApps = Only(file.app)
        BY <1>4 DEF Refused, AppOf, Untried
    <2>2. CASE procs[p].at = "request"
        <3>1. procs'[p] = [procs[p] EXCEPT !.at = "refreshing"]
            BY <1>4, <2>2, BecomeFields DEF Refused
        <3>2. /\ procs'[p].at = "refreshing" /\ procs'[p].app = procs[p].app
              /\ procs'[p].cmd = procs[p].cmd /\ procs'[p].step = procs[p].step
            BY <1>0, <3>1 DEF AnyProc, ProcRecords
        <3> QED BY <2>1, <3>2, MoveAppOf DEF Untried
    <2>3. CASE procs[p].at # "request"
        BY <1>4, <1>e, <2>1, <2>3 DEF Refused
    <2> QED BY <2>2, <2>3
<1>5. CASE Answered(p)
    <2>1. procs[p].at = "answered" /\ UNCHANGED <<apps, file>>
        BY <1>5 DEF Answered
    <2>2. CASE Remembers(procs[p]) \/ Forgets(procs[p])
        <3> DEFINE id == IF Remembers(procs[p]) THEN procs[p].app ELSE NoApp
        <3>1. LiveApps = Only(id)
            BY <2>1, <2>2 DEF AppOf, Only
        <3>2. procs[p].reply = "ok"
            BY <2>1, <2>2 DEF AppOf
        <3>3. procs'[p] = [procs[p] EXCEPT !.at = "saving", !.app = id]
            BY <1>0, <1>5, <2>2, <3>2, BecomeFields DEF Answered, AnyProc, ProcRecords
        <3> HIDE DEF id
        <3>4. procs'[p].at = "saving" /\ procs'[p].app = id
            BY <1>0, <3>3 DEF AnyProc, ProcRecords
        <3> QED BY <2>1, <3>1, <3>4 DEF AppOf, Untried, LiveApps, Only
    <2>3. CASE ~Remembers(procs[p]) /\ ~Forgets(procs[p])
        <3>1. LiveApps = Only(file.app)
            BY <2>1, <2>3 DEF AppOf
        <3> QED BY <1>5, <1>e, <2>1, <2>3, <3>1 DEF Answered
    <2> QED BY <2>2, <2>3
<1>6. ASSUME Lost(p) \/ Kill(p) PROVE AppOf(p)'
    <2>1. UNCHANGED <<apps, file>> /\ ~Unsaved(procs[p])
        BY <1>6 DEF Lost, Kill, Fault, Settling
    <2>2. procs[p].at \in Untried \cup {"answered", "saving", "writing"}
        BY <1>0 DEF AnyProc, ProcRecords, Untried
    <2>3. LiveApps = Only(file.app)
        BY <2>1, <2>2 DEF Unsaved, AppOf
    <2>4. PICK how : End(p, how)
        BY <1>6 DEF Lost, AfterLost, Kill
    <2> QED BY <1>e, <2>1, <2>3, <2>4
<1>7. CASE Truncate(p)
    <2>1. procs[p].at \in {"storing", "saving"} /\ UNCHANGED apps /\ file'.app = file.app
        BY <1>7 DEF Truncate, Typed, Files
    <2>2. /\ procs'[p].at = IF procs[p].at = "storing" THEN "stored" ELSE "writing"
          /\ procs'[p].cmd = procs[p].cmd /\ procs'[p].step = procs[p].step /\ procs'[p].app = procs[p].app
        <3> DEFINE at == IF procs[p].at = "storing" THEN "stored" ELSE "writing"
        <3>1. procs'[p] = [procs[p] EXCEPT !.at = at]
            BY <1>0, <1>7, BecomeFields DEF Truncate, AnyProc, ProcRecords
        <3> HIDE DEF at
        <3>2. /\ procs'[p].at = at /\ procs'[p].cmd = procs[p].cmd /\ procs'[p].step = procs[p].step
              /\ procs'[p].app = procs[p].app
            BY <1>0, <3>1 DEF AnyProc, ProcRecords
        <3> QED BY <3>2 DEF at
    <2>3. CASE procs[p].at = "storing"
        BY <2>1, <2>2, <2>3, MoveAppOf DEF Untried
    <2>4. CASE procs[p].at = "saving"
        BY <2>1, <2>2, <2>4 DEF AppOf, Untried, LiveApps, Only
    <2> QED BY <2>1, <2>3, <2>4
<1>8. CASE Written(p)
    <2>1. procs[p].at \in {"stored", "writing"} /\ UNCHANGED apps /\ file'.app = procs[p].app
        BY <1>8 DEF Written, Save
    <2>2. LiveApps = Only(procs[p].app) /\ LiveApps' = Only(file'.app)
        BY <2>1 DEF AppOf, Untried, LiveApps, Only
    <2>3. CASE procs[p].at = "stored"
        <3>1. procs'[p] = [procs[p] EXCEPT !.at = "retry"]
            BY <1>8, <2>3, BecomeFields DEF Written
        <3>2. /\ procs'[p].at = "retry" /\ procs'[p].app = procs[p].app
              /\ procs'[p].cmd = procs[p].cmd /\ procs'[p].step = procs[p].step
            BY <1>0, <3>1 DEF AnyProc, ProcRecords
        <3>3. file'.app = file.app
            BY <2>1, <2>3 DEF AppOf, Untried
        <3> QED BY <2>1, <2>3, <3>2, <3>3, MoveAppOf DEF Untried
    <2>4. CASE procs[p].at = "writing" /\ procs[p].cmd = "deploy"
        <3>1. procs'[p] = [procs[p] EXCEPT !.at = "request", !.step = "run"]
            BY <1>8, <2>4, BecomeFields DEF Written
        <3>2. procs'[p].at = "request" /\ procs'[p].app = procs[p].app /\ procs'[p].cmd = "deploy" /\ procs'[p].step = "run"
            BY <1>0, <2>4, <3>1 DEF AnyProc, ProcRecords
        <3> QED BY <2>1, <2>2, <3>2 DEF AppOf, Untried, Only
    <2>5. CASE procs[p].at = "writing" /\ procs[p].cmd # "deploy"
        BY <1>8, <2>2, <2>5, EndAppOf DEF Written
    <2> QED BY <2>1, <2>3, <2>4, <2>5
<1>9. CASE SaveFails(p)
    <2>1. procs[p].at = "storing" /\ UNCHANGED <<apps, file>>
        BY <1>9 DEF SaveFails, Fault, Settling, Unsaved
    <2>2. procs'[p] = [procs[p] EXCEPT !.at = "retry"]
        BY <1>9, <2>1, BecomeFields DEF SaveFails
    <2>3. /\ procs'[p].at = "retry" /\ procs'[p].app = procs[p].app
          /\ procs'[p].cmd = procs[p].cmd /\ procs'[p].step = procs[p].step
        BY <1>0, <2>2 DEF AnyProc, ProcRecords
    <2> QED BY <2>1, <2>3, MoveAppOf DEF Untried
<1> QED BY <1>1, <1>2, <1>3, <1>4, <1>5, <1>6, <1>7, <1>8, <1>9 DEF Client

\* A handler of the process: a response to a login clears what it knows.
LEMMA ServerAppOf ==
    ASSUME Typed, NEW p \in Procs, Server(p), Settling', AppOf(p)
    PROVE  AppOf(p)'
<1>0. procs[p] \in ProcRecords /\ UNCHANGED <<apps, file>>
    BY DEF Typed, Server, SignUp, LogIn, Issue, Check, Create, Rotate, Reply, Cancel
<1>1. ASSUME UNCHANGED procs PROVE AppOf(p)'
    BY <1>0, <1>1 DEF AppOf, Untried, LiveApps, Only, Remembers, Forgets
<1>2. ASSUME NEW how, End(p, how), Waiting(p) PROVE AppOf(p)'
    <2>1. LiveApps = Only(file.app)
        BY <1>2 DEF Waiting, AppOf, Untried
    <2> QED BY <1>0, <1>2, <2>1, EndAppOf DEF LiveApps, Only
<1>3. CASE SignUp(p) \/ LogIn(p)
    BY <1>1, <1>2, <1>3 DEF SignUp, LogIn, GoesOn
<1>4. CASE Check(p)
    BY <1>1, <1>2, <1>4 DEF Check
<1>5. CASE Issue(p) \/ Create(p) \/ Rotate(p) \/ Cancel(p)
    BY <1>1, <1>5 DEF Issue, Create, Rotate, Cancel
<1>6. CASE Reply(p)
    <2>1. CASE ~Waiting(p)
        BY <1>1, <1>6, <2>1 DEF Reply
    <2>2. CASE procs[p].at = "refreshing"
        <3>1. procs'[p] = [procs[p] EXCEPT !.at = "storing", !.token = handlers[p].new]
            BY <1>6, <2>2, BecomeFields DEF Reply, Waiting
        <3>2. /\ procs'[p].at = "storing" /\ procs'[p].app = procs[p].app
              /\ procs'[p].cmd = procs[p].cmd /\ procs'[p].step = procs[p].step
            BY <1>0, <3>1 DEF AnyProc, ProcRecords
        <3> QED BY <1>0, <2>2, <3>2, MoveAppOf DEF Untried
    <2>3. CASE procs[p].at = "auth"
        <3>1. procs'[p] = [procs[p] EXCEPT !.at = "saving", !.token = handlers[p].new, !.app = NoApp]
            BY <1>6, <2>3, BecomeFields DEF Reply, Waiting
        <3>2. procs'[p].at = "saving" /\ procs'[p].app = NoApp
            BY <1>0, <3>1 DEF AnyProc, ProcRecords
        <3>3. LiveApps = {}
            BY <1>6, <2>3 DEF Reply, Waiting, Settling
        <3> QED BY <1>0, <3>2, <3>3 DEF AppOf, Untried, LiveApps, Only
    <2> QED BY <2>1, <2>2, <2>3 DEF Waiting
<1> QED BY <1>3, <1>4, <1>5, <1>6 DEF Server

\* Every step keeps it.
LEMMA StepRemembered ==
    ASSUME Typed, Remembered, [Next]_vars
    PROVE  Remembered'
<1>1. ASSUME NEW p \in Procs, Client(p) \/ Server(p) PROVE Remembered'
    <2>1. /\ causes \subseteq causes'
          /\ "overlap" \notin causes' => Solo(p) /\ Solo(p)'
        BY <1>1, OthersKept, OnlyOne DEF Remembered
    <2>2. Alone'
        BY <2>1 DEF Alone, Solo
    <2>3. ASSUME Settling' PROVE AppOf(p)' /\ Solo(p)'
        <3>1. Settling /\ Solo(p) /\ Solo(p)'
            BY <2>1, <2>3 DEF Settling
        <3> QED BY <1>1, <2>3, <3>1, ClientAppOf, ServerAppOf DEF Remembered
    <2>4. ASSUME Settling', ~Active(p)' PROVE LiveApps' = Only(file'.app) /\ \A q \in Procs : AppOf(q)'
        <3>1. \A q \in Procs : procs'[q].at = "idle"
            BY <2>3, <2>4 DEF Solo, Active
        <3>2. LiveApps' = Only(file'.app)
            BY <2>3, <2>4, <3>1 DEF AppOf, Untried, Only
        <3> QED BY <3>1, <3>2 DEF AppOf, Untried, Only
    <2>5. ASSUME Settling', NEW q \in Procs, Solo(q)' PROVE AppOf(q)'
        <3>1. CASE q = p
            BY <2>3, <2>5, <3>1
        <3>2. CASE q # p
            BY <2>4, <2>5, <3>2 DEF Solo
        <3> QED BY <3>1, <3>2
    <2>6. ASSUME Settling', AllIdle' PROVE LiveApps' = Only(file'.app)
        BY <2>4, <2>6 DEF AllIdle
    <2> QED BY <2>2, <2>5, <2>6 DEF Remembered, Only
<1>2. ASSUME UNCHANGED <<apps, file, procs, handlers>>, causes \subseteq causes' PROVE Remembered'
    <2>1. /\ \A p \in Procs : Active(p)' = Active(p) /\ Solo(p)' = Solo(p) /\ (AppOf(p) => AppOf(p)')
          /\ AllIdle' = AllIdle /\ (Settling' => Settling) /\ LiveApps' = LiveApps
        BY <1>2 DEF Active, Solo, AllIdle, Settling, LiveApps, AppOf, Untried, Only, Remembers, Forgets
    <2>2. Alone'
        BY <1>2, <2>1 DEF Remembered, Alone
    <2>3. ASSUME Settling', NEW p \in Procs, Solo(p)' PROVE AppOf(p)'
        BY <2>1, <2>3 DEF Remembered
    <2>4. ASSUME Settling', AllIdle' PROVE LiveApps' = Only(file'.app)
        BY <1>2, <2>1, <2>4 DEF Remembered, Only
    <2> QED BY <2>2, <2>3, <2>4 DEF Remembered, Only
<1>3. ASSUME NEW t \in Tokens, ExpireAccess(t) \/ ExpireRefresh(t) PROVE Remembered'
    BY <1>2, <1>3 DEF ExpireAccess, ExpireRefresh
<1>4. CASE UNCHANGED vars
    BY <1>2, <1>4 DEF vars
<1> QED BY <1>1, <1>3, <1>4 DEF Next

\* There is no application and no file.
LEMMA InitRemembered == Init => Remembered
<1> SUFFICES ASSUME Init PROVE Remembered
    OBVIOUS
<1>1. /\ \A p \in Procs : procs[p].at = "idle" /\ handlers[p].at = "none"
      /\ LiveApps = {} /\ file.app = NoApp
    BY DEF Init, Idle, NoHandler, LiveApps
<1> QED BY <1>1 DEF Remembered, Alone, Active, AppOf, Untried, Only

\* Between commands that do not overlap, the config file names exactly the
\* applications the apiserver has, whatever deploy, delete, refresh and the
\* faults outside a create's or delete's save did before: deploying by name
\* neither makes a second application nor loses the first.
THEOREM FileKnowsApplication == Spec => []ApplicationKnown
<1>1. Remembered => ApplicationKnown
    BY DEF Remembered, ApplicationKnown, Settling, Only
<1> QED BY <1>1, InitTypes, StepTypes, InitRemembered, StepRemembered, PTL DEF Spec

=============================================================================
