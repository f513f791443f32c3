------------------------------ MODULE Sessions ------------------------------
(***************************************************************************)
(* A user's session: the command line client, the config file its          *)
(* processes share, and the apiserver's signup, login and refresh          *)
(* handlers.  A process loads the file once, talks to the server with what *)
(* it loaded, and writes the whole file back.  A request that is answered  *)
(* 401 is sent once more after the refresh token has been exchanged; the   *)
(* exchange is three statements outside a transaction.  An access token    *)
(* and the refresh token issued with it share a number; there is one user, *)
(* one project and one application name, which any number of applications  *)
(* may bear: no constraint of the database makes it unique.                *)
(***************************************************************************)
EXTENDS Naturals, FiniteSets

CONSTANTS
    Procs,       \* invocations of the client that may run at the same time
    MaxCommands, \* commands in a behaviour
    MaxTokens,   \* pairs of tokens in a behaviour
    MaxFaults,   \* requests and responses lost or timed out, failed saves, kills
    MaxExpiries  \* refresh tokens that reach their expiry

ASSUME SessionsAssumption == {MaxCommands, MaxTokens, MaxFaults, MaxExpiries} \subseteq Nat

VARIABLES
    account,   \* the user and its organization exist
    apps,      \* the applications table
    tokens,    \* the refresh_tokens table
    expired,   \* access tokens past AccessTokenTTL
    file,      \* the config file; torn between truncation and write
    procs,     \* client processes
    handlers,  \* the refresh, login or signup a process has called
    commands,  \* commands started so far
    runs,      \* history: how often the server executed the current request
    refused,   \* history: a command ended with ErrUnauthorized
    causes,    \* history: what may cost a session its tokens
    forked,    \* history: sessions one of whose tokens was exchanged twice or halfway
    budget

vars == <<account, apps, tokens, expired, file, procs, handlers, commands, runs, refused, causes,
          forked, budget>>

Tokens == 1..MaxTokens
NoToken == 0
Apps == 1..MaxCommands   \* a command creates one application at most
NoApp == 0
Idle == [at |-> "idle", cmd |-> "none", step |-> "run", token |-> NoToken, app |-> NoApp, reply |-> "ok"]
NoHandler == [at |-> "none", token |-> NoToken, new |-> NoToken]

\* The types; a request carries a token the server issued.
TypeOK ==
    /\ account \in BOOLEAN /\ apps \in [Apps -> {"none", "live", "deleted"}]
    /\ tokens \in [Tokens -> [state : {"none", "live", "revoked", "expired"}, root : 0..MaxTokens]]
    /\ expired \in SUBSET Tokens
    /\ file \in [torn : BOOLEAN, token : 0..MaxTokens, app : 0..MaxCommands]
    /\ procs \in [Procs -> [at : {"idle", "request", "answered", "refreshing", "storing", "stored",
                                  "retry", "auth", "saving", "writing"},
                            cmd : {"none", "plain", "deploy", "delete", "login", "signup"},
                            step : {"create", "run"}, token : 0..MaxTokens, app : 0..MaxCommands,
                            reply : {"ok", "error"}]]
    /\ handlers \in [Procs -> [at : {"none", "check", "create", "rotate", "login", "signup", "issue", "reply"},
                               token : 0..MaxTokens, new : 0..MaxTokens]]
    /\ commands \in 0..MaxCommands
    /\ runs \in [Procs -> Nat]
    /\ refused \in BOOLEAN
    /\ causes \in SUBSET {"overlap", "fault", "unsaved", "expiry", "login"}
    /\ forked \in SUBSET Tokens
    /\ \A p \in Procs : procs[p].at \in {"request", "answered", "refreshing", "retry"} => procs[p].token \in Tokens

Init ==
    /\ account = FALSE /\ apps = [a \in Apps |-> "none"]
    /\ tokens = [t \in Tokens |-> [state |-> "none", root |-> NoToken]]
    /\ expired = {}
    /\ file = [torn |-> FALSE, token |-> NoToken, app |-> NoApp]
    /\ procs = [p \in Procs |-> Idle]
    /\ handlers = [p \in Procs |-> NoHandler]
    /\ commands = 0
    /\ runs = [p \in Procs |-> 0]
    /\ refused = FALSE
    /\ causes = {} /\ forked = {}
    /\ budget = [faults |-> MaxFaults, expiries |-> MaxExpiries]

Active(p) == procs[p].at # "idle" \/ handlers[p].at # "none"
AllIdle == \A p \in Procs : ~Active(p)
Spend(what) == budget[what] > 0 /\ budget' = [budget EXCEPT ![what] = @ - 1]
Become(p, proc) == procs' = [procs EXCEPT ![p] = proc]
LiveApps == {a \in Apps : apps[a] = "live"}
\* The command ends; the history keeps whether it asked for a login.
End(p, how) ==
    /\ Become(p, Idle)
    /\ runs' = [runs EXCEPT ![p] = 0]
    /\ refused' = (refused \/ how = "unauthorized")

-----------------------------------------------------------------------------
(* The client *)

\* A process loads the file.  A torn one cannot be parsed: no command starts.
Loads(p) ==
    /\ ~Active(p) /\ ~file.torn /\ commands < MaxCommands
    /\ commands' = commands + 1
    /\ causes' = IF \E q \in Procs : Active(q) THEN causes \cup {"overlap"} ELSE causes
    /\ UNCHANGED <<account, apps, tokens, expired, file, runs, refused, forked, budget>>

\* Mutation of Start: the command does not insist on a login.
StartAnonymous(p, cmd) ==
    /\ Loads(p)
    /\ cmd = "delete" => file.app # NoApp
    /\ Become(p, [at |-> "request", cmd |-> cmd,
                  step |-> IF cmd = "deploy" /\ file.app = NoApp THEN "create" ELSE "run",
                  token |-> file.token, app |-> file.app, reply |-> "ok"])
    /\ UNCHANGED handlers

\* requireLogin insists on a saved token.  deploy creates the application unless
\* the file knows it, delete takes its id from the file.
Start(p, cmd) ==
    /\ Loads(p)
    /\ file.token # NoToken
    /\ cmd = "delete" => file.app # NoApp
    /\ Become(p, [at |-> "request", cmd |-> cmd,
                  step |-> IF cmd = "deploy" /\ file.app = NoApp THEN "create" ELSE "run",
                  token |-> file.token, app |-> file.app, reply |-> "ok"])
    /\ UNCHANGED handlers

\* login and signup call the server with a password.
StartAuth(p, cmd) ==
    /\ Loads(p)
    /\ Become(p, [Idle EXCEPT !.at = "auth", !.cmd = cmd, !.token = file.token, !.app = file.app])
    /\ handlers' = [handlers EXCEPT ![p] = [NoHandler EXCEPT !.at = cmd]]

\* resolveApplication remembers the application before it deploys it, delete
\* forgets it.
Remembers(proc) == proc.cmd = "deploy" /\ proc.step = "create"
Forgets(proc) == proc.cmd = "delete"

AppLeft == \E a \in Apps : apps[a] = "none"
NextApp == CHOOSE a \in Apps : apps[a] = "none"

\* What the server answers to an authenticated request, and what it does: a
\* create always inserts a new application, whatever its name; deploy and
\* delete need the one they name.
Answer(proc) ==
    IF Remembers(proc) \/ proc.cmd = "plain" \/ proc.app \in LiveApps THEN "ok" ELSE "error"
AppsAfter(proc) ==
    CASE Remembers(proc) -> [apps EXCEPT ![NextApp] = "live"]
      [] Forgets(proc) /\ proc.app \in LiveApps -> [apps EXCEPT ![proc.app] = "deleted"]
      [] OTHER -> apps

\* raw: the access token is verified; only then does the request run.  The
\* response to a create carries the new id.
Send(p) ==
    /\ procs[p].at \in {"request", "retry"}
    /\ procs[p].token \notin expired
    /\ Remembers(procs[p]) => AppLeft
    /\ runs' = [runs EXCEPT ![p] = @ + 1]
    /\ apps' = AppsAfter(procs[p])
    /\ Become(p, [procs[p] EXCEPT !.at = "answered", !.reply = Answer(procs[p]),
                                  !.app = IF Remembers(procs[p]) THEN NextApp ELSE @])
    /\ UNCHANGED <<account, tokens, expired, file, handlers, commands, refused, causes, forked, budget>>

\* do: the first 401 starts an exchange of the refresh token, the second one
\* is reported.
Refused(p) ==
    /\ procs[p].at \in {"request", "retry"}
    /\ procs[p].token \in expired
    /\ IF procs[p].at = "request"
       THEN /\ Become(p, [procs[p] EXCEPT !.at = "refreshing"])
            /\ handlers' = [handlers EXCEPT ![p] = [at |-> "check", token |-> procs[p].token, new |-> NoToken]]
            /\ UNCHANGED <<runs, refused>>
       ELSE End(p, "unauthorized") /\ UNCHANGED handlers
    /\ UNCHANGED <<account, apps, tokens, expired, file, commands, causes, forked, budget>>

\* The command goes on when a request was answered.
Answered(p) ==
    /\ procs[p].at = "answered"
    /\ IF procs[p].reply = "error" THEN End(p, "failed")
       ELSE IF Remembers(procs[p]) \/ Forgets(procs[p])
       THEN /\ Become(p, [procs[p] EXCEPT !.at = "saving", !.app = IF Remembers(procs[p]) THEN @ ELSE NoApp])
            /\ UNCHANGED <<runs, refused>>
       ELSE End(p, "ok")
    /\ UNCHANGED <<account, apps, tokens, expired, file, handlers, commands, causes, forked, budget>>

\* Mutation of AfterLost: a request that got no answer is refreshed and sent again.
AfterLostRetries(p) ==
    IF procs[p].at = "answered" THEN Become(p, [procs[p] EXCEPT !.at = "retry"]) /\ UNCHANGED <<runs, refused>>
    ELSE End(p, IF procs[p].at = "refreshing" THEN "unauthorized" ELSE "failed")

\* do: an exchange that failed surfaces the original 401, any other failure itself.
AfterLost(p) == End(p, IF procs[p].at = "refreshing" THEN "unauthorized" ELSE "failed")

\* The server created or deleted the application and the file does not say so yet.
Unsaved(proc) ==
    \/ proc.at = "answered" /\ (Remembers(proc) \/ Forgets(proc))
    \/ proc.at \in {"saving", "writing"}
Fault(p) ==
    /\ Spend("faults")
    /\ causes' = causes \cup {"fault"} \cup (IF Unsaved(procs[p]) THEN {"unsaved"} ELSE {})

\* A request or its response is lost, or requestTimeout passes.  The server's
\* handler may go on without its client.
Lost(p) ==
    /\ procs[p].at \in {"request", "retry", "answered", "refreshing", "auth"}
    /\ Fault(p)
    /\ AfterLost(p)
    /\ UNCHANGED <<account, apps, tokens, expired, file, handlers, commands, forked>>

\* Config.Save: os.WriteFile truncates the file, then writes what the process holds.
Truncate(p) ==
    /\ procs[p].at \in {"storing", "saving"}
    /\ file' = [file EXCEPT !.torn = TRUE]
    /\ Become(p, [procs[p] EXCEPT !.at = IF @ = "storing" THEN "stored" ELSE "writing"])
    /\ UNCHANGED <<account, apps, tokens, expired, handlers, commands, runs, refused, causes, forked, budget>>

\* Mutation of Save: only the tokens are written back.
SaveTokensOnly(p) == file' = [file EXCEPT !.torn = FALSE, !.token = procs[p].token]

Save(p) == file' = [torn |-> FALSE, token |-> procs[p].token, app |-> procs[p].app]

\* After an exchange the request is sent again; a command that saved last is done.
Written(p) ==
    /\ procs[p].at \in {"stored", "writing"}
    /\ Save(p)
    /\ IF procs[p].at = "stored"
       THEN Become(p, [procs[p] EXCEPT !.at = "retry"]) /\ UNCHANGED <<runs, refused>>
       ELSE IF procs[p].cmd = "deploy"
       THEN /\ Become(p, [procs[p] EXCEPT !.at = "request", !.step = "run"])
            /\ runs' = [runs EXCEPT ![p] = 0]
            /\ UNCHANGED refused
       ELSE End(p, "ok")
    /\ UNCHANGED <<account, apps, tokens, expired, handlers, commands, causes, forked, budget>>

\* A save that fails is ignored after an exchange and reported otherwise.
SaveFails(p) ==
    /\ procs[p].at \in {"storing", "saving"}
    /\ Fault(p)
    /\ IF procs[p].at = "storing" THEN Become(p, [procs[p] EXCEPT !.at = "retry"]) /\ UNCHANGED <<runs, refused>>
       ELSE End(p, "failed")
    /\ UNCHANGED <<account, apps, tokens, expired, file, handlers, commands, forked>>

\* The process is killed; what it truncated stays empty.
Kill(p) ==
    /\ procs[p].at # "idle"
    /\ Fault(p)
    /\ End(p, "failed")
    /\ UNCHANGED <<account, apps, tokens, expired, file, handlers, commands, forked>>

-----------------------------------------------------------------------------
(* The apiserver's handlers *)

Answering(p, handler) == handlers' = [handlers EXCEPT ![p] = handler]
Waiting(p) == procs[p].at \in {"refreshing", "auth"}

\* The handler goes on to issue tokens, or answers with an error.
GoesOn(p, passes) ==
    IF passes THEN Answering(p, [handlers[p] EXCEPT !.at = "issue"]) /\ UNCHANGED <<procs, runs, refused>>
    ELSE /\ Answering(p, NoHandler)
         /\ IF Waiting(p) THEN End(p, "failed") ELSE UNCHANGED <<procs, runs, refused>>

\* handleSignup's transaction: user, organization, membership and quota at once;
\* an email that is taken is an error.
SignUp(p) ==
    /\ handlers[p].at = "signup"
    /\ GoesOn(p, ~account)
    /\ account' = TRUE
    /\ UNCHANGED <<apps, tokens, expired, file, commands, causes, forked, budget>>

\* handleLogin's lookups; a user that does not exist is an error.
LogIn(p) ==
    /\ handlers[p].at = "login"
    /\ GoesOn(p, account)
    /\ UNCHANGED <<account, apps, tokens, expired, file, commands, causes, forked, budget>>

TokenLeft == \E t \in Tokens : tokens[t].state = "none"
NextToken == CHOOSE t \in Tokens : tokens[t].state = "none"

\* issueAuthResponse: the first token of a session.
Issue(p) ==
    /\ handlers[p].at = "issue" /\ TokenLeft
    /\ tokens' = [tokens EXCEPT ![NextToken] = [state |-> "live", root |-> NextToken]]
    /\ Answering(p, [handlers[p] EXCEPT !.at = "reply", !.new = NextToken])
    /\ UNCHANGED <<account, apps, expired, file, procs, commands, runs, refused, causes, forked, budget>>

\* Mutation of Redeemable: a token is refused only once it has expired.
RedeemableUntilExpiry(t) == tokens[t].state # "expired"

Redeemable(t) == tokens[t].state = "live"

\* handleRefresh up to its check of the stored token.
Check(p) ==
    /\ handlers[p].at = "check"
    /\ IF Redeemable(handlers[p].token)
       THEN /\ Answering(p, [handlers[p] EXCEPT !.at = "create"])
            /\ forked' = IF \E q \in Procs \ {p} : handlers[q].at \in {"create", "rotate"} /\
                                                   handlers[q].token = handlers[p].token
                         THEN forked \cup {tokens[handlers[p].token].root} ELSE forked
            /\ UNCHANGED <<procs, runs, refused>>
       ELSE /\ Answering(p, NoHandler)
            /\ IF Waiting(p) THEN End(p, "unauthorized") ELSE UNCHANGED <<procs, runs, refused>>
            /\ UNCHANGED forked
    /\ UNCHANGED <<account, apps, tokens, expired, file, commands, causes, budget>>

\* RefreshTokenRepository.Create for the exchange.
Create(p) ==
    /\ handlers[p].at = "create" /\ TokenLeft
    /\ tokens' = [tokens EXCEPT ![NextToken] = [state |-> "live", root |-> tokens[handlers[p].token].root]]
    /\ Answering(p, [handlers[p] EXCEPT !.at = "rotate", !.new = NextToken])
    /\ UNCHANGED <<account, apps, expired, file, procs, commands, runs, refused, causes, forked, budget>>

\* Mutation of Revoked: the token that was just issued is revoked.
RevokedNew(p) == handlers[p].new

Revoked(p) == handlers[p].token

\* RefreshTokenRepository.Rotate: unconditional, by id.
Rotate(p) ==
    /\ handlers[p].at = "rotate"
    /\ tokens' = [tokens EXCEPT ![Revoked(p)].state = "revoked"]
    /\ Answering(p, [handlers[p] EXCEPT !.at = "reply"])
    /\ UNCHANGED <<account, apps, expired, file, procs, commands, runs, refused, causes, forked, budget>>

\* The response: SetTokens keeps what the process knows, SetSession clears it.
Reply(p) ==
    /\ handlers[p].at = "reply"
    /\ Answering(p, NoHandler)
    /\ IF ~Waiting(p) THEN UNCHANGED <<procs, causes>>
       ELSE IF procs[p].at = "refreshing"
       THEN Become(p, [procs[p] EXCEPT !.at = "storing", !.token = handlers[p].new]) /\ UNCHANGED causes
       ELSE /\ Become(p, [procs[p] EXCEPT !.at = "saving", !.token = handlers[p].new, !.app = NoApp])
            /\ causes' = IF LiveApps # {} THEN causes \cup {"login"} ELSE causes
    /\ UNCHANGED <<account, apps, tokens, expired, file, commands, runs, refused, forked, budget>>

\* The client is gone and its request context cancelled: the next statement fails.
Cancel(p) ==
    /\ handlers[p].at # "none" /\ ~Waiting(p)
    /\ Answering(p, NoHandler)
    /\ forked' = IF handlers[p].at = "rotate" THEN forked \cup {tokens[handlers[p].token].root} ELSE forked
    /\ UNCHANGED <<account, apps, tokens, expired, file, procs, commands, runs, refused, causes, budget>>

\* AccessTokenTTL passes.  It is far longer than a process needs to use a token
\* it was just given, so that only a suspended process sees it pass before.
ExpireAccess(t) ==
    /\ tokens[t].state # "none" /\ t \notin expired
    /\ IF \E p \in Procs :
             \/ (procs[p].at \in {"storing", "stored", "retry"} /\ procs[p].token = t)
             \/ handlers[p].new = t
       THEN Spend("expiries") /\ causes' = causes \cup {"expiry"}
       ELSE UNCHANGED <<budget, causes>>
    /\ expired' = expired \cup {t}
    /\ UNCHANGED <<account, apps, tokens, file, procs, handlers, commands, runs, refused, forked>>

\* RefreshTokenTTL passes.
ExpireRefresh(t) ==
    /\ tokens[t].state = "live"
    /\ Spend("expiries")
    /\ tokens' = [tokens EXCEPT ![t].state = "expired"]
    /\ causes' = causes \cup {"expiry"}
    /\ UNCHANGED <<account, apps, expired, file, procs, handlers, commands, runs, refused, forked>>

-----------------------------------------------------------------------------

Client(p) ==
    \/ \E cmd \in {"plain", "deploy", "delete"} : Start(p, cmd)
    \/ \E cmd \in {"login", "signup"} : StartAuth(p, cmd)
    \/ Send(p) \/ Refused(p) \/ Answered(p) \/ Lost(p)
    \/ Truncate(p) \/ Written(p) \/ SaveFails(p) \/ Kill(p)

Server(p) ==
    \/ SignUp(p) \/ LogIn(p) \/ Issue(p) \/ Check(p) \/ Create(p) \/ Rotate(p) \/ Reply(p) \/ Cancel(p)

Next ==
    \/ \E p \in Procs : Client(p) \/ Server(p)
    \/ \E t \in Tokens : ExpireAccess(t) \/ ExpireRefresh(t)

Spec == Init /\ [][Next]_vars

-----------------------------------------------------------------------------
(* Properties *)

\* do sends a request again only after a 401, which Authenticate answers
\* before the handler runs: no request of a command is executed twice, even
\* when its first response is lost.
ExecutedAtMostOnce == \A p \in Procs : runs[p] <= 1

\* A user whose commands do not overlap, fail or outlive the refresh token is
\* never sent back to login: each exchange of the token reaches the file before
\* the next command reads it.
ReloginOnlyForCause ==
    refused => causes \cap {"overlap", "fault", "expiry"} # {}

\* A session has one live refresh token whenever none of its tokens is being
\* exchanged, unless two exchanges of the same token were checked before either
\* revoked it, or one was cut off between Create and Rotate.
OneLiveToken ==
    \A r \in Tokens \ forked :
        \/ Cardinality({t \in Tokens : tokens[t] = [state |-> "live", root |-> r]}) <= 1
        \/ \E p \in Procs : handlers[p].at = "rotate" /\ tokens[handlers[p].token].root = r

\* The client has no way to look an application up, and a second create makes a
\* second application of the same name.  While commands do not overlap, nobody
\* logs in anew once there is an application, and no fault strikes between the
\* server's create or delete and its save, the file names exactly the
\* applications there are: one or none, through every exchange of the tokens and
\* every fault elsewhere.
ApplicationKnown ==
    AllIdle /\ ~file.torn /\ causes \cap {"overlap", "unsaved", "login"} = {}
       => LiveApps = {file.app} \ {NoApp}

=============================================================================
