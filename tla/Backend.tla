------------------------------ MODULE Backend ------------------------------
(***************************************************************************)
(* The client of the media server (internal/driver/backend): calls of      *)
(* Server.Media, which send the metadata of a file and then the file, over *)
(* auth.Do, which asks the goroutine of WatchAuth for a token and renews   *)
(* one the server refuses, and over sendResource, which tries again.       *)
(*                                                                         *)
(* The server is external: it forgets tokens, answers with an error, loses *)
(* answers of requests it has obeyed, and rejects incomplete bodies.       *)
(***************************************************************************)
EXTENDS Integers, Sequences, FiniteSets

CONSTANTS
    Media,          \* calls of Server.Media
    MaxConcurrency, \* bound: Config.Concurrency
    MaxTries,       \* sendOptions.maxRetries and the first try
    QueryCap,       \* capacity of the channel of queries
    MaxLogins,      \* bound: tokens the server issues
    NoCall          \* "nobody has asked"

ASSUME BackendAssumption ==
    /\ NoCall \notin Media
    /\ MaxConcurrency \in Nat \ {0} /\ MaxTries \in Nat \ {0}
    /\ QueryCap \in Nat \ {0} /\ MaxLogins \in Nat \ {0}

VARIABLES
    concurrency,    \* Config.Concurrency, at least 1 (New)
    queue,          \* Server.queue: how many concurrency tokens are left
    mpc,            \* where each call is
    req,            \* the request it is sending
    result,         \* what it returns
    cancelled,      \* calls whose own context has been cancelled
    ctxDone,        \* the context of the service has been cancelled
    queries,        \* the channel of queries
    reply,          \* AuthRequest.Reply of the last query of each call
    apc, asked,     \* WatchAuth: where it is, the query it attends to
    lastReply,      \* its lastReply
    issued, accepted,   \* server: tokens issued, those it accepts
    stored,         \* server: the parts of each file it has
    crashed         \* the process has panicked

authVars == <<queries, apc, asked, lastReply>>
serverVars == <<issued, accepted, stored>>
ctxVars == <<cancelled, ctxDone, crashed>>
callVars == <<queue, mpc, req, result, reply>>
vars == <<concurrency, callVars, ctxVars, authVars, serverVars>>

\* The token "" is 0; tokens are numbered as they are issued.
NoReply == [token |-> 0, cached |-> FALSE]
NoQuery == [from |-> NoCall, fresh |-> FALSE]

\* What a try of sendResource begins with: a new body, and no token yet.
Request(part, method, try) ==
    [part |-> part, method |-> method, try |-> try, fresh |-> FALSE, body |-> "whole",
     token |-> 0, cached |-> FALSE, refused |-> 0]

Init ==
    /\ concurrency \in 1 .. MaxConcurrency /\ queue = concurrency
    /\ mpc = [m \in Media |-> "queue"]
    /\ req = [m \in Media |-> Request("meta", "POST", 1)]
    /\ result = [m \in Media |-> "none"]
    /\ cancelled = {} /\ ctxDone = FALSE /\ crashed = FALSE
    /\ queries = <<>> /\ reply = [m \in Media |-> <<>>]
    /\ apc = "idle" /\ asked = NoQuery /\ lastReply = NoReply
    /\ issued = 0 /\ accepted = {} /\ stored = [m \in Media |-> {}]

Cancelled(m) == ctxDone \/ m \in cancelled
---------------------------------------------------------------------------
(* WatchAuth.                                                              *)

\* Mutant: only a missing token is asked for.
NeedsFirst(q) == lastReply.token = 0

NeedsLogin(q) == q.fresh \/ lastReply.token = 0

AuthTake ==
    /\ apc = "idle" /\ queries # <<>>
    /\ asked' = Head(queries)
    /\ queries' = Tail(queries)
    /\ apc' = IF NeedsLogin(Head(queries)) THEN "login" ELSE "reply"
    /\ UNCHANGED <<lastReply, callVars, ctxVars, serverVars>>

\* httpAuth tries until it succeeds ...
LoginOk ==
    /\ apc = "login" /\ issued < MaxLogins
    /\ issued' = issued + 1
    /\ accepted' = accepted \union {issued + 1}
    /\ lastReply' = [token |-> issued + 1, cached |-> FALSE]
    /\ apc' = "reply"
    /\ UNCHANGED <<queries, asked, stored, callVars, ctxVars>>

\* ... or its context is cancelled.
LoginCancelled ==
    /\ apc = "login" /\ ctxDone
    /\ lastReply' = NoReply
    /\ apc' = "reply"
    /\ UNCHANGED <<queries, asked, callVars, ctxVars, serverVars>>

\* Mutant: the channel has no room, so the client must be there.
AuthReplyMeets ==
    /\ apc = "reply" /\ mpc[asked.from] = "reply"
    /\ reply' = [reply EXCEPT ![asked.from] = <<lastReply>>]
    /\ lastReply' = [lastReply EXCEPT !.cached = TRUE]
    /\ apc' = "idle" /\ asked' = NoQuery
    /\ UNCHANGED <<queries, queue, mpc, req, result, ctxVars, serverVars>>

\* The channel has room for the reply, even if the client has left.
AuthReply ==
    /\ apc = "reply"
    /\ reply' = [reply EXCEPT ![asked.from] = <<lastReply>>]
    /\ lastReply' = [lastReply EXCEPT !.cached = TRUE]
    /\ apc' = "idle" /\ asked' = NoQuery
    /\ UNCHANGED <<queries, queue, mpc, req, result, ctxVars, serverVars>>

AuthEnd ==
    /\ apc = "idle" /\ ctxDone
    /\ apc' = "over"
    /\ UNCHANGED <<queries, asked, lastReply, callVars, ctxVars, serverVars>>
---------------------------------------------------------------------------
(* Server.Media.                                                           *)

\* Mutant: the token is kept if the call has failed.
KeptOnError(returns) == IF returns = "ok" THEN queue + 1 ELSE queue

GivenBack(returns) == queue + 1

\* Media returns; the token goes back by a deferred function.
Returns(m, returns) ==
    /\ mpc' = [mpc EXCEPT ![m] = "done"]
    /\ result' = [result EXCEPT ![m] = returns]
    /\ req' = [req EXCEPT ![m] = Request("meta", "POST", 1)]
    /\ queue' = GivenBack(returns)

GivesUp(m) == Returns(m, "error")

Asks(m, r) ==
    /\ mpc' = [mpc EXCEPT ![m] = "ask"]
    /\ req' = [req EXCEPT ![m] = r]
    /\ UNCHANGED <<queue, result>>

\* The wait for a concurrency token does not look at the context.
MediaToken(m) ==
    /\ mpc[m] = "queue" /\ queue > 0
    /\ queue' = queue - 1
    /\ mpc' = [mpc EXCEPT ![m] = "stat"]
    /\ UNCHANGED <<req, result, reply, ctxVars, authVars, serverVars>>

\* The file is there, or not.
MediaStat(m) ==
    /\ mpc[m] = "stat"
    /\ Asks(m, Request("meta", "POST", 1)) \/ GivesUp(m)
    /\ UNCHANGED <<reply, ctxVars, authVars, serverVars>>

\* A request has succeeded: after the metadata comes the file.
Succeeds(m) ==
    IF req[m].part = "meta" THEN Asks(m, Request("file", "POST", 1)) ELSE Returns(m, "ok")

\* A try has failed: backoff.Retry waits and tries again, unless that was the last one or
\* the error is permanent.  If it is cancelled while it waits, so is the next try.
TryFails(m) ==
    IF Cancelled(m) \/ req[m].try = MaxTries THEN GivesUp(m)
    ELSE Asks(m, Request(req[m].part, "POST", req[m].try + 1))
---------------------------------------------------------------------------
(* auth.Do and getAuth.                                                    *)

AskAuth(m) ==
    /\ mpc[m] = "ask" /\ Len(queries) < QueryCap
    /\ queries' = Append(queries, [from |-> m, fresh |-> req[m].fresh])
    /\ mpc' = [mpc EXCEPT ![m] = "reply"]
    /\ UNCHANGED <<queue, req, result, reply, apc, asked, lastReply, ctxVars, serverVars>>

AskCancelled(m) ==
    /\ mpc[m] \in {"ask", "reply"} /\ Cancelled(m)
    /\ GivesUp(m)
    /\ UNCHANGED <<reply, ctxVars, authVars, serverVars>>

\* The only error of a reply is that the context was cancelled during the login.
GetReply(m) ==
    /\ mpc[m] = "reply" /\ reply[m] # <<>>
    /\ reply' = [reply EXCEPT ![m] = <<>>]
    /\ LET r == Head(reply[m]) IN
       IF r.token = 0 THEN GivesUp(m)
       ELSE /\ mpc' = [mpc EXCEPT ![m] = "send"]
            /\ req' = [req EXCEPT ![m].token = r.token, ![m].cached = r.cached]
            /\ UNCHANGED <<queue, result>>
    /\ UNCHANGED <<ctxVars, authVars, serverVars>>

Authorized(m) == req[m].token \in accepted

\* The server refuses the token.  If it came from the cache, a fresh one is asked for,
\* to send the same request again: its body has been read.
SendRefused(m) ==
    /\ mpc[m] = "send" /\ ~Authorized(m)
    /\ IF ~req[m].cached \/ req[m].fresh THEN TryFails(m)
       ELSE Asks(m, [req[m] EXCEPT !.fresh = TRUE, !.body = "read", !.refused = req[m].token,
                                   !.token = 0, !.cached = FALSE])
    /\ UNCHANGED <<reply, ctxVars, authVars, serverVars>>

\* The server has what it was sent, and says so.
SendOk(m) ==
    /\ mpc[m] = "send" /\ Authorized(m) /\ req[m].body = "whole"
    /\ stored' = [stored EXCEPT ![m] = @ \union {req[m].part}]
    /\ Succeeds(m)
    /\ UNCHANGED <<reply, issued, accepted, ctxVars, authVars>>

\* Mutant: a conflict counts as success.
ConflictIsFine(m) == Succeeds(m)

\* POST answered with Conflict or InternalServerError: try PUT; a file has no PUT.
PutInstead(m) ==
    IF req[m].part = "file" THEN TryFails(m)
    ELSE Asks(m, Request("meta", "PUT", req[m].try))

SendConflict(m) ==
    /\ mpc[m] = "send" /\ Authorized(m) /\ req[m].method = "POST"
    /\ PutInstead(m)
    /\ UNCHANGED <<reply, ctxVars, authVars, serverVars>>

\* Any other status, or no answer at all, perhaps to a request the server obeyed.  The
\* body of a file that is sent again may have been closed by the transport, and then the
\* next Read panics.
SendFails(m) ==
    /\ mpc[m] = "send"
    /\ \/ UNCHANGED stored
       \/ /\ Authorized(m) /\ req[m].body = "whole"
          /\ stored' = [stored EXCEPT ![m] = @ \union {req[m].part}]
    /\ crashed' \in {FALSE, req[m].part = "file" /\ req[m].body = "read"}
    /\ TryFails(m)
    /\ UNCHANGED <<reply, issued, accepted, cancelled, ctxDone, authVars>>
---------------------------------------------------------------------------
\* The server forgets a token; there is one more to issue.
Expire ==
    /\ issued < MaxLogins
    /\ \E t \in accepted : accepted' = accepted \ {t}
    /\ UNCHANGED <<issued, stored, callVars, ctxVars, authVars>>

CancelMedia(m) ==
    /\ m \notin cancelled /\ mpc[m] # "done"
    /\ cancelled' = cancelled \union {m}
    /\ UNCHANGED <<ctxDone, crashed, callVars, authVars, serverVars>>

CancelService ==
    /\ ~ctxDone
    /\ ctxDone' = TRUE
    /\ UNCHANGED <<cancelled, crashed, callVars, authVars, serverVars>>

Attend == AuthTake \/ LoginCancelled \/ AuthReply \/ AuthEnd
Call(m) ==
    \/ MediaToken(m) \/ MediaStat(m)
    \/ AskAuth(m) \/ AskCancelled(m) \/ GetReply(m)
    \/ SendRefused(m) \/ SendOk(m) \/ SendConflict(m) \/ SendFails(m)

Running == ~crashed /\ UNCHANGED concurrency

Next ==
    /\ Running
    /\ \/ Attend \/ LoginOk \/ Expire \/ CancelService
       \/ \E m \in Media : Call(m) \/ CancelMedia(m)

Spec == Init /\ [][Next]_vars

(***************************************************************************)
(* Goroutines run, and requests end (the HTTP client has a timeout).       *)
(* Nothing is assumed of the server: it may never let anybody log in.      *)
(***************************************************************************)
Fairness ==
    /\ WF_vars(Running /\ Attend)
    /\ \A m \in Media : WF_vars(Running /\ Call(m))

LiveSpec == Spec /\ Fairness
---------------------------------------------------------------------------
Reply == [token : 0 .. issued, cached : BOOLEAN]

TypeOK ==
    /\ queue + Cardinality({m \in Media : mpc[m] \notin {"queue", "done"}}) = concurrency
    /\ concurrency \in 1 .. MaxConcurrency
    /\ mpc \in [Media -> {"queue", "stat", "ask", "reply", "send", "done"}]
    /\ req \in [Media -> [part : {"meta", "file"}, method : {"POST", "PUT"},
                          try : 1 .. MaxTries, fresh : BOOLEAN, body : {"whole", "read"},
                          token : 0 .. issued, cached : BOOLEAN, refused : 0 .. issued]]
    /\ result \in [Media -> {"none", "ok", "error"}]
    /\ cancelled \subseteq Media /\ ctxDone \in BOOLEAN /\ crashed \in BOOLEAN
    /\ queries \in Seq([from : Media, fresh : BOOLEAN]) /\ Len(queries) <= QueryCap
    /\ reply \in [Media -> {<<>>} \union {<<r>> : r \in Reply}]
    /\ apc \in {"idle", "login", "reply", "over"}
    /\ asked \in [from : Media \union {NoCall}, fresh : BOOLEAN]
    /\ lastReply \in Reply
    /\ issued \in 0 .. MaxLogins /\ accepted \subseteq 1 .. issued
    /\ stored \in [Media -> SUBSET {"meta", "file"}]

\* When Media returns no error, the server has the metadata and the whole file,
\* whichever requests were repeated, refused, sent as PUT or with a body already read.
\* FileWatcher records the upload in its history then, and never repeats it.
SuccessIsStored == \A m \in Media : result[m] = "ok" => stored[m] = {"meta", "file"}

\* A request is sent again with a token issued after the refused one, however the
\* queries of other calls are ordered with its own, and their replies with those of
\* queries whose client has left.
RenewedIsNewer ==
    \A m \in Media : mpc[m] = "send" /\ req[m].fresh => req[m].token > req[m].refused

\* Media returns, also when there are fewer concurrency tokens than calls, or it is cancelled
\* before it takes one.  There are two exceptions: a login that is tried for ever, and a
\* panic, when auth.Do sends a refused upload again (auth.go:239) with the body that has
\* been read, and the transport reads the file it has closed already.
MediaReturns ==
    []<>(apc # "login") /\ []~crashed => \A m \in Media : []<>(mpc[m] = "done")
===========================================================================
