--------------------------- MODULE BackendProofs ---------------------------
(***************************************************************************)
(* Theorems about Backend, for any number of calls, tries and tokens, any  *)
(* capacity and concurrency.                                               *)
(***************************************************************************)
EXTENDS Backend, FiniteSetTheorems, TLAPS

Parts == {"meta", "file"}

Requests == [part : Parts, method : {"POST", "PUT"}, try : Int, fresh : BOOLEAN,
             body : {"whole", "read"}, token : Nat, cached : BOOLEAN, refused : Nat]

Replies == [token : Nat, cached : BOOLEAN]

\* Facts about the records of requests.
LEMMA RequestParts == \A r \in Requests : r.part \in Parts
  BY DEF Requests

LEMMA RequestType ==
    ASSUME NEW part \in Parts, NEW method \in {"POST", "PUT"}, NEW try \in Int
    PROVE  Request(part, method, try) \in Requests /\ Request(part, method, try).part = part
  BY DEF Request, Requests

ReplyInv ==
    /\ reply \in [Media -> {<<>>} \union {<<r>> : r \in Replies}]
    /\ lastReply \in Replies /\ issued \in Nat

\* No reply yet.
LEMMA ReplyInit == Init => ReplyInv
  BY DEF Init, ReplyInv, Replies, NoReply

\* Replies come from lastReply.
LEMMA ReplyStep == ReplyInv /\ [Next]_vars => ReplyInv'
  <1>. SUFFICES ASSUME ReplyInv, [Next]_vars PROVE ReplyInv'
    OBVIOUS
  <1>1. CASE AuthReply
    <2>1. reply' = [reply EXCEPT ![asked.from] = <<lastReply>>] /\ issued' = issued
          /\ lastReply' = [lastReply EXCEPT !.cached = TRUE]
      BY <1>1 DEF AuthReply, serverVars
    <2>. QED
      BY <2>1 DEF ReplyInv, Replies
  <1>2. CASE LoginOk
    BY <1>2 DEF LoginOk, ReplyInv, Replies, callVars
  <1>3. CASE LoginCancelled
    BY <1>3 DEF LoginCancelled, ReplyInv, Replies, NoReply, callVars, serverVars
  <1>4. ASSUME NEW m \in Media, GetReply(m) PROVE ReplyInv'
    BY <1>4 DEF GetReply, ReplyInv, authVars, serverVars
  <1>5. CASE AuthTake \/ AuthEnd \/ Expire \/ CancelService \/ UNCHANGED vars
             \/ \E m \in Media : CancelMedia(m)
    BY <1>5 DEF AuthTake, AuthEnd, Expire, CancelService, CancelMedia, vars, callVars,
                authVars, serverVars, ReplyInv
  <1>6. ASSUME NEW m \in Media,
               MediaToken(m) \/ MediaStat(m) \/ AskAuth(m) \/ AskCancelled(m)
                 \/ SendRefused(m) \/ SendOk(m) \/ SendConflict(m) \/ SendFails(m)
        PROVE  ReplyInv'
    BY <1>6 DEF MediaToken, MediaStat, AskAuth, AskCancelled, SendRefused, SendOk,
                SendConflict, SendFails, authVars, serverVars, ReplyInv
  <1>. QED
    BY <1>1, <1>2, <1>3, <1>4, <1>5, <1>6 DEF Next, Attend, Call

\* What Media has reported is what the server has; a call gets to the file only when the
\* server has the metadata.
StoredInv ==
    /\ stored \in [Media -> SUBSET Parts]
    /\ req \in [Media -> Requests]
    /\ result \in [Media -> {"none", "ok", "error"}]
    /\ \A m \in Media : req[m].part = "file" => "meta" \in stored[m]
    /\ SuccessIsStored

Stores(m) == stored' = [stored EXCEPT ![m] = @ \union {req[m].part}]

\* The steps a call ends or begins a request with.
LEMMA CallSteps ==
    ASSUME StoredInv, NEW m \in Media,
           Stores(m) \/ stored' = stored,
           \/ Returns(m, "error")
           \/ Stores(m) /\ Succeeds(m)
           \/ \E method \in {"POST", "PUT"}, try \in Int, part \in {"meta", req[m].part} :
                Asks(m, Request(part, method, try))
    PROVE  StoredInv'
  <1>. USE DEF StoredInv, Parts, SuccessIsStored
  <1>1. req[m].part \in Parts
    BY RequestParts
  <1>3. stored' \in [Media -> SUBSET Parts]
        /\ \A n \in Media : stored[n] \subseteq stored'[n] /\ (n # m => stored'[n] = stored[n])
    BY <1>1 DEF Stores
  <1>2. Stores(m) => stored'[m] = stored[m] \union {req[m].part}
    BY DEF Stores
  <1>4. ASSUME NEW r \in Requests, req' = [req EXCEPT ![m] = r], result' = result,
               r.part = "file" => "meta" \in stored'[m]
        PROVE  StoredInv'
    BY <1>3, <1>4
  <1>5. ASSUME NEW r \in {"ok", "error"}, Returns(m, r), r = "ok" => stored'[m] = Parts
        PROVE  StoredInv'
    <2>1. req' = [req EXCEPT ![m] = Request("meta", "POST", 1)]
          /\ result' = [result EXCEPT ![m] = r]
      BY <1>5 DEF Returns
    <2>. QED
      BY <1>3, <1>5, <2>1, RequestType
  <1>6. CASE Returns(m, "error")
    BY <1>5, <1>6
  <1>7. CASE Stores(m) /\ Succeeds(m)
    <2>1. CASE req[m].part = "meta"
      <3>1. Asks(m, Request("file", "POST", 1)) /\ "meta" \in stored'[m]
        BY <1>2, <1>3, <1>7, <2>1 DEF Succeeds
      <3>2. Request("file", "POST", 1) \in Requests
        BY RequestType
      <3>3. req' = [req EXCEPT ![m] = Request("file", "POST", 1)] /\ result' = result
        BY <3>1 DEF Asks
      <3>. QED
        BY <1>4, <3>1, <3>2, <3>3
    <2>2. CASE req[m].part = "file"
      <3>1. Returns(m, "ok") /\ stored'[m] = Parts
        BY <1>2, <1>3, <1>7, <2>2 DEF Succeeds
      <3>. QED
        BY <1>5, <3>1
    <2>. QED
      BY <1>1, <2>1, <2>2
  <1>8. ASSUME NEW method \in {"POST", "PUT"}, NEW try \in Int,
               NEW part \in {"meta", req[m].part}, Asks(m, Request(part, method, try))
        PROVE  StoredInv'
    <2>1. part = "file" => "meta" \in stored'[m]
      BY <1>3
    <2>. QED
      BY <1>1, <1>4, <1>8, <2>1, RequestType DEF Asks
  <1>. QED
    BY <1>6, <1>7, <1>8

\* Nothing sent yet.
LEMMA StoredInit == Init => StoredInv
  BY RequestType DEF Init, StoredInv, Parts, SuccessIsStored

\* Every step keeps it.
LEMMA StoredStep == ReplyInv /\ StoredInv /\ [Next]_vars => StoredInv'
  <1>. SUFFICES ASSUME ReplyInv, StoredInv, [Next]_vars PROVE StoredInv'
    OBVIOUS
  <1>. USE BackendAssumption
  <1>1. CASE Attend \/ LoginOk \/ Expire \/ CancelService \/ UNCHANGED vars
             \/ \E m \in Media : CancelMedia(m)
    <2>1. UNCHANGED <<stored, req, result>>
      BY <1>1 DEF Attend, AuthTake, LoginCancelled, AuthReply, AuthEnd, LoginOk, Expire,
                  CancelService, CancelMedia, vars, callVars, serverVars
    <2>. QED
      BY <2>1 DEF StoredInv, SuccessIsStored
  <1>2. ASSUME NEW m \in Media, MediaToken(m) \/ AskAuth(m) PROVE StoredInv'
    BY <1>2 DEF MediaToken, AskAuth, StoredInv, SuccessIsStored, serverVars
  <1>3. ASSUME NEW m \in Media, MediaStat(m) \/ AskCancelled(m) PROVE StoredInv'
    <2>1. Returns(m, "error") \/ Asks(m, Request("meta", "POST", 1))
      BY <1>3 DEF MediaStat, AskCancelled, GivesUp
    <2>2. stored' = stored
      BY <1>3 DEF MediaStat, AskCancelled, serverVars, StoredInv
    <2>. QED
      BY <2>1, <2>2, CallSteps
  <1>4. ASSUME NEW m \in Media, TryFails(m), Stores(m) \/ stored' = stored
        PROVE  StoredInv'
    <2>1. req[m].try + 1 \in Int
      BY DEF StoredInv, Requests
    <2>2. Returns(m, "error") \/ Asks(m, Request(req[m].part, "POST", req[m].try + 1))
      BY <1>4 DEF TryFails, GivesUp
    <2>. QED
      BY <1>4, <2>1, <2>2, CallSteps
  <1>5. ASSUME NEW m \in Media, GetReply(m) PROVE StoredInv'
    <2>. DEFINE r == Head(reply[m])
    <2>1. CASE r.token = 0
      <3>1. Returns(m, "error") /\ stored' = stored
        BY <1>5, <2>1 DEF GetReply, GivesUp, serverVars, StoredInv
      <3>. QED
        BY <3>1, CallSteps
    <2>2. CASE r.token # 0
      <3>1. /\ req' = [req EXCEPT ![m].token = r.token, ![m].cached = r.cached]
            /\ UNCHANGED <<result, stored>>
        BY <1>5, <2>2 DEF GetReply, serverVars
      <3>2. r.token \in Nat /\ r.cached \in BOOLEAN
        BY <1>5, <2>2 DEF GetReply, ReplyInv, Replies
      <3>. DEFINE got == [req[m] EXCEPT !.token = r.token, !.cached = r.cached]
      <3>0. got \in Requests /\ got.part = req[m].part
        BY <3>2 DEF StoredInv, Requests
      <3>4. req' = [req EXCEPT ![m] = got]
        BY <3>1 DEF StoredInv
      <3>3. req' \in [Media -> Requests] /\ \A n \in Media : req'[n].part = req[n].part
        <4>. HIDE DEF got
        <4>. QED
          BY <3>0, <3>4 DEF StoredInv
      <3>. QED
        BY <3>1, <3>3 DEF StoredInv, SuccessIsStored
    <2>. QED
      BY <2>1, <2>2
  <1>6. ASSUME NEW m \in Media, SendRefused(m) PROVE StoredInv'
    <2>1. stored' = stored
      BY <1>6 DEF SendRefused, serverVars, StoredInv
    <2>2. CASE TryFails(m)
      BY <1>4, <2>1, <2>2
    <2>3. CASE Asks(m, [req[m] EXCEPT !.fresh = TRUE, !.body = "read", !.refused = req[m].token,
                                      !.token = 0, !.cached = FALSE])
      <3>. DEFINE again == [req[m] EXCEPT !.fresh = TRUE, !.body = "read",
                              !.refused = req[m].token, !.token = 0, !.cached = FALSE]
      <3>0. again \in Requests /\ again.part = req[m].part /\ req' = [req EXCEPT ![m] = again]
        BY <2>3 DEF Asks, StoredInv, Requests
      <3>1. req' \in [Media -> Requests] /\ \A n \in Media : req'[n].part = req[n].part
        <4>. HIDE DEF again
        <4>. QED
          BY <3>0 DEF StoredInv
      <3>. QED
        BY <1>6, <2>3, <3>1 DEF SendRefused, serverVars, Asks, StoredInv, SuccessIsStored
    <2>. QED
      BY <1>6, <2>2, <2>3 DEF SendRefused
  <1>7. ASSUME NEW m \in Media, SendOk(m) PROVE StoredInv'
    <2>1. req[m].part \in Parts
      BY RequestParts DEF StoredInv
    <2>. QED
      BY <1>7, <2>1, CallSteps DEF SendOk, Stores
  <1>8. ASSUME NEW m \in Media, SendConflict(m) PROVE StoredInv'
    <2>1. stored' = stored
      BY <1>8 DEF SendConflict, serverVars, StoredInv
    <2>2. CASE TryFails(m)
      BY <1>4, <2>1, <2>2
    <2>3. CASE Asks(m, Request("meta", "PUT", req[m].try))
      <3>1. req[m].try \in Int
        BY DEF StoredInv, Requests
      <3>. QED
        BY <2>1, <2>3, <3>1, CallSteps
    <2>. QED
      BY <1>8, <2>2, <2>3 DEF SendConflict, PutInstead
  <1>9. ASSUME NEW m \in Media, SendFails(m) PROVE StoredInv'
    <2>1. req[m].part \in Parts
      BY RequestParts DEF StoredInv
    <2>2. Stores(m) \/ stored' = stored
      BY <1>9 DEF SendFails, Stores
    <2>3. TryFails(m)
      BY <1>9 DEF SendFails
    <2>. QED
      BY <1>4, <2>1, <2>2, <2>3
  <1>. QED
    BY <1>1, <1>2, <1>3, <1>5, <1>6, <1>7, <1>8, <1>9 DEF Next, Call

\* The server has what Media has reported as sent.
THEOREM ReportedIsStored == Spec => []SuccessIsStored
  <1>1. StoredInv => SuccessIsStored
    BY DEF StoredInv
  <1>. QED
    BY <1>1, ReplyInit, ReplyStep, StoredInit, StoredStep, PTL DEF Spec
---------------------------------------------------------------------------
(* Each call has one query under way: in the channel, with WatchAuth, or   *)
(* answered.  So the reply a call gets is the one to its last query.       *)

Queries == [from : Media, fresh : BOOLEAN]

\* The client of q still waits for it, or has left for good.
Awaited(q) ==
    /\ mpc[q.from] \in {"reply", "done"}
    /\ mpc[q.from] = "reply" => req[q.from].fresh = q.fresh

OneQuery ==
    /\ queries \in Seq(Queries) /\ asked \in Queries \union {NoQuery}
    /\ \A i, j \in 1 .. Len(queries) : queries[i].from = queries[j].from => i = j
    /\ \A i \in 1 .. Len(queries) :
        Awaited(queries[i]) /\ reply[queries[i].from] = <<>> /\ asked.from # queries[i].from
    /\ apc \in {"login", "reply"} <=> asked.from \in Media
    /\ asked.from \in Media => Awaited(asked) /\ reply[asked.from] = <<>>
    /\ \A m \in Media : reply[m] # <<>> => mpc[m] \in {"reply", "done"}

\* Token t will do for call m.
Newer(m, t) == mpc[m] = "reply" /\ req[m].fresh => t = 0 \/ t > req[m].refused

RepliesNewer ==
    /\ apc = "reply" /\ asked.fresh => Newer(asked.from, lastReply.token)
    /\ \A m \in Media : reply[m] # <<>> => Newer(m, reply[m][1].token)

TokensIssued ==
    /\ lastReply.token <= issued
    /\ \A m \in Media : /\ reply[m] # <<>> => reply[m][1].token <= issued
                        /\ req[m].token <= issued /\ req[m].refused <= issued

RenewInv == DOMAIN mpc = Media /\ OneQuery /\ RepliesNewer /\ TokensIssued /\ RenewedIsNewer

\* No query and no token yet.
LEMMA RenewInit == Init => RenewInv
  <1>. SUFFICES ASSUME Init PROVE RenewInv
    OBVIOUS
  <1>1. \A m \in Media : req[m].token = 0 /\ req[m].refused = 0 /\ req[m].fresh = FALSE
    BY DEF Init, Request
  <1>2. NoQuery.from \notin Media /\ NoQuery.fresh = FALSE
    BY BackendAssumption DEF NoQuery
  <1>. QED
    BY <1>1, <1>2 DEF Init, RenewInv, OneQuery, RepliesNewer, TokensIssued, RenewedIsNewer,
       NoReply

\* A call that waits for no reply moves on, or one that does leaves.
LEMMA CallMoves ==
    ASSUME RenewInv, NEW m \in Media, NEW p, p \notin {"send", "reply"},
           p = "done" \/ mpc[m] \notin {"reply", "done"},
           mpc' = [mpc EXCEPT ![m] = p], DOMAIN req = Media, DOMAIN req' = Media,
           \A n \in Media : n # m => req'[n] = req[n],
           req'[m].token <= issued, req'[m].refused <= issued,
           UNCHANGED <<queries, apc, asked, lastReply, reply, issued>>
    PROVE  RenewInv'
  <1>. USE DEF RenewInv
  <1>1. \A n \in Media : n # m => mpc'[n] = mpc[n]
    OBVIOUS
  <1>2. mpc'[m] = p /\ DOMAIN mpc' = Media
    OBVIOUS
  <1>3. ASSUME NEW q \in Queries, Awaited(q) PROVE Awaited(q)'
    BY <1>1, <1>2, <1>3 DEF Awaited, Queries
  <1>4. OneQuery'
    <2>1. \A i \in 1 .. Len(queries) : queries[i] \in Queries
      BY DEF OneQuery
    <2>2. asked.from \in Media => asked \in Queries
      BY BackendAssumption DEF OneQuery, NoQuery
    <2>. QED
      BY <1>1, <1>2, <1>3, <2>1, <2>2 DEF OneQuery
  <1>5. ASSUME NEW n \in Media, NEW t, Newer(n, t) PROVE Newer(n, t)'
    BY <1>1, <1>2, <1>5 DEF Newer
  <1>6. RepliesNewer'
    BY <1>5 DEF RepliesNewer, OneQuery
  <1>7. TokensIssued'
    BY DEF TokensIssued
  <1>8. RenewedIsNewer'
    BY <1>1, <1>2 DEF RenewedIsNewer
  <1>. QED
    BY <1>2, <1>4, <1>6, <1>7, <1>8

\* WatchAuth.
LEMMA RenewAttend ==
    ASSUME ReplyInv, StoredInv, RenewInv,
           AuthTake \/ LoginOk \/ LoginCancelled \/ AuthReply \/ AuthEnd
    PROVE  RenewInv'
  <1>. USE DEF RenewInv, Awaited, Newer
  <1>t. /\ UNCHANGED <<mpc, req>> /\ lastReply \in Replies /\ issued \in Nat
        /\ NoQuery.from \notin Media /\ NoQuery.fresh = FALSE
        /\ DOMAIN reply = Media
    BY BackendAssumption DEF ReplyInv, NoQuery, AuthTake, LoginOk, LoginCancelled, AuthReply, AuthEnd,
       callVars
  <1>q. \A i \in 1 .. Len(queries) : queries[i] \in Queries /\ queries[i].from \in Media
    <2>1. \A i \in 1 .. Len(queries) : queries[i] \in Queries
      BY DEF OneQuery
    <2>. QED
      BY <2>1 DEF Queries
  <1>r. \A m \in Media : req[m].refused \in Nat
    BY DEF StoredInv, Requests
  <1>1. CASE AuthTake
    <2>1. /\ queries # <<>> /\ asked' = Head(queries) /\ queries' = Tail(queries)
          /\ apc = "idle" /\ apc' = IF NeedsLogin(Head(queries)) THEN "login" ELSE "reply"
          /\ UNCHANGED <<lastReply, reply, issued>>
      BY <1>1 DEF AuthTake, callVars, serverVars
    <2>2. /\ Len(queries) \in Nat /\ Len(queries) >= 1 /\ Len(queries') = Len(queries) - 1
          /\ queries' \in Seq(Queries) /\ asked' = queries[1] /\ asked' \in Queries
          /\ \A i \in 1 .. Len(queries) - 1 : queries'[i] = queries[i + 1]
      BY <2>1 DEF OneQuery
    <2>3. \A i \in 1 .. Len(queries') :
            i + 1 \in 1 .. Len(queries) /\ i + 1 # 1 /\ queries'[i] = queries[i + 1]
      BY <2>2
    <2>4. 1 \in 1 .. Len(queries)
      BY <2>2
    <2>5. ASSUME NEW i \in 1 .. Len(queries'), NEW j \in 1 .. Len(queries'),
                 queries'[i].from = queries'[j].from
          PROVE  i = j
      <3>1. i + 1 = j + 1
        BY <2>3, <2>5 DEF OneQuery
      <3>. QED
        BY <2>2, <3>1
    <2>6. \A i \in 1 .. Len(queries') :
            /\ Awaited(queries[i])' /\ reply'[queries'[i].from] = <<>>
            /\ asked'.from # queries'[i].from
      BY <1>t, <1>q, <2>1, <2>2, <2>3, <2>4 DEF OneQuery
    <2>7. asked'.from \in Media /\ Awaited(asked)' /\ reply'[asked'.from] = <<>>
      BY <1>t, <1>q, <2>1, <2>2, <2>4 DEF OneQuery, Queries
    <2>8. OneQuery'
      BY <1>t, <2>1, <2>2, <2>5, <2>6, <2>7 DEF OneQuery
    <2>9. RepliesNewer'
      BY <1>t, <2>1, <2>2 DEF RepliesNewer, NeedsLogin
    <2>. QED
      BY <1>t, <2>1, <2>8, <2>9 DEF TokensIssued, RenewedIsNewer
  <1>2. CASE LoginOk
    <2>1. /\ apc = "login" /\ apc' = "reply" /\ issued' = issued + 1
          /\ lastReply' = [token |-> issued + 1, cached |-> FALSE]
          /\ UNCHANGED <<queries, asked, reply>>
      BY <1>2 DEF LoginOk, callVars
    <2>2. OneQuery'
      BY <1>t, <2>1 DEF OneQuery
    <2>3. ASSUME NEW m \in Media PROVE Newer(m, issued + 1)
      BY <1>t, <1>r DEF TokensIssued
    <2>4. asked.from \in Media
      BY <2>1 DEF OneQuery
    <2>5. lastReply'.token = issued + 1 /\ lastReply'.token <= issued'
      BY <1>t, <2>1
    <2>6. RepliesNewer'
      BY <1>t, <2>1, <2>3, <2>4, <2>5 DEF RepliesNewer
    <2>7. ASSUME NEW t \in Nat, t <= issued PROVE t <= issued'
      BY <1>t, <2>1, <2>7
    <2>8. \A m \in Media : /\ req[m].token \in Nat /\ req[m].refused \in Nat
                           /\ reply[m] # <<>> => reply[m][1].token \in Nat
      BY DEF StoredInv, Requests, ReplyInv, Replies
    <2>9. TokensIssued'
      <3>1. ASSUME NEW m \in Media
            PROVE  /\ reply[m] # <<>> => reply[m][1].token <= issued'
                   /\ req[m].token <= issued' /\ req[m].refused <= issued'
        BY <2>7, <2>8 DEF TokensIssued
      <3>. QED
        BY <1>t, <2>1, <2>5, <3>1 DEF TokensIssued
    <2>. QED
      BY <1>t, <2>1, <2>2, <2>6, <2>9 DEF RenewedIsNewer
  <1>3. CASE LoginCancelled
    <2>1. /\ apc = "login" /\ apc' = "reply" /\ lastReply'.token = 0
          /\ UNCHANGED <<queries, asked, reply, issued>>
      BY <1>3 DEF LoginCancelled, callVars, serverVars, NoReply
    <2>2. OneQuery'
      BY <1>t, <2>1 DEF OneQuery
    <2>3. RepliesNewer'
      BY <1>t, <2>1 DEF RepliesNewer, Newer
    <2>. QED
      BY <1>t, <2>1, <2>2, <2>3 DEF TokensIssued, RenewedIsNewer
  <1>4. CASE AuthReply
    <2>1. /\ apc = "reply" /\ apc' = "idle" /\ asked' = NoQuery /\ lastReply'.token = lastReply.token
          /\ reply' = [reply EXCEPT ![asked.from] = <<lastReply>>]
          /\ UNCHANGED <<queries, issued>>
      BY <1>t, <1>4 DEF AuthReply, serverVars, Replies
    <2>2. asked.from \in Media /\ Awaited(asked)
      BY <2>1 DEF OneQuery
    <2>3. reply'[asked.from] = <<lastReply>> /\ reply'[asked.from][1].token = lastReply.token
          /\ \A n \in Media : n # asked.from => reply'[n] = reply[n]
      BY <1>t, <2>1, <2>2
    <2>5. OneQuery'
      BY <1>t, <1>q, <2>1, <2>2, <2>3 DEF OneQuery
    <2>6. Newer(asked.from, lastReply.token)
      BY <2>1, <2>2 DEF RepliesNewer, Awaited, Newer
    <2>7. RepliesNewer'
      BY <1>t, <2>1, <2>3, <2>6 DEF RepliesNewer
    <2>8. TokensIssued'
      BY <1>t, <2>1, <2>3 DEF TokensIssued
    <2>. QED
      BY <1>t, <2>5, <2>7, <2>8 DEF RenewedIsNewer
  <1>5. CASE AuthEnd
    <2>1. apc = "idle" /\ apc' = "over" /\ UNCHANGED <<queries, asked, lastReply, reply, issued>>
      BY <1>5 DEF AuthEnd, callVars, serverVars
    <2>. QED
      BY <1>t, <2>1 DEF OneQuery, RepliesNewer, TokensIssued, RenewedIsNewer
  <1>. QED
    BY <1>1, <1>2, <1>3, <1>4, <1>5

\* A call puts a query in the channel: it had none under way.
LEMMA RenewAsk == ASSUME StoredInv, RenewInv, NEW m \in Media, AskAuth(m) PROVE RenewInv'
  <1>. USE DEF RenewInv
  <1>. DEFINE q == [from |-> m, fresh |-> req[m].fresh]
  <1>1. /\ mpc[m] = "ask" /\ queries' = Append(queries, q)
        /\ mpc' = [mpc EXCEPT ![m] = "reply"]
        /\ UNCHANGED <<req, reply, apc, asked, lastReply, issued>>
    BY DEF AskAuth, serverVars
  <1>2. q \in Queries /\ q.from = m /\ q.fresh = req[m].fresh
    BY DEF Queries, StoredInv, Requests
  <1>3. /\ Len(queries) \in Nat /\ Len(queries') = Len(queries) + 1 /\ queries' \in Seq(Queries)
        /\ queries'[Len(queries) + 1] = q
        /\ \A i \in 1 .. Len(queries) : queries'[i] = queries[i]
    BY <1>1, <1>2 DEF OneQuery
  <1>4. DOMAIN mpc' = Media /\ mpc'[m] = "reply" /\ \A n \in Media : n # m => mpc'[n] = mpc[n]
    BY <1>1
  <1>5. reply[m] = <<>> /\ asked.from # m /\ \A i \in 1 .. Len(queries) : queries[i].from # m
    BY <1>1 DEF OneQuery, Awaited
  <1>6. \A i \in 1 .. Len(queries) : queries[i].from \in Media
    <2>1. \A i \in 1 .. Len(queries) : queries[i] \in Queries
      BY DEF OneQuery
    <2>. QED
      BY <2>1 DEF Queries
  <1>7. ASSUME NEW p, p.from \in Media, p.from # m, Awaited(p) PROVE Awaited(p)'
    BY <1>1, <1>4, <1>7 DEF Awaited
  <1>8. Awaited(q)'
    BY <1>1, <1>2, <1>4 DEF Awaited
  <1>9. \A i \in 1 .. Len(queries') : i \in 1 .. Len(queries) \/ i = Len(queries) + 1
    BY <1>3
  <1>10. ASSUME NEW i \in 1 .. Len(queries'), NEW j \in 1 .. Len(queries'),
                queries'[i].from = queries'[j].from
         PROVE  i = j
    BY <1>2, <1>3, <1>5, <1>9, <1>10 DEF OneQuery
  <1>11. ASSUME NEW i \in 1 .. Len(queries')
         PROVE  /\ Awaited(queries[i])' /\ reply'[queries'[i].from] = <<>>
                /\ asked'.from # queries'[i].from
    <2>1. CASE i \in 1 .. Len(queries)
      BY <1>1, <1>3, <1>5, <1>6, <1>7, <2>1 DEF OneQuery
    <2>2. CASE i = Len(queries) + 1
      <3>1. queries'[i] = q
        BY <1>3, <2>2
      <3>2. Awaited(queries[i])'
        BY <1>1, <1>2, <1>4, <3>1 DEF Awaited
      <3>. QED
        BY <1>1, <1>2, <1>5, <3>1, <3>2
    <2>. QED
      BY <1>9, <2>1, <2>2
  <1>12. OneQuery'
    BY <1>1, <1>3, <1>4, <1>5, <1>7, <1>10, <1>11 DEF OneQuery
  <1>13. RepliesNewer'
    <2>1. ASSUME NEW n \in Media, NEW t, n # m, Newer(n, t) PROVE Newer(n, t)'
      BY <1>1, <1>4, <2>1 DEF Newer
    <2>2. apc' = "reply" => asked.from \in Media
      BY <1>1 DEF OneQuery
    <2>. QED
      BY <1>1, <1>5, <2>1, <2>2 DEF RepliesNewer
  <1>. QED
    BY <1>1, <1>4, <1>12, <1>13 DEF TokensIssued, RenewedIsNewer

\* A call takes the reply to its query.
LEMMA RenewReply ==
    ASSUME ReplyInv, StoredInv, RenewInv, NEW m \in Media, GetReply(m) PROVE RenewInv'
  <1>. USE DEF RenewInv
  <1>. DEFINE r == reply[m][1]
              p == IF r.token = 0 THEN "done" ELSE "send"
  <1>1. /\ mpc[m] = "reply" /\ reply[m] # <<>> /\ reply' = [reply EXCEPT ![m] = <<>>]
        /\ UNCHANGED <<queries, apc, asked, lastReply, issued>>
    BY DEF GetReply, authVars, serverVars
  <1>2. DOMAIN reply = Media /\ DOMAIN req = Media
    BY DEF ReplyInv, StoredInv
  <1>3. r \in Replies /\ Head(reply[m]) = r
    BY <1>1 DEF ReplyInv
  <1>4. /\ mpc' = [mpc EXCEPT ![m] = p]
        /\ \/ r.token = 0 /\ req' = [req EXCEPT ![m] = Request("meta", "POST", 1)]
           \/ r.token # 0 /\ req' = [req EXCEPT ![m].token = r.token, ![m].cached = r.cached]
    BY <1>3 DEF GetReply, GivesUp, Returns
  <1>5. DOMAIN mpc' = Media /\ mpc'[m] = p /\ \A n \in Media : n # m =>
          mpc'[n] = mpc[n] /\ req'[n] = req[n] /\ reply'[n] = reply[n]
    BY <1>1, <1>2, <1>4
  <1>6. reply'[m] = <<>>
    BY <1>1, <1>2
  <1>7. \/ r.token = 0 /\ req'[m].token = 0 /\ req'[m].refused = 0
        \/ /\ r.token # 0 /\ req'[m].token = r.token
           /\ req'[m].refused = req[m].refused /\ req'[m].fresh = req[m].fresh
    <2>1. CASE r.token = 0
      BY <1>2, <1>4, <2>1 DEF Request
    <2>2. CASE r.token # 0
      BY <1>2, <1>4, <2>2 DEF StoredInv, Requests
    <2>. QED
      BY <2>1, <2>2
  <1>8. asked.from # m /\ \A i \in 1 .. Len(queries) : queries[i].from # m
    BY <1>1 DEF OneQuery
  <1>9. \A i \in 1 .. Len(queries) : queries[i].from \in Media
    <2>1. \A i \in 1 .. Len(queries) : queries[i] \in Queries
      BY DEF OneQuery
    <2>. QED
      BY <2>1 DEF Queries
  <1>10. ASSUME NEW q, q.from \in Media, q.from # m, Awaited(q) PROVE Awaited(q)'
    BY <1>5, <1>10 DEF Awaited
  <1>11. OneQuery'
    BY <1>1, <1>5, <1>6, <1>8, <1>9, <1>10 DEF OneQuery
  <1>12. RepliesNewer'
    <2>1. ASSUME NEW n \in Media, NEW t, n # m, Newer(n, t) PROVE Newer(n, t)'
      BY <1>5, <2>1 DEF Newer
    <2>2. apc' = "reply" => asked.from \in Media
      BY <1>1 DEF OneQuery
    <2>. QED
      BY <1>1, <1>5, <1>6, <1>8, <2>1, <2>2 DEF RepliesNewer
  <1>13. TokensIssued'
    <2>1. r.token <= issued /\ req[m].refused <= issued
      BY <1>1 DEF TokensIssued
    <2>2. 0 <= issued
      BY DEF ReplyInv
    <2>. QED
      BY <1>1, <1>5, <1>6, <1>7, <2>1, <2>2 DEF TokensIssued
  <1>14. RenewedIsNewer'
    <2>1. Newer(m, r.token)
      BY <1>1 DEF RepliesNewer
    <2>2. mpc'[m] = "send" /\ req'[m].fresh => req'[m].token > req'[m].refused
      BY <1>1, <1>5, <1>7, <2>1 DEF Newer
    <2>. QED
      BY <1>5, <2>2 DEF RenewedIsNewer
  <1>. QED
    BY <1>5, <1>11, <1>12, <1>13, <1>14

\* The other steps of a call.
LEMMA RenewCall ==
    ASSUME ReplyInv, StoredInv, RenewInv, NEW m \in Media,
           MediaToken(m) \/ MediaStat(m) \/ AskCancelled(m)
             \/ SendRefused(m) \/ SendOk(m) \/ SendConflict(m) \/ SendFails(m)
    PROVE  RenewInv'
  <1>1. /\ UNCHANGED <<queries, apc, asked, lastReply, reply, issued>>
        /\ mpc[m] \in {"queue", "stat", "send"} \/ AskCancelled(m)
    BY DEF MediaToken, MediaStat, AskCancelled, SendRefused, SendOk, SendConflict, SendFails,
           authVars, serverVars
  <1>2. DOMAIN req = Media /\ issued \in Nat
    BY DEF StoredInv, ReplyInv
  <1>3. ASSUME NEW p \in {"stat", "ask", "done"}, NEW r, mpc' = [mpc EXCEPT ![m] = p],
               req' = [req EXCEPT ![m] = r], r.token = 0, r.refused <= issued,
               p = "done" \/ mpc[m] \in {"queue", "stat", "send"}
        PROVE  RenewInv'
    <2>1. DOMAIN req' = Media /\ \A n \in Media : n # m => req'[n] = req[n]
      BY <1>2, <1>3
    <2>2. req'[m].token <= issued /\ req'[m].refused <= issued
      BY <1>2, <1>3
    <2>3. p \notin {"send", "reply"} /\ (p = "done" \/ mpc[m] \notin {"reply", "done"})
      BY <1>3
    <2>. QED
      BY <1>1, <1>2, <1>3, <2>1, <2>2, <2>3, CallMoves
  <1>4. ASSUME NEW returns, Returns(m, returns) PROVE RenewInv'
    <2>1. /\ mpc' = [mpc EXCEPT ![m] = "done"]
          /\ req' = [req EXCEPT ![m] = Request("meta", "POST", 1)]
      BY <1>4 DEF Returns
    <2>2. Request("meta", "POST", 1).token = 0 /\ Request("meta", "POST", 1).refused <= issued
      BY <1>2 DEF Request
    <2>. QED
      BY <1>3, <2>1, <2>2
  <1>5. ASSUME NEW part, NEW method, NEW try, Asks(m, Request(part, method, try)),
               mpc[m] \in {"stat", "send"}
        PROVE  RenewInv'
    <2>1. /\ mpc' = [mpc EXCEPT ![m] = "ask"]
          /\ req' = [req EXCEPT ![m] = Request(part, method, try)]
      BY <1>5 DEF Asks
    <2>2. Request(part, method, try).token = 0 /\ Request(part, method, try).refused <= issued
      BY <1>2 DEF Request
    <2>. QED
      BY <1>3, <1>5, <2>1, <2>2
  <1>6. ASSUME TryFails(m), mpc[m] = "send" PROVE RenewInv'
    BY <1>4, <1>5, <1>6 DEF TryFails, GivesUp
  <1>7. CASE MediaToken(m)
    <2>1. mpc[m] = "queue" /\ mpc' = [mpc EXCEPT ![m] = "stat"] /\ req' = req
      BY <1>7 DEF MediaToken
    <2>2. req[m].token <= issued /\ req[m].refused <= issued
      BY DEF RenewInv, TokensIssued
    <2>. QED
      BY <1>1, <1>2, <2>1, <2>2, CallMoves
  <1>8. CASE MediaStat(m) \/ AskCancelled(m)
    BY <1>4, <1>5, <1>8 DEF MediaStat, AskCancelled, GivesUp
  <1>9. CASE SendRefused(m)
    <2>1. CASE TryFails(m)
      BY <1>6, <1>9, <2>1 DEF SendRefused
    <2>2. CASE ~TryFails(m)
      <3>. DEFINE r == [req[m] EXCEPT !.fresh = TRUE, !.body = "read", !.refused = req[m].token,
                                      !.token = 0, !.cached = FALSE]
      <3>1. mpc[m] = "send" /\ Asks(m, r)
        BY <1>9, <2>2 DEF SendRefused
      <3>2. mpc' = [mpc EXCEPT ![m] = "ask"] /\ req' = [req EXCEPT ![m] = r]
        BY <3>1 DEF Asks
      <3>3. r.token = 0 /\ r.refused = req[m].token
        BY DEF StoredInv, Requests
      <3>4. r.refused <= issued
        BY <3>3 DEF RenewInv, TokensIssued
      <3>. QED
        BY <1>3, <3>1, <3>2, <3>3, <3>4
    <2>. QED
      BY <2>1, <2>2
  <1>10. CASE SendOk(m)
    BY <1>4, <1>5, <1>10 DEF SendOk, Succeeds
  <1>11. CASE SendConflict(m)
    BY <1>5, <1>6, <1>11 DEF SendConflict, PutInstead
  <1>12. CASE SendFails(m)
    BY <1>6, <1>12 DEF SendFails
  <1>. QED
    BY <1>7, <1>8, <1>9, <1>10, <1>11, <1>12

\* Every step keeps it.
LEMMA RenewStep == ReplyInv /\ StoredInv /\ RenewInv /\ [Next]_vars => RenewInv'
  <1>. SUFFICES ASSUME ReplyInv, StoredInv, RenewInv, [Next]_vars PROVE RenewInv'
    OBVIOUS
  <1>1. CASE Expire \/ CancelService \/ UNCHANGED vars \/ \E m \in Media : CancelMedia(m)
    <2>1. UNCHANGED <<mpc, req, queries, reply, apc, asked, lastReply, issued>>
      BY <1>1 DEF Expire, CancelService, CancelMedia, vars, callVars, authVars, serverVars
    <2>. QED
      BY <2>1 DEF RenewInv, OneQuery, Awaited, Newer, RepliesNewer, TokensIssued, RenewedIsNewer
  <1>2. CASE Attend \/ LoginOk
    BY <1>2, RenewAttend DEF Attend
  <1>3. ASSUME NEW m \in Media, Call(m) PROVE RenewInv'
    BY <1>3, RenewAsk, RenewReply, RenewCall DEF Call
  <1>. QED
    BY <1>1, <1>2, <1>3 DEF Next

\* A request that was refused is sent again with a token issued after that.
THEOREM RenewedTokensAreNewer == Spec => []RenewedIsNewer
  <1>1. RenewInv => RenewedIsNewer
    BY DEF RenewInv
  <1>. QED
    BY <1>1, ReplyInit, ReplyStep, StoredInit, StoredStep, RenewInit, RenewStep, PTL DEF Spec
---------------------------------------------------------------------------
(* Types.  A concurrency token is with the server or with a call that has  *)
(* not returned.                                                           *)

Active == {m \in Media : mpc[m] \notin {"queue", "done"}}

TokensCounted ==
    /\ IsFiniteSet(Active) /\ queue \in Int /\ queue + Cardinality(Active) = concurrency
    /\ concurrency \in 1 .. MaxConcurrency

TypedRequest == [part : {"meta", "file"}, method : {"POST", "PUT"}, try : 1 .. MaxTries,
                 fresh : BOOLEAN, body : {"whole", "read"}, token : 0 .. issued,
                 cached : BOOLEAN, refused : 0 .. issued]

CallTypes ==
    /\ mpc \in [Media -> {"queue", "stat", "ask", "reply", "send", "done"}]
    /\ req \in [Media -> TypedRequest]
    /\ result \in [Media -> {"none", "ok", "error"}]

AuthTypes ==
    /\ queries \in Seq([from : Media, fresh : BOOLEAN]) /\ Len(queries) <= QueryCap
    /\ reply \in [Media -> {<<>>} \union {<<r>> : r \in Reply}]
    /\ apc \in {"idle", "login", "reply", "over"}
    /\ asked \in [from : Media \union {NoCall}, fresh : BOOLEAN]
    /\ lastReply \in Reply

OtherTypes ==
    /\ cancelled \subseteq Media /\ ctxDone \in BOOLEAN /\ crashed \in BOOLEAN
    /\ issued \in 0 .. MaxLogins /\ accepted \subseteq 1 .. issued
    /\ stored \in [Media -> SUBSET {"meta", "file"}]

TypeInv == TokensCounted /\ CallTypes /\ AuthTypes /\ OtherTypes

\* A new try sends a new request.
LEMMA NewRequest ==
    ASSUME OtherTypes, NEW part \in {"meta", "file"}, NEW method \in {"POST", "PUT"},
           NEW try \in 1 .. MaxTries
    PROVE  Request(part, method, try) \in TypedRequest
  BY BackendAssumption DEF OtherTypes, Request, TypedRequest

\* No call has a token.
LEMMA TypeInit == Init => TypeInv
  <1>. SUFFICES ASSUME Init PROVE TypeInv
    OBVIOUS
  <1>1. OtherTypes
    <2>1. issued \in 0 .. MaxLogins
      BY BackendAssumption DEF Init
    <2>. QED
      BY <2>1 DEF Init, OtherTypes
  <1>2. Active = {}
    BY DEF Init, Active
  <1>3. TokensCounted
    BY <1>2, FS_EmptySet, BackendAssumption DEF Init, TokensCounted
  <1>4. CallTypes
    BY <1>1, NewRequest, BackendAssumption DEF Init, CallTypes
  <1>5. AuthTypes
    BY BackendAssumption DEF Init, AuthTypes, Reply, NoReply, NoQuery
  <1>. QED
    BY <1>1, <1>3, <1>4, <1>5 DEF TypeInv

\* A call that has a token goes on, or returns and gives it back.
LEMMA TypeCall ==
    ASSUME TokensCounted, CallTypes, NEW m \in Media, m \in Active,
           OtherTypes, UNCHANGED <<issued, concurrency>>,
           \/ \E r \in {"ok", "error"} : Returns(m, r)
           \/ \E r \in TypedRequest : Asks(m, r)
    PROVE  TokensCounted' /\ CallTypes'
  <1>1. TypedRequest' = TypedRequest
    BY DEF TypedRequest
  <1>2. ASSUME NEW r \in {"ok", "error"}, Returns(m, r) PROVE TokensCounted' /\ CallTypes'
    <2>1. /\ mpc' = [mpc EXCEPT ![m] = "done"] /\ result' = [result EXCEPT ![m] = r]
          /\ req' = [req EXCEPT ![m] = Request("meta", "POST", 1)] /\ queue' = queue + 1
      BY <1>2 DEF Returns, GivenBack
    <2>2. Active' = Active \ {m}
      BY <2>1 DEF Active, CallTypes
    <2>3. IsFiniteSet(Active \ {m}) /\ Cardinality(Active \ {m}) = Cardinality(Active) - 1
          /\ Cardinality(Active) \in Nat
      BY FS_RemoveElement, FS_CardinalityType DEF TokensCounted
    <2>4. Request("meta", "POST", 1) \in TypedRequest
      BY NewRequest, BackendAssumption
    <2>. QED
      BY <1>1, <2>1, <2>2, <2>3, <2>4, BackendAssumption DEF TokensCounted, CallTypes
  <1>3. ASSUME NEW r \in TypedRequest, Asks(m, r) PROVE TokensCounted' /\ CallTypes'
    <2>1. /\ mpc' = [mpc EXCEPT ![m] = "ask"] /\ req' = [req EXCEPT ![m] = r]
          /\ UNCHANGED <<queue, result>>
      BY <1>3 DEF Asks
    <2>2. Active' = Active
      BY <2>1 DEF Active, CallTypes
    <2>. QED
      BY <1>1, <2>1, <2>2 DEF TokensCounted, CallTypes
  <1>. QED
    BY <1>2, <1>3

\* The steps of a call that end a request, or begin one.
LEMMA TypeRequests ==
    ASSUME TypeInv, NEW m \in Media,
           \/ MediaStat(m) \/ AskCancelled(m) \/ SendRefused(m) \/ SendOk(m) \/ SendConflict(m)
           \/ SendFails(m),
           concurrency' = concurrency
    PROVE  TokensCounted' /\ CallTypes'
  <1>. USE DEF TypeInv
  <1>1. m \in Active /\ issued' = issued /\ concurrency' = concurrency
    BY DEF Active, MediaStat, AskCancelled, SendRefused, SendOk, SendConflict, SendFails, serverVars
  <1>r. /\ req[m].part \in {"meta", "file"} /\ req[m].try \in 1 .. MaxTries
        /\ req[m] \in TypedRequest /\ req[m].token \in 0 .. issued
    BY DEF CallTypes, TypedRequest
  <1>2. ASSUME GivesUp(m) PROVE TokensCounted' /\ CallTypes'
    BY <1>1, <1>2, TypeCall DEF GivesUp
  <1>3. ASSUME NEW part \in {"meta", "file"}, NEW method \in {"POST", "PUT"},
               NEW try \in 1 .. MaxTries, Asks(m, Request(part, method, try))
        PROVE  TokensCounted' /\ CallTypes'
    BY <1>1, <1>3, NewRequest, TypeCall
  <1>4. 1 \in 1 .. MaxTries
    BY BackendAssumption
  <1>5. ASSUME TryFails(m) PROVE TokensCounted' /\ CallTypes'
    <2>1. CASE req[m].try = MaxTries
      BY <1>2, <1>5, <2>1 DEF TryFails
    <2>2. CASE req[m].try # MaxTries
      <3>1. req[m].try + 1 \in 1 .. MaxTries
        BY <1>r, <2>2, BackendAssumption
      <3>. QED
        BY <1>2, <1>3, <1>5, <1>r, <3>1 DEF TryFails
    <2>. QED
      BY <2>1, <2>2
  <1>6. CASE MediaStat(m) \/ AskCancelled(m)
    BY <1>2, <1>3, <1>4, <1>6 DEF MediaStat, AskCancelled
  <1>7. CASE SendRefused(m)
    <2>1. CASE TryFails(m)
      BY <1>5, <2>1
    <2>2. CASE ~TryFails(m)
      <3>. DEFINE r == [req[m] EXCEPT !.fresh = TRUE, !.body = "read", !.refused = req[m].token,
                                      !.token = 0, !.cached = FALSE]
      <3>1. Asks(m, r)
        BY <1>7, <2>2 DEF SendRefused
      <3>2. r \in TypedRequest
        <4>1. 0 \in 0 .. issued
          BY BackendAssumption DEF OtherTypes
        <4>. QED
          BY <1>r, <4>1 DEF TypedRequest
      <3>. QED
        BY <1>1, <3>1, <3>2, TypeCall
    <2>. QED
      BY <2>1, <2>2
  <1>8. CASE SendOk(m)
    <2>1. CASE req[m].part = "meta"
      BY <1>3, <1>4, <1>8, <2>1 DEF SendOk, Succeeds
    <2>2. CASE req[m].part = "file"
      BY <1>1, <1>8, <2>2, TypeCall DEF SendOk, Succeeds
    <2>. QED
      BY <1>r, <2>1, <2>2
  <1>9. CASE SendConflict(m)
    BY <1>3, <1>5, <1>9, <1>r DEF SendConflict, PutInstead
  <1>10. CASE SendFails(m)
    BY <1>5, <1>10 DEF SendFails
  <1>. QED
    BY <1>6, <1>7, <1>8, <1>9, <1>10

\* Every step keeps it.
LEMMA TypeStep == TypeInv /\ [Next]_vars => TypeInv'
  <1>. SUFFICES ASSUME TypeInv, [Next]_vars PROVE TypeInv'
    OBVIOUS
  <1>. USE DEF TypeInv
  <1>t. /\ \A r \in Reply : r \in [token : 0 .. issued, cached : BOOLEAN]
        /\ issued \in Nat /\ NoCall \notin Media
    BY BackendAssumption DEF Reply, OtherTypes
  <1>c. concurrency' = concurrency
    BY DEF Next, Running, vars
  <1>1. ASSUME UNCHANGED <<queue, mpc, req, result, issued>> PROVE TokensCounted' /\ CallTypes'
    <2>1. Active' = Active /\ TypedRequest' = TypedRequest
      BY <1>1 DEF Active, TypedRequest
    <2>. QED
      BY <1>c, <1>1, <2>1 DEF TokensCounted, CallTypes
  <1>2. ASSUME UNCHANGED <<queries, reply, apc, asked, lastReply, issued>> PROVE AuthTypes'
    BY <1>2 DEF AuthTypes, Reply
  <1>3. ASSUME UNCHANGED <<cancelled, ctxDone, crashed, issued, accepted, stored>> PROVE OtherTypes'
    BY <1>3 DEF OtherTypes
  <1>4. CASE AuthTake
    <2>1. /\ asked' = Head(queries) /\ queries' = Tail(queries) /\ apc' \in {"login", "reply"}
          /\ queries # <<>> /\ UNCHANGED <<lastReply, reply, callVars, ctxVars, serverVars>>
      BY <1>4 DEF AuthTake, callVars
    <2>2. /\ Head(queries) \in [from : Media, fresh : BOOLEAN] /\ Len(queries') <= Len(queries)
          /\ Tail(queries) \in Seq([from : Media, fresh : BOOLEAN]) /\ Len(queries') \in Nat
      <3>. DEFINE Q == [from : Media, fresh : BOOLEAN]
      <3>1. queries \in Seq(Q) /\ queries # <<>> /\ queries' = Tail(queries)
        BY <2>1 DEF AuthTypes
      <3>. HIDE DEF Q
      <3>2. /\ Head(queries) \in Q /\ Tail(queries) \in Seq(Q)
            /\ Len(Tail(queries)) = Len(queries) - 1 /\ Len(queries) \in Nat /\ Len(queries) # 0
        BY <3>1
      <3>. QED
        BY <3>1, <3>2 DEF Q
    <2>3. asked' \in [from : Media \union {NoCall}, fresh : BOOLEAN] /\ Len(queries') <= QueryCap
      BY <2>1, <2>2, BackendAssumption DEF AuthTypes
    <2>4. AuthTypes'
      BY <2>1, <2>2, <2>3 DEF AuthTypes, Reply, serverVars
    <2>. QED
      BY <1>1, <1>3, <2>1, <2>4 DEF callVars, ctxVars, serverVars
  <1>5. CASE LoginOk
    <2>1. /\ issued' = issued + 1 /\ issued < MaxLogins /\ accepted' = accepted \union {issued + 1}
          /\ lastReply' = [token |-> issued + 1, cached |-> FALSE] /\ apc' = "reply"
          /\ UNCHANGED <<queries, asked, stored, reply, queue, mpc, req, result,
                         cancelled, ctxDone, crashed>>
      BY <1>5 DEF LoginOk, callVars, ctxVars
    <2>2. /\ 0 .. issued \subseteq 0 .. issued' /\ 1 .. issued \subseteq 1 .. issued'
          /\ issued' \in 0 .. MaxLogins /\ issued + 1 \in 1 .. issued'
      BY <1>t, <2>1, BackendAssumption
    <2>3. OtherTypes'
      BY <2>1, <2>2 DEF OtherTypes
    <2>4. Reply \subseteq Reply' /\ lastReply' \in Reply'
      BY <2>1, <2>2 DEF Reply
    <2>5. AuthTypes'
      BY <2>1, <2>4 DEF AuthTypes
    <2>6. TypedRequest \subseteq TypedRequest'
      BY <2>2 DEF TypedRequest
    <2>7. Active' = Active
      BY <2>1 DEF Active
    <2>. QED
      BY <1>c, <2>1, <2>3, <2>5, <2>6, <2>7 DEF TokensCounted, CallTypes
  <1>6. CASE LoginCancelled
    <2>1. /\ lastReply' = NoReply /\ apc' = "reply"
          /\ UNCHANGED <<queries, asked, reply, callVars, ctxVars, serverVars>>
      BY <1>6 DEF LoginCancelled, callVars
    <2>2. AuthTypes'
      BY <1>t, <2>1 DEF AuthTypes, Reply, NoReply, serverVars
    <2>. QED
      BY <1>1, <1>3, <2>1, <2>2 DEF callVars, ctxVars, serverVars
  <1>7. CASE AuthReply
    <2>1. /\ reply' = [reply EXCEPT ![asked.from] = <<lastReply>>]
          /\ lastReply' = [lastReply EXCEPT !.cached = TRUE] /\ apc' = "idle" /\ asked' = NoQuery
          /\ UNCHANGED <<queries, queue, mpc, req, result, ctxVars, serverVars>>
      BY <1>7 DEF AuthReply
    <2>2. lastReply' \in Reply /\ Reply' = Reply
      BY <2>1 DEF AuthTypes, Reply, serverVars
    <2>3. AuthTypes'
      BY <2>1, <2>2 DEF AuthTypes, NoQuery
    <2>. QED
      BY <1>1, <1>3, <2>1, <2>3 DEF ctxVars, serverVars
  <1>8. CASE AuthEnd
    <2>1. apc' = "over" /\ UNCHANGED <<queries, asked, lastReply, callVars, ctxVars, serverVars>>
      BY <1>8 DEF AuthEnd
    <2>2. AuthTypes'
      BY <2>1 DEF AuthTypes, Reply, callVars, serverVars
    <2>. QED
      BY <1>1, <1>3, <2>1, <2>2 DEF callVars, ctxVars, serverVars
  <1>9. CASE Expire \/ CancelService \/ UNCHANGED vars \/ \E m \in Media : CancelMedia(m)
    <2>1. UNCHANGED <<callVars, authVars, issued>>
      BY <1>9 DEF Expire, CancelService, CancelMedia, vars, serverVars
    <2>2. OtherTypes'
      BY <1>9 DEF Expire, CancelService, CancelMedia, vars, ctxVars, serverVars, OtherTypes
    <2>. QED
      BY <1>1, <1>2, <2>1, <2>2 DEF callVars, authVars
  <1>10. ASSUME NEW m \in Media, MediaToken(m) PROVE TypeInv'
    <2>1. /\ mpc[m] = "queue" /\ queue' = queue - 1 /\ mpc' = [mpc EXCEPT ![m] = "stat"]
          /\ UNCHANGED <<req, result, reply, ctxVars, authVars, serverVars>>
      BY <1>10 DEF MediaToken
    <2>2. Active' = Active \union {m} /\ m \notin Active
      BY <2>1 DEF Active, CallTypes
    <2>3. IsFiniteSet(Active \union {m}) /\ Cardinality(Active \union {m}) = Cardinality(Active) + 1
          /\ Cardinality(Active) \in Nat
      BY <2>2, FS_AddElement, FS_CardinalityType DEF TokensCounted
    <2>4. TokensCounted'
      BY <1>c, <2>1, <2>2, <2>3, BackendAssumption DEF TokensCounted
    <2>5. CallTypes'
      BY <2>1 DEF CallTypes, TypedRequest, serverVars
    <2>. QED
      BY <1>2, <1>3, <2>1, <2>4, <2>5 DEF ctxVars, authVars, serverVars
  <1>11. ASSUME NEW m \in Media, AskAuth(m) PROVE TypeInv'
    <2>. DEFINE q == [from |-> m, fresh |-> req[m].fresh]
    <2>1. /\ mpc[m] = "ask" /\ Len(queries) < QueryCap /\ queries' = Append(queries, q)
          /\ mpc' = [mpc EXCEPT ![m] = "reply"]
          /\ UNCHANGED <<queue, req, result, reply, apc, asked, lastReply, ctxVars, serverVars>>
      BY <1>11 DEF AskAuth
    <2>2. q \in [from : Media, fresh : BOOLEAN]
      BY DEF CallTypes, TypedRequest
    <2>3. Active' = Active
      BY <2>1 DEF Active, CallTypes
    <2>4. TokensCounted' /\ CallTypes'
      BY <1>c, <2>1, <2>3 DEF TokensCounted, CallTypes, TypedRequest, serverVars
    <2>5. queries' \in Seq([from : Media, fresh : BOOLEAN]) /\ Len(queries') <= QueryCap
      BY <2>1, <2>2, BackendAssumption DEF AuthTypes
    <2>6. AuthTypes'
      BY <2>1, <2>5 DEF AuthTypes, Reply, serverVars
    <2>. QED
      BY <1>3, <2>1, <2>4, <2>6 DEF ctxVars, serverVars
  <1>12. ASSUME NEW m \in Media, GetReply(m) PROVE TypeInv'
    <2>1. /\ mpc[m] = "reply" /\ reply[m] # <<>> /\ reply' = [reply EXCEPT ![m] = <<>>]
          /\ UNCHANGED <<ctxVars, authVars, serverVars>>
      BY <1>12 DEF GetReply
    <2>2. AuthTypes' /\ OtherTypes'
      BY <1>3, <2>1 DEF AuthTypes, Reply, ctxVars, authVars, serverVars
    <2>3. Head(reply[m]) \in Reply
      BY <2>1 DEF AuthTypes
    <2>4. CASE GivesUp(m)
      BY <1>c, <2>1, <2>2, <2>4, TypeCall DEF GivesUp, Active, serverVars
    <2>5. CASE ~GivesUp(m)
      <3>1. /\ mpc' = [mpc EXCEPT ![m] = "send"]
            /\ req' = [req EXCEPT ![m].token = Head(reply[m]).token,
                                  ![m].cached = Head(reply[m]).cached]
            /\ UNCHANGED <<queue, result>>
        BY <1>12, <2>5 DEF GetReply
      <3>2. Active' = Active
        BY <2>1, <3>1 DEF Active, CallTypes
      <3>3. TypedRequest' = TypedRequest
        BY <2>1 DEF TypedRequest, serverVars
      <3>4. req' \in [Media -> TypedRequest]
        <4>1. Head(reply[m]).token \in 0 .. issued /\ Head(reply[m]).cached \in BOOLEAN
          BY <2>3 DEF Reply
        <4>2. req[m] \in TypedRequest /\ req \in [Media -> TypedRequest]
          BY DEF CallTypes
        <4>3. [req[m] EXCEPT !.token = Head(reply[m]).token, !.cached = Head(reply[m]).cached]
                \in TypedRequest
          BY <4>1, <4>2 DEF TypedRequest
        <4>4. req' = [req EXCEPT ![m] = [req[m] EXCEPT !.token = Head(reply[m]).token,
                                                       !.cached = Head(reply[m]).cached]]
          BY <3>1, <4>2
        <4>. QED
          BY <4>2, <4>3, <4>4
      <3>5. CallTypes'
        BY <3>1, <3>3, <3>4 DEF CallTypes
      <3>. QED
        BY <1>c, <2>1, <2>2, <3>1, <3>2, <3>5 DEF TokensCounted
    <2>. QED
      BY <2>4, <2>5
  <1>13. ASSUME NEW m \in Media,
                \/ MediaStat(m) \/ AskCancelled(m) \/ SendRefused(m) \/ SendOk(m)
                \/ SendConflict(m) \/ SendFails(m)
         PROVE  TypeInv'
    <2>1. TokensCounted' /\ CallTypes'
      BY <1>c, <1>13, TypeRequests
    <2>2. UNCHANGED <<reply, authVars, issued, accepted, cancelled, ctxDone>>
      BY <1>13 DEF MediaStat, AskCancelled, SendRefused, SendOk, SendConflict, SendFails, ctxVars,
         serverVars
    <2>3. AuthTypes'
      BY <1>2, <2>2 DEF authVars
    <2>4. stored' \in [Media -> SUBSET {"meta", "file"}] /\ crashed' \in BOOLEAN
      <3>1. req[m].part \in {"meta", "file"}
        BY DEF CallTypes, TypedRequest
      <3>2. CASE stored' = [stored EXCEPT ![m] = @ \union {req[m].part}]
                   /\ (SendOk(m) \/ SendFails(m))
        BY <3>1, <3>2 DEF OtherTypes, SendOk, SendFails, ctxVars
      <3>3. CASE stored' = stored
        BY <1>13, <3>3 DEF OtherTypes, MediaStat, AskCancelled, SendRefused, SendOk, SendConflict,
           SendFails, ctxVars
      <3>. QED
        BY <1>13, <3>2, <3>3 DEF MediaStat, AskCancelled, SendRefused, SendOk, SendConflict,
           SendFails, serverVars
    <2>5. OtherTypes'
      BY <2>2, <2>4 DEF OtherTypes
    <2>. QED
      BY <2>1, <2>3, <2>5
  <1>. QED
    BY <1>4, <1>5, <1>6, <1>7, <1>8, <1>9, <1>10, <1>11, <1>12, <1>13 DEF Next, Attend, Call

\* Every variable has its type, and no concurrency token is lost or made up.
THEOREM TypeCorrect == Spec => []TypeOK
  <1>1. TypeInv => TypeOK
    BY DEF TypeInv, TokensCounted, Active, CallTypes, TypedRequest, AuthTypes, OtherTypes, TypeOK
  <1>. QED
    BY <1>1, TypeInit, TypeStep, PTL DEF Spec
---------------------------------------------------------------------------
(* Calls return, once logins are granted or cancelled: somebody always     *)
(* goes on, and everybody has less to do after each of their own steps.    *)

HasQuery(m) == asked.from = m \/ \E i \in 1 .. Len(queries) : queries[i].from = m

WaitInv ==
    /\ \A m \in Media : mpc[m] = "reply" /\ reply[m] = <<>> => HasQuery(m)
    /\ apc = "over" => ctxDone

\* Nobody waits for a reply.
LEMMA WaitInit == Init => WaitInv
  BY DEF Init, WaitInv

\* A query stays in the channel, or with WatchAuth, until it is answered.
LEMMA WaitStep == TypeInv /\ OneQuery /\ WaitInv /\ [Next]_vars => WaitInv'
  <1>. SUFFICES ASSUME TypeInv, OneQuery, WaitInv, [Next]_vars PROVE WaitInv'
    OBVIOUS
  <1>t. /\ mpc \in [Media -> {"queue", "stat", "ask", "reply", "send", "done"}]
        /\ queries \in Seq(Queries) /\ DOMAIN reply = Media
    BY DEF TypeInv, CallTypes, AuthTypes, OneQuery
  <1>1. CASE AuthTake
    <2>1. /\ queries # <<>> /\ asked' = Head(queries) /\ queries' = Tail(queries)
          /\ apc = "idle" /\ apc' # "over" /\ UNCHANGED <<mpc, reply>>
      BY <1>1 DEF AuthTake, callVars
    <2>2. asked.from \notin Media
      BY <2>1 DEF OneQuery
    <2>3. ASSUME NEW m \in Media, HasQuery(m) PROVE HasQuery(m)'
      <3>1. PICK i \in 1 .. Len(queries) : queries[i].from = m
        BY <2>2, <2>3 DEF HasQuery
      <3>2. CASE i = 1
        BY <1>t, <2>1, <3>1, <3>2 DEF HasQuery
      <3>3. CASE i # 1
        <4>1. i - 1 \in 1 .. Len(queries') /\ queries'[i - 1] = queries[i]
          BY <1>t, <2>1, <3>3
        <4>. QED
          BY <3>1, <4>1 DEF HasQuery
      <3>. QED
        BY <3>2, <3>3
    <2>. QED
      BY <2>1, <2>3 DEF WaitInv
  <1>2. CASE AuthReply
    <2>1. /\ reply' = [reply EXCEPT ![asked.from] = <<lastReply>>] /\ apc' = "idle"
          /\ UNCHANGED <<mpc, queries>>
      BY <1>2 DEF AuthReply
    <2>2. ASSUME NEW m \in Media, reply'[m] = <<>> PROVE reply[m] = <<>> /\ m # asked.from
      BY <1>t, <2>1, <2>2
    <2>. QED
      BY <2>1, <2>2 DEF WaitInv, HasQuery
  <1>3. ASSUME NEW m \in Media, AskAuth(m) PROVE WaitInv'
    <2>. DEFINE q == [from |-> m, fresh |-> req[m].fresh]
    <2>1. /\ queries' = Append(queries, q) /\ mpc' = [mpc EXCEPT ![m] = "reply"]
          /\ UNCHANGED <<reply, asked, apc, ctxDone>>
      BY <1>3 DEF AskAuth, ctxVars
    <2>2. q \in Queries
      BY DEF Queries, TypeInv, CallTypes, TypedRequest
    <2>3. /\ Len(queries') = Len(queries) + 1 /\ queries'[Len(queries) + 1] = q
          /\ \A i \in 1 .. Len(queries) : i \in 1 .. Len(queries') /\ queries'[i] = queries[i]
          /\ Len(queries) + 1 \in 1 .. Len(queries')
      <3>. HIDE DEF q
      <3>. QED
        BY <1>t, <2>1, <2>2
    <2>4. HasQuery(m)'
      BY <2>3 DEF HasQuery
    <2>5. ASSUME NEW n \in Media, HasQuery(n) PROVE HasQuery(n)'
      BY <2>1, <2>3, <2>5 DEF HasQuery
    <2>. QED
      BY <1>t, <2>1, <2>4, <2>5 DEF WaitInv
  <1>4. ASSUME NEW m \in Media, Call(m), ~AskAuth(m) PROVE WaitInv'
    <2>1. /\ UNCHANGED <<queries, asked, apc, ctxDone>>
          /\ \E p \in {"stat", "ask", "send", "done"} : mpc' = [mpc EXCEPT ![m] = p]
      BY <1>4 DEF Call, MediaToken, MediaStat, AskCancelled, GetReply, SendRefused, SendOk,
                  SendConflict, SendFails, Succeeds, PutInstead, TryFails, GivesUp, Returns, Asks,
                  ctxVars, authVars
    <2>2. \A n \in Media : n # m => reply'[n] = reply[n]
      BY <1>t, <1>4 DEF Call, MediaToken, MediaStat, AskCancelled, GetReply, SendRefused, SendOk,
                  SendConflict, SendFails
    <2>. QED
      BY <1>t, <2>1, <2>2 DEF WaitInv, HasQuery
  <1>5. CASE LoginOk \/ LoginCancelled \/ AuthEnd \/ Expire \/ CancelService \/ UNCHANGED vars
             \/ \E m \in Media : CancelMedia(m)
    <2>1. /\ UNCHANGED <<queries, asked, mpc, reply>>
          /\ apc' = "over" => ctxDone'
      BY <1>5 DEF LoginOk, LoginCancelled, AuthEnd, Expire, CancelService, CancelMedia, WaitInv,
                  vars, callVars, authVars, ctxVars
    <2>. QED
      BY <2>1 DEF WaitInv, HasQuery
  <1>. QED
    BY <1>1, <1>2, <1>3, <1>4, <1>5 DEF Next, Attend

\* The guards of the steps of call m, and of WatchAuth but for a login that is granted.
CallGoesOn(m) ==
    \/ mpc[m] = "queue" /\ queue > 0
    \/ mpc[m] \in {"stat", "send"}
    \/ mpc[m] = "ask" /\ Len(queries) < QueryCap
    \/ mpc[m] \in {"ask", "reply"} /\ Cancelled(m)
    \/ mpc[m] = "reply" /\ reply[m] # <<>>

AttendGoesOn ==
    \/ apc = "idle" /\ (queries # <<>> \/ ctxDone)
    \/ apc = "login" /\ ctxDone
    \/ apc = "reply"

CallsNeverStuck ==
    (\E m \in Media : mpc[m] # "done") =>
        AttendGoesOn \/ apc = "login" \/ \E m \in Media : CallGoesOn(m)

\* A call that has a token can go on, or WatchAuth can.
LEMMA SomebodyGoesOn == TypeInv /\ OneQuery /\ WaitInv => CallsNeverStuck
  <1>. SUFFICES ASSUME TypeInv, OneQuery, WaitInv, NEW m \in Media, mpc[m] # "done",
                       ~AttendGoesOn, apc # "login"
                PROVE  \E n \in Media : CallGoesOn(n)
    BY DEF CallsNeverStuck
  <1>1. ASSUME NEW n \in Active PROVE CallGoesOn(n)
    <2>1. n \in Media /\ mpc[n] \in {"stat", "ask", "reply", "send"}
      BY DEF Active, TypeInv, CallTypes
    <2>2. CASE apc = "over"
      BY <2>1, <2>2 DEF WaitInv, CallGoesOn, Cancelled
    <2>3. CASE apc = "idle"
      <3>1. queries = <<>> /\ Len(queries) = 0 /\ asked.from \notin Media
        BY <2>3 DEF AttendGoesOn, OneQuery
      <3>2. ~HasQuery(n)
        BY <2>1, <3>1 DEF HasQuery
      <3>. QED
        BY <2>1, <3>1, <3>2, BackendAssumption DEF WaitInv, CallGoesOn
    <2>. QED
      BY <2>2, <2>3 DEF AttendGoesOn, TypeInv, AuthTypes
  <1>2. CASE Active = {}
    <2>1. mpc[m] = "queue"
      BY <1>2 DEF Active
    <2>2. queue = concurrency /\ concurrency \in 1 .. MaxConcurrency
      BY <1>2, FS_EmptySet, BackendAssumption DEF TypeInv, TokensCounted
    <2>. QED
      BY <2>1, <2>2, BackendAssumption DEF CallGoesOn
  <1>. QED
    BY <1>1, <1>2 DEF Active

LEMMA AlwaysWaits == Spec => [](TypeInv /\ OneQuery /\ WaitInv)
  <1>1. RenewInv => OneQuery
    BY DEF RenewInv
  <1>. QED
    BY <1>1, ReplyInit, ReplyStep, StoredInit, StoredStep, RenewInit, RenewStep, TypeInit, TypeStep,
       WaitInit, WaitStep, PTL DEF Spec

\* While a call of Media has not returned, a call or WatchAuth can go on, unless
\* WatchAuth waits for a login to be granted: no reply and no token is waited for in vain.
THEOREM MediaNeverStuck == Spec => []CallsNeverStuck
  BY SomebodyGoesOn, AlwaysWaits, PTL

\* The steps a call may take after request r: with a fresh token, as PUT, in other tries
\* (of 12 steps at most), for the file.
RequestLeft(r) ==
    (IF r.fresh THEN 0 ELSE 3) + (IF r.method = "PUT" THEN 0 ELSE 6)
    + 12 * (MaxTries - r.try) + (IF r.part = "file" THEN 0 ELSE 12 * MaxTries)

CallLeft(m) ==
    CASE mpc[m] = "queue" -> 24 * MaxTries + 2
      [] mpc[m] = "stat"  -> 24 * MaxTries + 1
      [] mpc[m] = "ask"   -> RequestLeft(req[m]) + 3
      [] mpc[m] = "reply" -> RequestLeft(req[m]) + 2
      [] mpc[m] = "send"  -> RequestLeft(req[m]) + 1
      [] mpc[m] = "done"  -> 0

AttendLeft ==
    3 * Len(queries) + (CASE apc = "login" -> 3 [] apc = "reply" -> 2 [] apc = "idle" -> 1
                          [] apc = "over" -> 0)

WorkBounded ==
    /\ \A m \in Media : CallLeft(m) \in 0 .. 24 * MaxTries + 2
    /\ AttendLeft \in 0 .. 3 * QueryCap + 3

CallsEndStep ==
    /\ \A m \in Media : /\ CallLeft(m)' <= CallLeft(m)
                        /\ Call(m) => CallLeft(m)' < CallLeft(m)
    /\ Attend \/ LoginOk => AttendLeft' < AttendLeft
    /\ AttendLeft' > AttendLeft => \E m \in Media : Call(m)

CallsComeToAnEnd == [][CallsEndStep]_vars

\* Metadata and file take at most 12 steps a try.
LEMMA RequestBound ==
    ASSUME OtherTypes, NEW r \in TypedRequest
    PROVE  RequestLeft(r) \in 0 .. 24 * MaxTries - 3
  <1>1. r.try \in 1 .. MaxTries /\ MaxTries \in Nat \ {0}
    BY BackendAssumption DEF TypedRequest
  <1>2. 12 * (MaxTries - r.try) \in 0 .. 12 * MaxTries - 12
    BY <1>1
  <1>. QED
    BY <1>1, <1>2 DEF RequestLeft

LEMMA WorkIsBounded == TypeInv => WorkBounded
  <1>. SUFFICES ASSUME TypeInv PROVE WorkBounded
    OBVIOUS
  <1>1. ASSUME NEW m \in Media PROVE CallLeft(m) \in 0 .. 24 * MaxTries + 2
    <2>1. RequestLeft(req[m]) \in 0 .. 24 * MaxTries - 3 /\ MaxTries \in Nat
      BY RequestBound, BackendAssumption DEF TypeInv, CallTypes
    <2>2. mpc[m] \in {"queue", "stat", "ask", "reply", "send", "done"}
      BY DEF TypeInv, CallTypes
    <2>. QED
      BY <2>1, <2>2 DEF CallLeft
  <1>2. AttendLeft \in 0 .. 3 * QueryCap + 3
    <2>1. Len(queries) \in 0 .. QueryCap
      BY BackendAssumption DEF TypeInv, AuthTypes
    <2>. QED
      BY <2>1, BackendAssumption DEF TypeInv, AuthTypes, AttendLeft
  <1>. QED
    BY <1>1, <1>2 DEF WorkBounded

\* A step of a call leaves the others as they are.
LEMMA OthersUntouched ==
    ASSUME TypeInv, NEW m \in Media, Call(m), NEW n \in Media, n # m
    PROVE  mpc'[n] = mpc[n] /\ req'[n] = req[n]
  <1>1. \/ req' = req
        \/ \E r : req' = [req EXCEPT ![m] = r]
        \/ \E t, c : req' = [req EXCEPT ![m].token = t, ![m].cached = c]
    BY DEF Call, MediaToken, MediaStat, AskAuth, AskCancelled, GetReply, SendRefused, SendOk,
           SendConflict, SendFails, Succeeds, PutInstead, TryFails, GivesUp, Returns, Asks
  <1>2. \E p : mpc' = [mpc EXCEPT ![m] = p]
    BY DEF Call, MediaToken, MediaStat, AskAuth, AskCancelled, GetReply, SendRefused, SendOk,
           SendConflict, SendFails, Succeeds, PutInstead, TryFails, GivesUp, Returns, Asks
  <1>. QED
    BY <1>1, <1>2 DEF TypeInv, CallTypes

\* A call has less to do after each of its steps.
LEMMA CallHasLess ==
    ASSUME TypeInv, NEW m \in Media, Call(m)
    PROVE  CallLeft(m)' < CallLeft(m)
  <1>t. /\ mpc \in [Media -> {"queue", "stat", "ask", "reply", "send", "done"}]
        /\ req \in [Media -> TypedRequest] /\ req[m] \in TypedRequest
        /\ MaxTries \in Nat \ {0}
    BY BackendAssumption DEF TypeInv, CallTypes
  <1>r. /\ req[m].part \in {"meta", "file"} /\ req[m].method \in {"POST", "PUT"}
        /\ req[m].try \in 1 .. MaxTries /\ req[m].fresh \in BOOLEAN
    BY <1>t DEF TypedRequest
  <1>b. RequestLeft(req[m]) \in 0 .. 24 * MaxTries - 3
    BY <1>t, RequestBound DEF TypeInv
  <1>1. ASSUME NEW returns, Returns(m, returns), mpc[m] \notin {"queue", "done"}
        PROVE  CallLeft(m)' < CallLeft(m)
    <2>1. mpc'[m] = "done"
      BY <1>t, <1>1 DEF Returns
    <2>. QED
      BY <1>t, <1>b, <1>1, <2>1 DEF CallLeft
  <1>2. ASSUME NEW r, Asks(m, r), mpc[m] = "send", RequestLeft(r) \in Int,
               RequestLeft(r) + 3 <= RequestLeft(req[m])
        PROVE  CallLeft(m)' < CallLeft(m)
    <2>1. mpc'[m] = "ask" /\ req'[m] = r
      BY <1>t, <1>2 DEF Asks
    <2>. QED
      BY <1>b, <1>2, <2>1 DEF CallLeft, RequestLeft
  <1>3. ASSUME TryFails(m), mpc[m] = "send" PROVE CallLeft(m)' < CallLeft(m)
    <2>1. CASE GivesUp(m)
      BY <1>1, <1>3, <2>1 DEF GivesUp
    <2>2. CASE ~GivesUp(m)
      <3>. DEFINE r == Request(req[m].part, "POST", req[m].try + 1)
      <3>1. Asks(m, r)
        BY <1>3, <2>2 DEF TryFails
      <3>2. RequestLeft(r) \in Int /\ RequestLeft(r) + 3 <= RequestLeft(req[m])
        BY <1>t, <1>r DEF RequestLeft, Request
      <3>. QED
        BY <1>2, <1>3, <3>1, <3>2
    <2>. QED
      BY <2>1, <2>2
  <1>4. CASE MediaToken(m)
    <2>1. mpc[m] = "queue" /\ mpc'[m] = "stat"
      BY <1>t, <1>4 DEF MediaToken
    <2>. QED
      BY <1>t, <2>1 DEF CallLeft
  <1>5. CASE MediaStat(m)
    <2>1. CASE GivesUp(m)
      BY <1>1, <1>5, <2>1 DEF GivesUp, MediaStat
    <2>2. CASE ~GivesUp(m)
      <3>1. mpc[m] = "stat" /\ mpc'[m] = "ask" /\ req'[m] = Request("meta", "POST", 1)
        BY <1>t, <1>5, <2>2 DEF MediaStat, Asks
      <3>2. RequestLeft(Request("meta", "POST", 1)) = 24 * MaxTries - 3
        BY <1>t DEF RequestLeft, Request
      <3>. QED
        BY <1>t, <3>1, <3>2 DEF CallLeft
    <2>. QED
      BY <2>1, <2>2
  <1>6. CASE AskAuth(m)
    <2>1. mpc[m] = "ask" /\ mpc'[m] = "reply" /\ req' = req
      BY <1>t, <1>6 DEF AskAuth
    <2>. QED
      BY <1>b, <2>1 DEF CallLeft, RequestLeft
  <1>7. CASE AskCancelled(m)
    BY <1>1, <1>7 DEF AskCancelled, GivesUp
  <1>8. CASE GetReply(m)
    <2>1. CASE GivesUp(m)
      BY <1>1, <1>8, <2>1 DEF GetReply, GivesUp
    <2>2. CASE ~GivesUp(m)
      <3>. DEFINE t == Head(reply[m]).token
                  c == Head(reply[m]).cached
                  r == [req[m] EXCEPT !.token = t, !.cached = c]
      <3>1. /\ mpc[m] = "reply" /\ mpc' = [mpc EXCEPT ![m] = "send"]
            /\ req' = [req EXCEPT ![m].token = t, ![m].cached = c]
        BY <1>8, <2>2 DEF GetReply
      <3>2. mpc'[m] = "send" /\ req'[m] = r
        BY <1>t, <3>1
      <3>3. r.fresh = req[m].fresh /\ r.method = req[m].method /\ r.try = req[m].try
            /\ r.part = req[m].part
        BY <1>t DEF TypedRequest
      <3>. HIDE DEF r
      <3>4. RequestLeft(r) = RequestLeft(req[m])
        BY <3>3 DEF RequestLeft
      <3>. QED
        BY <1>b, <3>1, <3>2, <3>4 DEF CallLeft, RequestLeft
    <2>. QED
      BY <2>1, <2>2
  <1>9. CASE SendRefused(m)
    <2>1. CASE TryFails(m)
      BY <1>3, <1>9, <2>1 DEF SendRefused
    <2>2. CASE ~TryFails(m)
      <3>. DEFINE r == [req[m] EXCEPT !.fresh = TRUE, !.body = "read", !.refused = req[m].token,
                                      !.token = 0, !.cached = FALSE]
      <3>1. mpc[m] = "send" /\ ~req[m].fresh /\ Asks(m, r)
        BY <1>9, <2>2 DEF SendRefused
      <3>2. r.fresh /\ r.method = req[m].method /\ r.try = req[m].try /\ r.part = req[m].part
        BY <1>t DEF TypedRequest
      <3>. HIDE DEF r
      <3>3. RequestLeft(r) \in Int /\ RequestLeft(r) + 3 <= RequestLeft(req[m])
        BY <1>b, <1>t, <1>r, <3>1, <3>2 DEF RequestLeft
      <3>. QED
        BY <1>2, <3>1, <3>3
    <2>. QED
      BY <2>1, <2>2
  <1>10. CASE SendOk(m)
    <2>1. CASE req[m].part = "meta"
      <3>1. mpc[m] = "send" /\ Asks(m, Request("file", "POST", 1))
        BY <1>10, <2>1 DEF SendOk, Succeeds
      <3>2. /\ RequestLeft(Request("file", "POST", 1)) \in Int
            /\ RequestLeft(Request("file", "POST", 1)) + 3 <= 12 * MaxTries
        BY <1>t DEF RequestLeft, Request
      <3>3. RequestLeft(req[m]) >= 12 * MaxTries
        BY <1>t, <1>r, <2>1 DEF RequestLeft
      <3>. QED
        BY <1>2, <1>b, <1>t, <3>1, <3>2, <3>3
    <2>. QED
      BY <1>1, <1>2, <1>10, <2>1 DEF SendOk, Succeeds
  <1>11. CASE SendConflict(m)
    <2>1. CASE TryFails(m)
      BY <1>3, <1>11, <2>1 DEF SendConflict
    <2>2. CASE ~TryFails(m)
      <3>. DEFINE r == Request("meta", "PUT", req[m].try)
      <3>1. mpc[m] = "send" /\ req[m].method = "POST" /\ req[m].part # "file" /\ Asks(m, r)
        BY <1>11, <2>2 DEF SendConflict, PutInstead
      <3>2. RequestLeft(r) \in Int /\ RequestLeft(r) + 3 <= RequestLeft(req[m])
        BY <1>t, <1>r, <3>1 DEF RequestLeft, Request
      <3>. QED
        BY <1>2, <3>1, <3>2
    <2>. QED
      BY <2>1, <2>2
  <1>12. CASE SendFails(m)
    BY <1>3, <1>12 DEF SendFails
  <1>. QED
    BY <1>4, <1>5, <1>6, <1>7, <1>8, <1>9, <1>10, <1>11, <1>12 DEF Call

\* WatchAuth has less to do after each of its steps; only a call gives it more.
LEMMA AttendHasLess ==
    ASSUME TypeInv, Attend \/ LoginOk
    PROVE  /\ AttendLeft' < AttendLeft
           /\ UNCHANGED <<mpc, req>>
  <1>1. Len(queries) \in Nat
    BY DEF TypeInv, AuthTypes
  <1>2. CASE AuthTake
    <2>1. /\ queries # <<>> /\ queries' = Tail(queries) /\ apc = "idle"
          /\ apc' \in {"login", "reply"}
      BY <1>2 DEF AuthTake
    <2>2. Len(queries') = Len(queries) - 1
      BY <2>1 DEF TypeInv, AuthTypes
    <2>. QED
      BY <1>1, <1>2, <2>1, <2>2 DEF AuthTake, AttendLeft, callVars
  <1>3. CASE LoginOk \/ LoginCancelled
    BY <1>1, <1>3 DEF LoginOk, LoginCancelled, AttendLeft, callVars
  <1>4. CASE AuthReply
    BY <1>1, <1>4 DEF AuthReply, AttendLeft
  <1>5. CASE AuthEnd
    BY <1>1, <1>5 DEF AuthEnd, AttendLeft, callVars
  <1>. QED
    BY <1>2, <1>3, <1>4, <1>5 DEF Attend

\* The steps of the server and those that cancel do not count.
LEMMA WorkStep == TypeInv /\ [Next]_vars => CallsEndStep
  <1>. SUFFICES ASSUME TypeInv, [Next]_vars PROVE CallsEndStep
    OBVIOUS
  <1>p. WorkBounded /\ WorkBounded'
    BY WorkIsBounded, TypeStep, PTL
  <1>w. /\ \A m \in Media : CallLeft(m) \in Int /\ CallLeft(m)' \in Int
        /\ AttendLeft \in Int /\ AttendLeft' \in Int
    BY <1>p, BackendAssumption DEF WorkBounded
  <1>1. ASSUME NEW n \in Media, mpc'[n] = mpc[n], req'[n] = req[n]
        PROVE  CallLeft(n)' <= CallLeft(n)
    <2>1. CallLeft(n)' = CallLeft(n)
      BY <1>1 DEF CallLeft, RequestLeft
    <2>. QED
      BY <1>w, <2>1
  <1>2. ASSUME NEW m \in Media, Call(m), NEW n \in Media PROVE CallLeft(n)' <= CallLeft(n)
    <2>1. CASE n # m
      BY <1>1, <1>2, <2>1, OthersUntouched
    <2>2. CASE n = m
      <3>1. CallLeft(m)' < CallLeft(m)
        BY <1>2, CallHasLess
      <3>. QED
        BY <1>w, <2>2, <3>1
    <2>. QED
      BY <2>1, <2>2
  <1>3. CASE Expire \/ CancelService \/ UNCHANGED vars \/ \E m \in Media : CancelMedia(m)
    <2>1. UNCHANGED <<mpc, req, queries, apc>>
      BY <1>3 DEF Expire, CancelService, CancelMedia, vars, callVars, authVars
    <2>2. AttendLeft' = AttendLeft /\ \A n \in Media : CallLeft(n)' <= CallLeft(n)
      BY <1>1, <2>1 DEF AttendLeft
    <2>. QED
      BY <1>w, <2>2, CallHasLess, AttendHasLess DEF CallsEndStep
  <1>4. CASE Attend \/ LoginOk
    <2>1. AttendLeft' < AttendLeft /\ UNCHANGED <<mpc, req>>
      BY <1>4, AttendHasLess
    <2>. QED
      BY <1>w, <1>1, <2>1, CallHasLess DEF CallsEndStep
  <1>5. ASSUME NEW m \in Media, Call(m) PROVE CallsEndStep
    BY <1>2, <1>5, CallHasLess, AttendHasLess DEF CallsEndStep
  <1>. QED
    BY <1>3, <1>4, <1>5 DEF Next

\* A call of Media returns after a bounded number of its own steps, and WatchAuth takes a
\* bounded number between two of them: with MediaNeverStuck, what stands behind
\* MediaReturns.  No cancellation and no answer of the server adds to the work.
THEOREM MediaEnds == Spec => []WorkBounded /\ CallsComeToAnEnd
  <1>1. TypeInv => WorkBounded
    BY WorkIsBounded
  <1>2. TypeInv /\ [Next]_vars => [CallsEndStep]_vars
    BY WorkStep
  <1>. QED
    BY <1>1, <1>2, TypeInit, TypeStep, PTL DEF Spec, CallsComeToAnEnd
===========================================================================
