------------------------------ MODULE OddsStream ------------------------------
(***************************************************************************)
(* Live odds over a websocket: the /ws handler of cmd/gateway/main.go,     *)
(* odds.Service.StartSubscription and the provider's Subscribe.            *)
(*                                                                         *)
(* A connection has a goroutine that reads messages and one that pings.  A *)
(* subscription has three more, joined by two bounded channels:            *)
(*   provider --updates--> cacher (SET odds:market:X) --cached--> writer   *)
(* The provider and the cacher wait for a channel or for the end of the    *)
(* request's context; the writer only for its channel.  The context ends   *)
(* when the handler returns, which waits for the pinger.                   *)
(***************************************************************************)
EXTENDS Integers, Sequences, Functions

CONSTANTS
  Conn, ConnUser,     \* connections, and whose they are
  Sub, SubConn,       \* subscriptions, and the connection each is asked for on
  SubMarkets,         \* the markets of a subscription, in its order
  Cap,                \* the capacity of a channel
  NoConn, NoOdds,
  MaxUpdates, MaxFaults   \* bounds

Market == UNION {Range(SubMarkets[s]) : s \in Sub}

ASSUME StreamAssumption ==
  /\ SubConn \in [Sub -> Conn]
  /\ SubMarkets \in [Sub -> Seq(Market) \ {<<>>}]
  /\ Cap \in Nat \ {0} /\ MaxUpdates \in Nat /\ MaxFaults \in Nat

VARIABLES
  link,       \* the network connection: none, up, down
  handler,    \* the goroutine that reads: none, reading, waiting, returned
  pinger,     \* the goroutine that pings: none, beating, done
  wsConns,    \* the connection on record for each user
  provider, cacher, writer,  \* the goroutines of a subscription
  todo,       \* the markets the provider has still to send of this tick
  updates, cached,           \* the two channels
  inCacher, inWriter,        \* the update each goroutine has in hand, if any
  produced,   \* how many updates the provider has sent
  delivered,  \* history: the updates the client was sent
  redis,      \* odds:market:X
  unsaved,    \* history: the updates whose SET failed
  stopping, faults

connVars == <<link, handler, pinger, wsConns, stopping>>
pipeVars == <<provider, cacher, writer, todo, updates, cached, inCacher, inWriter,
              produced, delivered>>
redisVars == <<redis, unsaved, faults>>
streamVars == <<connVars, pipeVars, redisVars>>

Watcher == {ConnUser[c] : c \in Conn}
Update == [sub : Sub, market : Market, n : 1..MaxUpdates]

StreamInit ==
  /\ link = [c \in Conn |-> "none"]
  /\ handler = [c \in Conn |-> "none"] /\ pinger = [c \in Conn |-> "none"]
  /\ wsConns = [u \in Watcher |-> NoConn]
  /\ provider = [s \in Sub |-> "none"] /\ cacher = [s \in Sub |-> "none"]
  /\ writer = [s \in Sub |-> "none"]
  /\ todo = [s \in Sub |-> <<>>]
  /\ updates = [s \in Sub |-> <<>>] /\ cached = [s \in Sub |-> <<>>]
  /\ inCacher = [s \in Sub |-> <<>>] /\ inWriter = [s \in Sub |-> <<>>]
  /\ produced = [s \in Sub |-> 0] /\ delivered = [s \in Sub |-> <<>>]
  /\ redis = [m \in Market |-> NoOdds] /\ unsaved = {}
  /\ stopping = FALSE /\ faults = 0

\* r.Context() ends when the handler returns.
Cancelled(s) == handler[SubConn[s]] = "returned"
Up(s) == link[SubConn[s]] = "up"

-----------------------------------------------------------------------------
\* The connection.

\* A second connection of a user takes the place of the first on record.
Accept(c) ==
  /\ link[c] = "none" /\ ~stopping
  /\ link' = [link EXCEPT ![c] = "up"]
  /\ handler' = [handler EXCEPT ![c] = "reading"]
  /\ pinger' = [pinger EXCEPT ![c] = "beating"]
  /\ wsConns' = [wsConns EXCEPT ![ConnUser[c]] = c]
  /\ UNCHANGED <<stopping, pipeVars, redisVars>>

\* The client leaves or the network fails.
Disconnect(c) ==
  /\ link[c] = "up"
  /\ link' = [link EXCEPT ![c] = "down"]
  /\ UNCHANGED <<handler, pinger, wsConns, stopping, pipeVars, redisVars>>

\* wsjson.Read fails: the loop is left, <-heartbeatDone is next.
ReadFails(c) ==
  /\ handler[c] = "reading" /\ link[c] = "down"
  /\ handler' = [handler EXCEPT ![c] = "waiting"]
  /\ UNCHANGED <<link, pinger, wsConns, stopping, pipeVars, redisVars>>

PingFails(c) ==
  /\ pinger[c] = "beating" /\ link[c] = "down"
  /\ pinger' = [pinger EXCEPT ![c] = "done"]
  /\ UNCHANGED <<link, handler, wsConns, stopping, pipeVars, redisVars>>

\* Mutant: no deferred Delete.
KeptOnRecord(c) == wsConns

\* The entry of the user goes, whichever connection it names.
OffRecord(c) == [wsConns EXCEPT ![ConnUser[c]] = NoConn]

Return(c) ==
  /\ handler[c] = "waiting" /\ pinger[c] = "done"
  /\ handler' = [handler EXCEPT ![c] = "returned"]
  /\ wsConns' = OffRecord(c)
  /\ UNCHANGED <<link, pinger, stopping, pipeVars, redisVars>>

\* The gateway shuts down: the connections on record are closed.
CloseConnections ==
  /\ ~stopping /\ stopping' = TRUE
  /\ link' = [c \in Conn |-> IF c \in Range(wsConns) THEN "down" ELSE link[c]]
  /\ UNCHANGED <<handler, pinger, wsConns, pipeVars, redisVars>>

StartSubscription(s) ==
  /\ provider[s] = "none" /\ handler[SubConn[s]] = "reading" /\ Up(s)
  /\ provider' = [provider EXCEPT ![s] = "waiting"]
  /\ cacher' = [cacher EXCEPT ![s] = "receiving"]
  /\ writer' = [writer EXCEPT ![s] = "receiving"]
  /\ UNCHANGED <<todo, updates, cached, inCacher, inWriter, produced, delivered,
                 connVars, redisVars>>

-----------------------------------------------------------------------------
\* Channels.

\* Mutant: a send with a default branch, which drops what does not fit.
OfferOrDrop(channel, update) ==
  IF Len(channel) < Cap THEN {Append(channel, update)} ELSE {channel}

\* The channels a send may leave: none while there is no room.
Offer(channel, update) ==
  IF Len(channel) < Cap THEN {Append(channel, update)} ELSE {}

\* Receiving by range: the loop ends when the channel is closed and empty.
Ended(channel, sender) == channel = <<>> /\ sender = "done"

-----------------------------------------------------------------------------
\* The goroutines of a subscription.

TickerFires(s) ==
  /\ provider[s] = "waiting" /\ produced[s] + Len(SubMarkets[s]) <= MaxUpdates
  /\ provider' = [provider EXCEPT ![s] = "sending"]
  /\ todo' = [todo EXCEPT ![s] = SubMarkets[s]]
  /\ UNCHANGED <<cacher, writer, updates, cached, inCacher, inWriter, produced,
                 delivered, connVars, redisVars>>

ProviderSend(s) ==
  LET update == [sub |-> s, market |-> Head(todo[s]), n |-> produced[s] + 1] IN
  /\ provider[s] = "sending"
  /\ \E channel \in Offer(updates[s], update) :
       updates' = [updates EXCEPT ![s] = channel]
  /\ produced' = [produced EXCEPT ![s] = @ + 1]
  /\ todo' = [todo EXCEPT ![s] = Tail(@)]
  /\ provider' = [provider EXCEPT ![s] = IF Len(todo[s]) = 1 THEN "waiting" ELSE @]
  /\ UNCHANGED <<cacher, writer, cached, inCacher, inWriter, delivered, connVars,
                 redisVars>>

\* Both selects of Subscribe have the branch; updates is closed.
ProviderDone(s) ==
  /\ provider[s] \in {"waiting", "sending"} /\ Cancelled(s)
  /\ provider' = [provider EXCEPT ![s] = "done"]
  /\ UNCHANGED <<cacher, writer, todo, updates, cached, inCacher, inWriter, produced,
                 delivered, connVars, redisVars>>

CacherReceive(s) ==
  /\ cacher[s] = "receiving" /\ updates[s] # <<>>
  /\ inCacher' = [inCacher EXCEPT ![s] = <<Head(updates[s])>>]
  /\ updates' = [updates EXCEPT ![s] = Tail(@)]
  /\ cacher' = [cacher EXCEPT ![s] = "caching"]
  /\ UNCHANGED <<provider, writer, todo, cached, inWriter, produced, delivered,
                 connVars, redisVars>>

\* Mutant: SET NX, which leaves a value that is there.
CacheOnce(update) ==
  IF redis[update.market] = NoOdds THEN [redis EXCEPT ![update.market] = update]
  ELSE redis

\* SET odds:market:X, whichever subscription the value there is of.
CacheLatest(update) == [redis EXCEPT ![update.market] = update]

SetCache(s) ==
  /\ cacher[s] = "caching" /\ ~Cancelled(s)
  /\ redis' = CacheLatest(Head(inCacher[s]))
  /\ cacher' = [cacher EXCEPT ![s] = "sending"]
  /\ UNCHANGED <<provider, writer, todo, updates, cached, inCacher, inWriter,
                 produced, delivered, unsaved, faults, connVars>>

\* Redis is away, or the context has ended; the error is not looked at.
SetFails(s) ==
  /\ cacher[s] = "caching"
  /\ Cancelled(s) \/ faults < MaxFaults
  /\ faults' = IF Cancelled(s) THEN faults ELSE faults + 1
  /\ unsaved' = unsaved \cup {Head(inCacher[s])}
  /\ cacher' = [cacher EXCEPT ![s] = "sending"]
  /\ UNCHANGED <<provider, writer, todo, updates, cached, inCacher, inWriter,
                 produced, delivered, redis, connVars>>

CacherSend(s) ==
  /\ cacher[s] = "sending"
  /\ \E channel \in Offer(cached[s], Head(inCacher[s])) :
       cached' = [cached EXCEPT ![s] = channel]
  /\ inCacher' = [inCacher EXCEPT ![s] = <<>>]
  /\ cacher' = [cacher EXCEPT ![s] = "receiving"]
  /\ UNCHANGED <<provider, writer, todo, updates, inWriter, produced, delivered,
                 connVars, redisVars>>

\* Mutant: the cacher sends with no branch for the end of the context.
RangeOnly(s) == cacher[s] = "receiving" /\ Ended(updates[s], provider[s])

\* The range is over, or the context ends while the cacher waits to send.
CacherOver(s) ==
  \/ cacher[s] = "receiving" /\ Ended(updates[s], provider[s])
  \/ cacher[s] = "sending" /\ Cancelled(s)

CacherDone(s) ==
  /\ CacherOver(s)
  /\ cacher' = [cacher EXCEPT ![s] = "done"]
  /\ UNCHANGED <<provider, writer, todo, updates, cached, inCacher, inWriter,
                 produced, delivered, connVars, redisVars>>

WriterReceive(s) ==
  /\ writer[s] = "receiving" /\ cached[s] # <<>>
  /\ inWriter' = [inWriter EXCEPT ![s] = <<Head(cached[s])>>]
  /\ cached' = [cached EXCEPT ![s] = Tail(@)]
  /\ writer' = [writer EXCEPT ![s] = "writing"]
  /\ UNCHANGED <<provider, cacher, todo, updates, inCacher, produced, delivered,
                 connVars, redisVars>>

\* The client reads as fast as it likes, or not at all.
Write(s) ==
  /\ writer[s] = "writing" /\ Up(s)
  /\ delivered' = [delivered EXCEPT ![s] = @ \o inWriter[s]]
  /\ inWriter' = [inWriter EXCEPT ![s] = <<>>]
  /\ writer' = [writer EXCEPT ![s] = "receiving"]
  /\ UNCHANGED <<provider, cacher, todo, updates, cached, inCacher, produced,
                 connVars, redisVars>>

\* A write that fails ends the goroutine, with the channel left as it is.
WriterDone(s) ==
  /\ \/ writer[s] = "writing" /\ ~Up(s)
     \/ writer[s] = "receiving" /\ Ended(cached[s], cacher[s])
  /\ writer' = [writer EXCEPT ![s] = "done"]
  /\ UNCHANGED <<provider, cacher, todo, updates, cached, inCacher, inWriter,
                 produced, delivered, connVars, redisVars>>

\* Thirty seconds without a SET.
Expire(m) ==
  /\ redis[m] # NoOdds /\ redis' = [redis EXCEPT ![m] = NoOdds]
  /\ UNCHANGED <<unsaved, faults, connVars, pipeVars>>

-----------------------------------------------------------------------------

Goroutine(s) ==
  \/ TickerFires(s) \/ ProviderSend(s) \/ CacherReceive(s)
  \/ SetCache(s) \/ SetFails(s) \/ CacherSend(s) \/ WriterReceive(s)

Leave(s) == ProviderDone(s) \/ CacherDone(s) \/ WriterDone(s)

StreamNext ==
  \/ \E c \in Conn : Accept(c) \/ Disconnect(c) \/ ReadFails(c) \/ PingFails(c) \/ Return(c)
  \/ \E s \in Sub : StartSubscription(s) \/ Goroutine(s) \/ Write(s) \/ Leave(s)
  \/ \E m \in Market : Expire(m)
  \/ CloseConnections

\* A goroutine that can run is run, and a select chooses among its ready branches at
\* random: none is passed over for ever.  A client owes nothing, and a ticker need
\* not tick.
Fairness ==
  /\ \A c \in Conn :
       /\ WF_streamVars(ReadFails(c)) /\ WF_streamVars(PingFails(c))
       /\ WF_streamVars(Return(c))
  /\ \A s \in Sub :
       /\ WF_streamVars(ProviderDone(s)) /\ WF_streamVars(CacherDone(s))
       /\ WF_streamVars(WriterDone(s))
       /\ WF_streamVars(CacherReceive(s)) /\ WF_streamVars(SetCache(s) \/ SetFails(s))
       /\ WF_streamVars(CacherSend(s)) /\ WF_streamVars(WriterReceive(s))

StreamSpec == StreamInit /\ [][StreamNext]_streamVars
FairStreamSpec == StreamSpec /\ Fairness

-----------------------------------------------------------------------------

Pipe == {"none", "receiving", "sending", "done"}

\* Values of every variable; no channel holds more than its capacity.
StreamTypeOK ==
  /\ link \in [Conn -> {"none", "up", "down"}]
  /\ handler \in [Conn -> {"none", "reading", "waiting", "returned"}]
  /\ pinger \in [Conn -> {"none", "beating", "done"}]
  /\ wsConns \in [Watcher -> Conn \cup {NoConn}]
  /\ provider \in [Sub -> {"none", "waiting", "sending", "done"}]
  /\ cacher \in [Sub -> Pipe \cup {"caching"}]
  /\ writer \in [Sub -> {"none", "receiving", "writing", "done"}]
  /\ todo \in [Sub -> Seq(Market)]
  /\ {updates, cached, inCacher, inWriter, delivered} \subseteq [Sub -> Seq(Update)]
  /\ \A s \in Sub :
       /\ Len(updates[s]) <= Cap /\ Len(cached[s]) <= Cap
       /\ Len(inCacher[s]) <= 1 /\ Len(inWriter[s]) <= 1
  /\ produced \in [Sub -> 0..MaxUpdates]
  /\ redis \in [Market -> Update \cup {NoOdds}]
  /\ unsaved \subseteq Update /\ stopping \in BOOLEAN /\ faults \in 0..MaxFaults

\* What the client has had of a subscription, and what is on its way to it.
Sent(s) == delivered[s] \o inWriter[s] \o cached[s]
OnTheWay(s) == Sent(s) \o inCacher[s] \o updates[s]

\* Every variable has a value of its kind, and nothing is lost or put out of order: the
\* client has had, or the two channels and the goroutines between them hold, every update
\* the provider sent, in its order; where a goroutine gives up, what it held stays behind.
NothingLostOnTheWay ==
  /\ StreamTypeOK
  /\ \A s \in Sub :
       /\ Len(OnTheWay(s)) = produced[s]
       /\ \A i \in 1..Len(OnTheWay(s)) : OnTheWay(s)[i].sub = s /\ OnTheWay(s)[i].n = i

\* What a client is shown was offered to the cache first: where the cache holds odds of
\* the same subscription, the client has nothing newer, but for a SET that failed.
CacheNotBehindClient ==
  \A s \in Sub : \A i \in DOMAIN delivered[s] :
    LET shown == delivered[s][i] IN
    redis[shown.market] # NoOdds /\ redis[shown.market].sub = s
      => redis[shown.market].n >= shown.n \/ shown \in unsaved

\* The connection on record for a user is one that is still served, so what a shutdown
\* closes is never a connection given up before.
OnRecordIsServed ==
  \A u \in Watcher :
    wsConns[u] # NoConn => handler[wsConns[u]] \in {"reading", "waiting"}

\* A connection that breaks takes its goroutines with it: the handler returns, which ends
\* the context, and none of the three of a subscription stays blocked on a channel.
GoroutinesEnd ==
  \A c \in Conn :
    link[c] = "down" ~>
      /\ handler[c] = "returned" /\ pinger[c] = "done"
      /\ \A s \in Sub : SubConn[s] = c => {provider[s], cacher[s], writer[s]} \subseteq {"none", "done"}

=============================================================================
