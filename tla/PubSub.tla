------------------------------- MODULE PubSub -------------------------------
(***************************************************************************)
(* Publish and subscribe (redis-stable/src/pubsub.c) with the output       *)
(* limits of networking.c: a subscription is kept twice, with the client   *)
(* and with the channel or in the server's list of patterns, and a client  *)
(* that does not read is marked and freed later, by serverCron.            *)
(*                                                                         *)
(* out[c] is what is queued for or was sent to client c, the first read[c] *)
(* of it sent; due[c] is what its subscriptions entitle it to.  A command  *)
(* with several channels acts as one for each: nothing runs in between.    *)
(***************************************************************************)
EXTENDS Integers, Sequences, SequencesExt, FiniteSets

CONSTANTS
    Subscribers,
    Channels,
    Patterns,
    Matching,      \* the pairs <<pattern, channel>> stringmatchlen accepts
    HardLimit,     \* messages a subscriber may have queued
    MaxMessages    \* bound: messages published

VARIABLES chans, pats, subs, patSubs, out, read, due, status, published

pubsubVars == <<chans, pats, subs, patSubs, out, read, due, status, published>>

Init ==
    /\ chans = [c \in Subscribers |-> {}] /\ pats = [c \in Subscribers |-> <<>>]
    /\ subs = [ch \in Channels |-> <<>>] /\ patSubs = <<>>
    /\ out = [c \in Subscribers |-> <<>>] /\ read = [c \in Subscribers |-> 0]
    /\ due = [c \in Subscribers |-> <<>>]
    /\ status = [c \in Subscribers |-> "connected"]
    /\ published = 0

Listening(c) == chans[c] # {} \/ pats[c] # <<>>

(* pubsubSubscribeChannel *)
SubscribeChannel(c, ch) ==
    /\ status[c] = "connected" /\ ch \notin chans[c]
    /\ chans' = [chans EXCEPT ![c] = @ \cup {ch}]
    /\ subs' = [subs EXCEPT ![ch] = Append(@, c)]
    /\ UNCHANGED <<pats, patSubs, out, read, due, status, published>>

(* pubsubUnsubscribeChannel *)
UnsubscribeChannels(c, chs) ==
    /\ status[c] = "connected" /\ chs \subseteq chans[c] /\ chs # {}
    /\ chans' = [chans EXCEPT ![c] = @ \ chs]
    /\ subs' = [ch \in Channels |-> IF ch \in chs THEN RemoveFirst(subs[ch], c) ELSE subs[ch]]
    /\ UNCHANGED <<pats, patSubs, out, read, due, status, published>>

(* pubsubUnsubscribeAllChannels *)
UnsubscribeAllChannels(c) == UnsubscribeChannels(c, chans[c])

(* pubsubSubscribePattern *)
SubscribePattern(c, p) ==
    /\ status[c] = "connected" /\ p \notin ToSet(pats[c])
    /\ pats' = [pats EXCEPT ![c] = Append(@, p)]
    /\ patSubs' = Append(patSubs, <<c, p>>)
    /\ UNCHANGED <<chans, subs, out, read, due, status, published>>

(* pubsubUnsubscribePattern *)
UnsubscribePattern(c, p) ==
    /\ status[c] = "connected" /\ p \in ToSet(pats[c])
    /\ pats' = [pats EXCEPT ![c] = RemoveFirst(@, p)]
    /\ patSubs' = RemoveFirst(patSubs, <<c, p>>)
    /\ UNCHANGED <<chans, subs, out, read, due, status, published>>

(* The list of patterns when all entries of c are taken out, one after the *)
(* other: order names the places of those that stay                        *)
DropPatterns(c) ==
    LET kept == {i \in DOMAIN patSubs : patSubs[i][1] # c} IN
    \E order \in [1..Cardinality(kept) -> kept] :
        /\ \A i \in kept : \E j \in DOMAIN order : order[j] = i
        /\ \A i, j \in DOMAIN order : i < j => order[i] < order[j]
        /\ patSubs' = [j \in DOMAIN order |-> patSubs[order[j]]]

(* pubsubUnsubscribeAllPatterns *)
UnsubscribeAllPatterns(c) ==
    /\ status[c] = "connected" /\ pats[c] # <<>>
    /\ pats' = [pats EXCEPT ![c] = <<>>]
    /\ DropPatterns(c)
    /\ UNCHANGED <<chans, subs, out, read, due, status, published>>

(* The variant of Copies that sends a client one copy however often it *)
(* is subscribed.                                                      *)
CopiesOnce(c, ch) ==
    IF \/ c \in ToSet(subs[ch])
       \/ \E i \in DOMAIN patSubs : patSubs[i][1] = c /\ <<patSubs[i][2], ch>> \in Matching
    THEN 1 ELSE 0

(* pubsubPublishMessage: the copies its two loops queue for c *)
Copies(c, ch) ==
    Cardinality({i \in DOMAIN subs[ch] : subs[ch][i] = c})
    + Cardinality({i \in DOMAIN patSubs :
                      patSubs[i][1] = c /\ <<patSubs[i][2], ch>> \in Matching})

(* checkClientOutputBufferLimits: the limit is for clients that are        *)
(* subscribed; the client is marked and stays subscribed                   *)
AfterReply(c, queue) ==
    IF status[c] = "connected" /\ Listening(c) /\ Len(queue) - read[c] >= HardLimit
    THEN "closing" ELSE status[c]

(* publishCommand, from a client or from the master's stream *)
Publish(ch) ==
    LET copies(c, n) == [i \in 1..n |-> published + 1]
        queue == [c \in Subscribers |-> out[c] \o copies(c, Copies(c, ch))]
        owed(c) == (IF ch \in chans[c] THEN 1 ELSE 0)
                   + Cardinality({p \in ToSet(pats[c]) : <<p, ch>> \in Matching})
    IN /\ published < MaxMessages /\ published' = published + 1
       /\ out' = queue
       /\ due' = [c \in Subscribers |-> due[c] \o copies(c, owed(c))]
       /\ status' = [c \in Subscribers |-> IF Copies(c, ch) > 0
                                          THEN AfterReply(c, queue[c]) ELSE status[c]]
       /\ UNCHANGED <<chans, pats, subs, patSubs, read>>

(* sendReplyToClient: as much as the socket takes *)
SendReply(c) ==
    /\ status[c] # "gone"
    /\ \E n \in (read[c] + 1)..Len(out[c]) : read' = [read EXCEPT ![c] = n]
    /\ UNCHANGED <<chans, pats, subs, patSubs, out, due, status, published>>

(* freeClient: all subscriptions are undone *)
FreeClient(c) ==
    /\ chans' = [chans EXCEPT ![c] = {}] /\ pats' = [pats EXCEPT ![c] = <<>>]
    /\ subs' = [ch \in Channels |-> IF ch \in chans[c] THEN RemoveFirst(subs[ch], c) ELSE subs[ch]]
    /\ DropPatterns(c)
    /\ status' = [status EXCEPT ![c] = "gone"]
    /\ UNCHANGED <<out, read, due, published>>

(* The connection breaks; freeClientsInAsyncFreeQueue *)
Disconnect(c) == status[c] = "connected" /\ FreeClient(c)
FreeAsync(c) == status[c] = "closing" /\ FreeClient(c)

Next ==
    \/ \E c \in Subscribers :
        \/ \E ch \in Channels : SubscribeChannel(c, ch) \/ UnsubscribeChannels(c, {ch})
        \/ UnsubscribeAllChannels(c)
        \/ \E p \in Patterns : SubscribePattern(c, p) \/ UnsubscribePattern(c, p)
        \/ UnsubscribeAllPatterns(c)
        \/ SendReply(c) \/ Disconnect(c) \/ FreeAsync(c)
    \/ \E ch \in Channels : Publish(ch)

Spec == Init /\ [][Next]_pubsubVars

-----------------------------------------------------------------------------
(* Subscribing, unsubscribing and disconnecting in any order, the server's *)
(* lists name exactly the clients that hold the subscription, once each,   *)
(* and no client that is gone: one side alone would be a dangling pointer. *)
SubscribersMatch ==
    /\ \A ch \in Channels : /\ ToSet(subs[ch]) = {c \in Subscribers : ch \in chans[c]}
                            /\ IsInjective(subs[ch])
    /\ ToSet(patSubs) = {s \in Subscribers \X Patterns : s[2] \in ToSet(pats[s[1]])}
    /\ IsInjective(patSubs)
    /\ \A c \in Subscribers : status[c] = "gone" => ~Listening(c)

(* A client is sent each message once for the channel and once for each of *)
(* its patterns that match, in the order of publication, also while it     *)
(* waits to be freed.                                                      *)
EveryMessageDue == out = due
=============================================================================
