------------------------------ MODULE PeerLink ------------------------------
(***************************************************************************)
(* One authenticated connection between a desktop and the phone that holds  *)
(* the vault: the client's data plane (remote_data_plane/io_loop.rs), the   *)
(* host's (client-runtime/peer_host.rs) and the two directions of the link. *)
(*                                                                         *)
(* Requests, replies and streams share one ordered, encrypted channel.      *)
(* A request has a message id; a stream reuses the id of its request for    *)
(* every chunk.  Both ends keep tables by id, forget an id on their own     *)
(* account (a deadline, a reader that was dropped, an upload that was        *)
(* refused) and then meet frames that were already on their way.            *)
(*                                                                         *)
(* Each end is one task; each action is one turn of its loop.  Both peers   *)
(* know remote-stream-control-v1.  A stream has Chunks chunks.              *)
(***************************************************************************)
EXTENDS Naturals, Sequences, FiniteSets, SequencesExt

CONSTANTS
    Kind,                    \* the requests that are made: a subset of AllKinds
    MaxCalls,                \* requests made by the callers (a bound)
    MaxEpoch,                \* epochs of media inspection (a bound)
    Chunks,                  \* chunks of every download and of every upload
    MAX_MEDIA_RANGE_REQUESTS_IN_FLIGHT,
    RESPONSE_STREAM_CHANNEL_CAPACITY,
    RECENT_DERIVATIVES

AllKinds == {"json", "range", "ensure", "inspect", "inspectCancel", "upload", "lock"}

ASSUME KindAssumption == Kind \subseteq AllKinds
ASSUME BoundAssumption ==
    /\ MaxCalls \in Nat /\ MaxEpoch \in Nat /\ Chunks \in Nat
    /\ MAX_MEDIA_RANGE_REQUESTS_IN_FLIGHT \in Nat \ {0}
    /\ RESPONSE_STREAM_CHANNEL_CAPACITY \in Nat \ {0}
    /\ RECENT_DERIVATIVES \in Nat \ {0}

Id == 1..MaxCalls
NoId == 0

VARIABLES
    asked,        \* requests that callers handed to the client so far
    deferred,     \* range requests waiting in the media queue
    nextId,       \* next_msg_id
    cancelEpoch,  \* media_inspection_cancel_epoch
    call,         \* pending_json, active_outgoing_streams, active_response_streams
    upOrder,      \* active_outgoing_order
    reader,       \* the readers the callers were given
    drops,        \* response_stream_drop channel
    toHost, toClient,
    host,         \* the tables of the host's loop
    refused,      \* history: the uploads and requests the host did not admit
    end           \* "up", or why each end left its loop

vars == <<asked, deferred, nextId, cancelEpoch, call, upOrder, reader, drops, toHost,
          toClient, host, refused, end>>

NoCall == [kind |-> "json", epoch |-> 0, state |-> "free", sent |-> 0, reply |-> "none"]
NoReader == [state |-> "none", buf |-> <<>>, got |-> <<>>]

\* last and active are the AntiReplay; jobs run in the session; sent counts the
\* chunks of an outgoing stream.  History: forgotten, what was pushed out of recent.
NoHost ==
    [last |-> 0, active |-> NoId, contexts |-> {}, jobs |-> {}, streams |-> {},
     order |-> <<>>, sent |-> [id \in Id |-> 0], upload |-> NoId,
     recent |-> <<>>, forgotten |-> {}, mediaEpoch |-> 0]

Init ==
    /\ asked = 0 /\ deferred = 0 /\ nextId = 1 /\ cancelEpoch = 0
    /\ call = [id \in Id |-> NoCall] /\ upOrder = <<>>
    /\ reader = [id \in Id |-> NoReader] /\ drops = <<>>
    /\ toHost = <<>> /\ toClient = <<>>
    /\ host = NoHost /\ refused = {}
    /\ end = [client |-> "up", host |-> "up"]

Msg(type, id, n) == [type |-> type, id |-> id, n |-> n]
HostUp == end.host = "up"

\* What is sent to an end that has gone is lost.
ToHost(type, id, n) ==
    toHost' = IF HostUp THEN Append(toHost, Msg(type, id, n)) ELSE toHost

(***************************************************************************)
(* The client's loop.                                                       *)
(***************************************************************************)
media_range_requests_in_flight ==
    Cardinality({id \in Id : call[id].kind = "range" /\ call[id].state \in {"pending", "stream"}})

MediaIsFull == media_range_requests_in_flight >= MAX_MEDIA_RANGE_REQUESTS_IN_FLIGHT

\* The queues are drained before the loop waits for the next event: only range
\* requests above the limit stay.
Drained == end.client = "up" /\ (deferred > 0 => MediaIsFull)

Send(kind, epoch) ==
    /\ call' = [call EXCEPT ![nextId] =
                  [NoCall EXCEPT !.kind = kind, !.epoch = epoch,
                                 !.state = IF kind = "upload" THEN "sending" ELSE "pending"]]
    /\ upOrder' = IF kind = "upload" THEN Append(upOrder, nextId) ELSE upOrder
    /\ ToHost("request", nextId, 0)
    /\ nextId' = nextId + 1

Stale(kind, epoch) == kind = "inspect" /\ epoch < cancelEpoch

\* A caller's request is taken from the channel and sent, put off or refused.
Take(kind, epoch) ==
    /\ Drained /\ asked < MaxCalls
    /\ epoch > 0 => kind \in {"inspect", "inspectCancel"}
    /\ kind = "inspectCancel" => epoch > 0
    /\ asked' = asked + 1
    /\ cancelEpoch' = IF kind = "inspectCancel" /\ epoch > cancelEpoch THEN epoch ELSE cancelEpoch
    /\ \/ /\ Stale(kind, epoch)
          /\ UNCHANGED <<call, upOrder, toHost, nextId, deferred>>
       \/ /\ kind = "range" /\ MediaIsFull
          /\ deferred' = deferred + 1
          /\ UNCHANGED <<call, upOrder, toHost, nextId>>
       \/ /\ ~Stale(kind, epoch) /\ ~(kind = "range" /\ MediaIsFull)
          /\ Send(kind, epoch)
          /\ UNCHANGED deferred
    /\ UNCHANGED <<reader, drops, toClient, host, refused, end>>

SendDeferred ==
    /\ end.client = "up" /\ deferred > 0 /\ ~MediaIsFull
    /\ Send("range", 0)
    /\ deferred' = deferred - 1
    /\ UNCHANGED <<asked, cancelEpoch, reader, drops, toClient, host, refused, end>>

SetCall(id, state, reply) ==
    call' = [call EXCEPT ![id].state = state,
                         ![id].reply = IF @ = "none" THEN reply ELSE @]

\* The loop returns: its tables go, and with them every reply and stream channel;
\* the connection is closed, and so is the host's end of it.
Leave(why, calls) ==
    /\ end' = [client |-> why, host |-> IF HostUp THEN "link" ELSE end.host]
    /\ call' = [id \in Id |->
                  IF calls[id].state \in {"free", "over", "left"} THEN calls[id]
                  ELSE [calls[id] EXCEPT !.state = "over",
                                         !.reply = IF @ = "none" THEN "error" ELSE @]]
    /\ upOrder' = <<>> /\ deferred' = 0 /\ drops' = <<>>
    /\ toHost' = <<>> /\ toClient' = <<>> /\ host' = NoHost

Stay == UNCHANGED <<end, deferred, host>>

\* The reader of a stream was dropped: tell the host, unless the stream is over.
DroppedReader ==
    /\ Drained /\ drops # <<>>
    /\ LET id == Head(drops)
       IN IF call[id].state = "stream"
          THEN SetCall(id, "left", "stream") /\ ToHost("cancelled", id, 0)
          ELSE UNCHANGED <<call, toHost>>
    /\ drops' = Tail(drops)
    /\ UNCHANGED <<asked, nextId, cancelEpoch, upOrder, reader, toClient, refused>> /\ Stay

Room(id) == Len(reader[id].buf) < RESPONSE_STREAM_CHANNEL_CAPACITY
Put(f) == reader' = [reader EXCEPT ![f.id].buf = Append(@, f)]

Received == toClient' = Tail(toClient) /\ UNCHANGED <<drops, toHost>> /\ Stay

\* An error frame ends a stream of ours; any other ends the connection.
ErrorFrame(f) ==
    /\ f.type = "failed"
    /\ IF call[f.id].state = "stream"
       THEN /\ SetCall(f.id, "over", "stream")
            /\ IF Room(f.id) THEN Put(f) ELSE UNCHANGED reader
            /\ UNCHANGED upOrder /\ Received
       ELSE Leave("errorFrame", call) /\ UNCHANGED reader

\* Mutant: a chunk that finds the buffer full is dropped, and the stream goes on.
OverflowIgnored(id) == UNCHANGED call

\* The buffer is full: the stream is given up rather than the loop blocked.
Overflow(id) == SetCall(id, "left", "stream")

forward_active_stream_frame(f) ==
    /\ f.type # "failed" /\ call[f.id].state = "stream"
    /\ \/ reader[f.id].state = "gone" /\ SetCall(f.id, "left", "stream") /\ UNCHANGED reader
       \/ reader[f.id].state # "gone" /\ ~Room(f.id) /\ Overflow(f.id) /\ UNCHANGED reader
       \/ /\ reader[f.id].state # "gone" /\ Room(f.id)
          /\ Put(f)
          /\ IF f.type = "final" THEN SetCall(f.id, "over", "stream") ELSE UNCHANGED call
    /\ UNCHANGED upOrder /\ Received

\* The answer to a request, which may come before its upload has been sent.
deliver_rpc_response_frame(f) ==
    LET answered == [call EXCEPT ![f.id].state = "over", ![f.id].reply = f.type]
    IN /\ f.type # "failed" /\ call[f.id].state \in {"sending", "pending"}
       /\ \/ /\ f.type = "meta"
             /\ SetCall(f.id, "stream", "stream")
             /\ reader' = [reader EXCEPT ![f.id].state = "open"]
             /\ UNCHANGED upOrder /\ Received
          \/ /\ f.type = "ok" /\ call[f.id].kind = "lock"
             /\ Leave("lock", answered) /\ UNCHANGED reader
          \/ /\ f.type # "meta" /\ ~(f.type = "ok" /\ call[f.id].kind = "lock")
             /\ call' = answered /\ upOrder' = RemoveFirst(upOrder, f.id)
             /\ UNCHANGED reader /\ Received

\* A frame of a request that is no longer ours.
Unmatched(f) ==
    /\ f.type # "failed" /\ call[f.id].state \in {"over", "left"}
    /\ UNCHANGED <<call, reader, upOrder>> /\ Received

ClientReceive ==
    /\ Drained /\ toClient # <<>>
    /\ LET f == Head(toClient)
       IN \/ ErrorFrame(f)
          \/ forward_active_stream_frame(f)
          \/ deliver_rpc_response_frame(f)
          \/ Unmatched(f)
    /\ UNCHANGED <<asked, nextId, cancelEpoch, refused>>

Sent == UNCHANGED <<drops, toClient>> /\ Stay

\* One chunk of the upload whose turn it is, its end, or its failure.
send_next_outgoing_stream_chunk ==
    /\ Drained /\ upOrder # <<>>
    /\ LET id == Head(upOrder)
       IN \/ /\ call[id].sent < Chunks
             /\ call' = [call EXCEPT ![id].sent = @ + 1]
             /\ ToHost("chunk", id, call[id].sent + 1)
             /\ upOrder' = Append(Tail(upOrder), id) /\ Sent
          \/ /\ call[id].sent = Chunks
             /\ call' = [call EXCEPT ![id].state = "pending"]
             /\ ToHost("final", id, 0)
             /\ upOrder' = Tail(upOrder) /\ Sent
          \/ /\ SetCall(id, "left", "error")
             /\ ToHost("failed", id, 0)
             /\ upOrder' = Tail(upOrder) /\ Sent
          \/ Leave("streamTimeout", call)
    /\ UNCHANGED <<asked, nextId, cancelEpoch, reader, refused>>

\* A request whose deadline has passed is answered; a derivative is cancelled too.
TimeoutScan(id) ==
    /\ Drained /\ call[id].state = "pending"
    /\ SetCall(id, "left", "error")
    /\ IF call[id].kind = "ensure" THEN ToHost("cancelled", id, 0) ELSE UNCHANGED toHost
    /\ UNCHANGED <<asked, nextId, cancelEpoch, upOrder, reader, drops, toClient, refused>> /\ Stay

\* The transport is closed, or the peer has been silent for too long.
ClientLost ==
    /\ end.client = "up"
    /\ Leave("link", call)
    /\ UNCHANGED <<asked, nextId, cancelEpoch, reader, refused>>

(***************************************************************************)
(* The callers' readers.                                                    *)
(***************************************************************************)
Read(id) ==
    /\ reader[id].state = "open"
    /\ \/ /\ reader[id].buf # <<>>
          /\ LET item == Head(reader[id].buf)
                 rest == [reader[id] EXCEPT !.buf = Tail(@)]
             IN reader' = [reader EXCEPT ![id] =
                             CASE item.type = "final" -> [rest EXCEPT !.state = "eof"]
                               [] item.type = "failed" -> [rest EXCEPT !.state = "failed"]
                               [] OTHER -> [rest EXCEPT !.got = Append(@, item.n)]]
       \/ /\ reader[id].buf = <<>>     \* timed out, or the channel is disconnected
          /\ reader' = [reader EXCEPT ![id].state = "failed"]
    /\ UNCHANGED <<asked, deferred, nextId, cancelEpoch, call, upOrder, drops, toHost, toClient,
                   host, refused, end>>

\* Mutant: dropping a reader does not tell the client's loop.
DropMessageLost(id) == drops

DropMessage(id) == Append(drops, id)

DropReader(id) ==
    /\ reader[id].state \in {"open", "eof", "failed"}
    /\ reader' = [reader EXCEPT ![id].state = "gone", ![id].buf = <<>>, ![id].got = <<>>]
    /\ drops' = IF end.client = "up" THEN DropMessage(id) ELSE drops
    /\ UNCHANGED <<asked, deferred, nextId, cancelEpoch, call, upOrder, toHost, toClient, host,
                   refused, end>>

(***************************************************************************)
(* The host's loop.                                                         *)
(***************************************************************************)
HostKeeps == UNCHANGED <<asked, deferred, nextId, cancelEpoch, call, upOrder, reader, drops>>

\* The loop returns and its tables go; what it sent is still on its way.
HostLeaves(why) ==
    /\ end' = [end EXCEPT !.host = why]
    /\ host' = NoHost /\ toHost' = <<>>

\* Mutant: an ended derivative is not kept in mind.
remember_nothing(recent, id) == recent

remember(recent, id) ==
    IF call[id].kind # "ensure" THEN recent
    ELSE Append(IF Len(recent) = RECENT_DERIVATIVES THEN Tail(recent) ELSE recent, id)

Forgets(h, id) == h.forgotten \cup (ToSet(h.recent) \ ToSet(remember(h.recent, id)))

\* A request is over: its context goes.
Settled(h, id) ==
    [h EXCEPT !.contexts = @ \ {id}, !.streams = @ \ {id}, !.order = RemoveFirst(@, id),
              !.sent[id] = 0, !.recent = remember(@, id), !.forgotten = Forgets(h, id)]

\* Mutant: the result of a cancelled request is published all the same.
WantedAlways(id) == TRUE

Wanted(id) == id \in host.contexts

\* A request's job has ended: with JSON, with a stream, or with an error.
Completed(id) ==
    LET h == [host EXCEPT !.jobs = @ \ {id}]
    IN /\ HostUp /\ id \in host.jobs
       /\ \/ /\ ~Wanted(id)       \* cancelled meanwhile
             /\ host' = h
             /\ UNCHANGED <<toHost, toClient, end>>
          \/ /\ Wanted(id)
             /\ host' = Settled(h, id)
             /\ \E answer \in {"ok", "error"} :
                   toClient' = Append(toClient, Msg(answer, id, 0))
             /\ UNCHANGED <<toHost, end>>
          \/ /\ Wanted(id) /\ call[id].kind \in {"range", "ensure"}
             /\ host' = [h EXCEPT !.streams = @ \cup {id}, !.order = Append(@, id)]
             /\ toClient' = Append(toClient, Msg("meta", id, 0))
             /\ UNCHANGED <<toHost, end>>
          \/ Wanted(id) /\ HostLeaves("session") /\ UNCHANGED toClient
       /\ HostKeeps /\ UNCHANGED refused

\* One chunk of the stream whose turn it is, its end, or its failure.
send_next_host_outgoing_stream_chunk ==
    /\ HostUp /\ host.streams # {}
    /\ LET id == Head(host.order)
       IN \/ /\ host.sent[id] < Chunks
             /\ toClient' = Append(toClient, Msg("chunk", id, host.sent[id] + 1))
             /\ host' = [host EXCEPT !.sent[id] = @ + 1, !.order = Append(Tail(@), id)]
          \/ /\ \/ host.sent[id] = Chunks /\ toClient' = Append(toClient, Msg("final", id, 0))
                \/ toClient' = Append(toClient, Msg("failed", id, 0))
             /\ host' = Settled(host, id)
    /\ HostKeeps /\ UNCHANGED <<toHost, refused, end>>

Handled(h, frames) ==
    /\ host' = h
    /\ toClient' = toClient \o frames
    /\ toHost' = Tail(toHost)
    /\ UNCHANGED end

UploadOver(h) == [h EXCEPT !.upload = NoId, !.active = NoId]

\* Mutant: a cancelled stream keeps its turn.
CancelledKeepsTurn(id) ==
    [host EXCEPT !.contexts = @ \ {id}, !.streams = @ \ {id}, !.recent = remember(@, id)]

Cancelled(id) == Settled(host, id)

\* The client gave up a stream, a derivative or an upload.
StreamControl(f) ==
    /\ f.type \in {"cancelled", "failed"}
    /\ \/ f.id = host.upload /\ Handled(UploadOver(host), <<>>)
       \/ /\ f.id # host.upload /\ f.type = "cancelled" /\ f.id \in host.contexts
          /\ Handled(Cancelled(f.id), <<>>)
       \/ /\ f.id # host.upload /\ f.type = "cancelled"
          /\ f.id \notin host.contexts /\ f.id \in ToSet(host.recent)
          /\ Handled([host EXCEPT !.recent = RemoveFirst(@, f.id)], <<>>)
       \/ /\ f.id # host.upload
          /\ f.type = "cancelled" => f.id \notin host.contexts \cup ToSet(host.recent)
          /\ HostLeaves("errorFrame") /\ UNCHANGED toClient
    /\ UNCHANGED refused

\* AntiReplay::check
Replayed(id) == id # host.active /\ id <= host.last

ReplayDetected(f) ==
    /\ f.type \in {"request", "chunk", "final"} /\ Replayed(f.id)
    /\ HostLeaves("replay")
    /\ UNCHANGED <<toClient, refused>>

\* The next frame of the upload: taken, the last one answered, or refused.
UploadFrame(f) ==
    /\ f.type \in {"chunk", "final"} /\ f.id = host.upload
    /\ \/ f.type = "chunk" /\ Handled(host, <<>>) /\ UNCHANGED refused
       \/ /\ f.type = "final"
          /\ Handled(UploadOver(host), <<Msg("ok", f.id, 0)>>)
          /\ UNCHANGED refused
       \/ /\ Handled(UploadOver(host), <<Msg("error", f.id, 0)>>)
          /\ refused' = refused \cup {f.id}
       \/ HostLeaves("session") /\ UNCHANGED <<toClient, refused>>

\* An upload is admitted, or refused because another one is active, the
\* session is busy or its metadata is wrong.
UploadRequest(f, h) ==
    /\ call[f.id].kind = "upload"
    /\ \/ /\ host.upload = NoId
          /\ Handled([h EXCEPT !.upload = f.id, !.active = f.id], <<>>)
          /\ UNCHANGED refused
       \/ Handled(h, <<Msg("error", f.id, 0)>>) /\ refused' = refused \cup {f.id}

\* catalog:media:inspect:cancel answers every inspection that runs.
InspectCancel(f, h) ==
    /\ call[f.id].kind = "inspectCancel"
    /\ LET epoch == call[f.id].epoch
           ended == IF epoch > h.mediaEpoch
                    THEN {id \in h.contexts : call[id].kind = "inspect"} ELSE {}
       IN \E q \in SetToSeqs(ended) :
             Handled([h EXCEPT !.contexts = @ \ ended,
                               !.mediaEpoch = IF epoch > @ THEN epoch ELSE @],
                     [i \in DOMAIN q |-> Msg("error", q[i], 0)] \o <<Msg("ok", f.id, 0)>>)
    /\ UNCHANGED refused

\* vault:lock ends the connection of this peer only.
LockRequest(f) ==
    /\ call[f.id].kind = "lock"
    /\ HostLeaves("lock")
    /\ toClient' = Append(toClient, Msg("ok", f.id, 0))
    /\ UNCHANGED refused

\* Any other request becomes a job, unless the session's queue is full.
DownloadRequest(f, h) ==
    /\ call[f.id].kind \in {"json", "range", "ensure", "inspect"}
    /\ \/ /\ Handled([h EXCEPT !.contexts = @ \cup {f.id}, !.jobs = @ \cup {f.id}], <<>>)
          /\ UNCHANGED refused
       \/ Handled(h, <<Msg("error", f.id, 0)>>) /\ refused' = refused \cup {f.id}

Request(f) ==
    LET h == [host EXCEPT !.last = f.id]
    IN /\ f.type = "request" /\ ~Replayed(f.id)
       /\ \/ UploadRequest(f, h) \/ InspectCancel(f, h)
          \/ LockRequest(f) \/ DownloadRequest(f, h)

HostReceive ==
    /\ HostUp /\ toHost # <<>>
    /\ LET f == Head(toHost)
       IN StreamControl(f) \/ ReplayDetected(f) \/ UploadFrame(f) \/ Request(f)
    /\ HostKeeps

\* The transport is closed, the client is silent, or the phone revokes the peer.
HostLost ==
    /\ HostUp
    /\ HostLeaves("session")
    /\ HostKeeps /\ UNCHANGED <<toClient, refused>>

(***************************************************************************)
(* The specification.                                                       *)
(***************************************************************************)
ClientLoop ==
    \/ \E kind \in Kind, epoch \in 0..MaxEpoch : Take(kind, epoch)
    \/ SendDeferred \/ DroppedReader \/ ClientReceive \/ send_next_outgoing_stream_chunk
    \/ \E id \in Id : TimeoutScan(id)
    \/ ClientLost

HostLoop ==
    \/ \E id \in Id : Completed(id)
    \/ send_next_host_outgoing_stream_chunk \/ HostReceive \/ HostLost

Readers == \E id \in Id : Read(id) \/ DropReader(id)

\* The connection is closed and nothing is left to do.
Over ==
    /\ end.client # "up"
    /\ \A id \in Id : reader[id].state \in {"none", "gone"}
    /\ UNCHANGED vars

Next == ClientLoop \/ HostLoop \/ Readers \/ Over

\* Both loops turn, deadlines fire, callers read what they are given and drop it
\* in the end.  Nothing is assumed of the session's jobs, of further requests, or
\* of the link staying up.
Fairness ==
    /\ WF_vars(SendDeferred) /\ WF_vars(DroppedReader) /\ WF_vars(ClientReceive)
    /\ WF_vars(send_next_outgoing_stream_chunk)
    /\ \A id \in Id :
          /\ WF_vars(TimeoutScan(id)) /\ WF_vars(Read(id))
          /\ WF_vars(reader[id].state \in {"eof", "failed"} /\ DropReader(id))
    /\ WF_vars(send_next_host_outgoing_stream_chunk) /\ WF_vars(HostReceive)

Spec == Init /\ [][Next]_vars /\ Fairness

(***************************************************************************)
(* Properties.                                                              *)
(***************************************************************************)
\* What the two ends send to each other.
HostFrames == [type : {"request", "chunk", "final", "failed", "cancelled"}, id : Id, n : 0..Chunks]
ClientFrames == [type : {"ok", "error", "meta", "chunk", "final", "failed"}, id : Id, n : 0..Chunks]

Calls == [kind : AllKinds, epoch : 0..MaxEpoch, sent : 0..Chunks,
          state : {"free", "sending", "pending", "stream", "over", "left"},
          reply : {"none", "ok", "error", "stream"}]
Readings == [state : {"none", "open", "eof", "failed", "gone"}, buf : Seq(ClientFrames),
             got : Seq(0..Chunks)]
Hosts == [last : 0..MaxCalls, active : 0..MaxCalls, contexts : SUBSET Id, jobs : SUBSET Id,
          streams : SUBSET Id, order : Seq(Id), sent : [Id -> 0..Chunks], upload : 0..MaxCalls,
          recent : Seq(Id), forgotten : SUBSET Id, mediaEpoch : 0..MaxEpoch]

\* Every variable has its type, and the two queues of turns hold exactly the
\* streams that are being sent: neither loop meets the "missing order" or the
\* "missing publication" it would fail on.
TypeOK ==
    /\ asked \in 0..MaxCalls /\ deferred \in 0..MaxCalls /\ nextId \in 1..(MaxCalls + 1)
    /\ cancelEpoch \in 0..MaxEpoch /\ refused \subseteq Id
    /\ call \in [Id -> Calls] /\ reader \in [Id -> Readings] /\ host \in Hosts
    /\ toHost \in Seq(HostFrames) /\ toClient \in Seq(ClientFrames)
    /\ upOrder \in Seq(Id) /\ drops \in Seq(Id)
    /\ \A id \in Id : Len(reader[id].buf) <= RESPONSE_STREAM_CHANNEL_CAPACITY
    /\ IsInjective(upOrder) /\ ToSet(upOrder) = {id \in Id : call[id].state = "sending"}
    /\ IsInjective(host.order) /\ ToSet(host.order) = host.streams
    /\ host.streams \subseteq host.contexts
    /\ host.upload = host.active /\ Len(host.recent) <= RECENT_DERIVATIVES
    /\ end \in [client : {"up", "lock", "errorFrame", "streamTimeout", "link"},
                host : {"up", "lock", "errorFrame", "replay", "session", "link"}]

\* A reader that meets the end of its stream has read all of it, in order: chunks
\* dropped because a buffer was full, a stream that was cancelled on either side
\* or a connection that ended never look like a short file.
CleanEofIsComplete ==
    \A id \in Id : reader[id].state = "eof" => reader[id].got = [i \in 1..Chunks |-> i]

\* Once the host has handled the cancellation of an epoch, no inspection of an
\* older epoch runs or starts there.
StaleInspectionsEnd ==
    \A id \in host.contexts :
        call[id].kind = "inspect" => call[id].epoch >= host.mediaEpoch

\* The connection breaks over a frame only in the known crossings: chunks or the
\* failure of an upload the host had refused, the cancellation of a range stream
\* that had just ended or of a request that was refused, and the failure of a
\* stream the client had given up.  Cancelling a derivative that was admitted
\* never breaks it, unless RECENT_DERIVATIVES others have ended since it did.
BreaksOnlyByCrossing ==
    /\ HostUp /\ toHost # <<>> =>
          LET f == Head(toHost)
          IN /\ f.type \in {"request", "chunk", "final"} /\ Replayed(f.id) => f.id \in refused
             /\ f.type = "failed" /\ f.id # host.upload => f.id \in refused
             /\ f.type = "cancelled" /\ f.id \notin host.contexts \cup ToSet(host.recent) =>
                   call[f.id].kind = "range" \/ f.id \in refused \cup host.forgotten
    /\ toClient # <<>> /\ Head(toClient).type = "failed" =>
          call[Head(toClient).id].state \in {"stream", "left"}

\* A request the host has answered, or was told to forget, is never heard of
\* again: its job may still end, its stream may have had a turn coming.
SettledStaysSettled ==
    [][\A id \in 1..host.last :
          id \notin host.contexts \cup {host.upload} =>
             \A i \in (Len(toClient) + 1)..Len(toClient') : toClient'[i].id # id]_vars

\* Requests stop coming at some time; then every request that was sent is answered,
\* the range requests that were put off have had their turn, also when the streams
\* before them stall, and every stream the host started has come to an end.
LinkSettles ==
    <>[](/\ \A id \in Id : call[id].state \notin {"sending", "pending"}
         /\ deferred = 0 /\ host.streams = {})

=============================================================================
