------------------------------ MODULE Uploads -------------------------------
(***************************************************************************)
(* Staged uploads: the filesystem store (gw/upload_store.go), the tus      *)
(* handler over it (gw/upload_tus.go) and a resolver that opens the result *)
(* through the Upload scalar (gw/upload.go).                               *)
(*                                                                         *)
(* One upload id: the store keeps ids apart.  The client's file is the     *)
(* bytes 1, 2, ..., so the body in the store shows what was written where. *)
(* A PATCH reads the metadata, copies its body into the file, which is     *)
(* open for appending, and writes the metadata; the client sends, loses    *)
(* answers, asks with HEAD where it is and goes on; the evictor removes    *)
(* what has not been touched for the TTL.                                  *)
(***************************************************************************)
EXTENDS Integers, Sequences, SequencesExt, FiniteSets

CONSTANTS
    Handlers,    \* PATCH handlers that can run at once; the first is always there
    Declared,    \* lengths a client may declare at POST; -1 is deferred
    FileLen,     \* bytes the client has
    MaxChunk,    \* bound: bytes of one PATCH
    Limit,       \* WithUploadLimit, 0 is none
    MaxLost,     \* bound: answers that are lost or copies that break off
    MaxFaults    \* bound: crashes and failed metadata writes

Deferred == -1
NoInfo == [off |-> 0, len |-> 0, complete |-> FALSE]

VARIABLES
    dir,       \* the upload's directory exists
    meta,      \* meta.json: UploadInfo
    body,      \* body.dat: the client's byte numbers, in file order
    stale,     \* the directory's modification time is older than the TTL
    patch,     \* per handler: where servePatch is, and what it has read
    client,    \* what the client does
    pos,       \* the offset the client goes on from
    evictor,   \* evictExpired: has seen a stale directory or not
    opened,    \* the resolver: what it reads, once it has opened the body
    resolver,  \* where Upload.Open is
    lost, faults

vars == <<dir, meta, body, stale, patch, client, pos, evictor, opened, resolver, lost, faults>>
storeVars == <<dir, meta, body, stale>>
sideVars == <<evictor, opened, resolver>>

Info == [off: Nat, len: {Deferred} \cup Nat, complete: BOOLEAN]
Idle == [at |-> "idle", off |-> 0, n |-> 0, info |-> NoInfo, answer |-> 0]

TypeOK ==
    /\ dir \in BOOLEAN /\ stale \in BOOLEAN
    /\ meta \in Info
    /\ body \in Seq(1..FileLen)
    /\ patch \in [Handlers -> [at: {"idle", "read", "broken", "copied", "answer"}, off: Nat,
                               n: Nat, info: Info, answer: Nat]]
    /\ client \in {"new", "ready", "sent", "resync", "done", "gone"}
    /\ pos \in Nat
    /\ evictor \in BOOLEAN
    /\ opened \in Seq(1..FileLen) /\ resolver \in {"idle", "info", "open", "failed"}
    /\ lost \in 0..MaxLost /\ faults \in 0..MaxFaults

Init ==
    /\ dir = FALSE /\ stale = FALSE
    /\ meta = NoInfo /\ body = <<>>
    /\ patch = [h \in Handlers |-> Idle]
    /\ client = "new" /\ pos = 0
    /\ evictor = FALSE
    /\ opened = <<>> /\ resolver = "idle"
    /\ lost = 0 /\ faults = 0

-----------------------------------------------------------------------------
(* POST and DELETE.                                                        *)

\* Create: the store's first metadata.
Created(len) == [off |-> 0, len |-> len, complete |-> len = 0]

\* serveCreate: a declared length over the limit is refused.
Create(len) ==
    /\ client = "new"
    /\ Limit > 0 => len <= Limit
    /\ dir' = TRUE /\ stale' = FALSE /\ body' = <<>>
    /\ meta' = Created(len)
    /\ client' = IF len = 0 THEN "done" ELSE "ready"
    /\ UNCHANGED <<patch, pos, sideVars, lost, faults>>

\* serveDelete: the client takes its upload back.
Delete ==
    /\ client = "ready"
    /\ dir' = FALSE
    /\ client' = "gone"
    /\ UNCHANGED <<meta, body, stale, patch, pos, sideVars, lost, faults>>

-----------------------------------------------------------------------------
(* PATCH.                                                                  *)

\* The client sends n bytes from where it is.
Send(h, n) ==
    /\ client = "ready" /\ patch[h].at = "idle"
    /\ pos + n <= FileLen
    /\ patch' = [patch EXCEPT ![h] = [Idle EXCEPT !.at = "read", !.off = pos, !.n = n]]
    /\ client' = "sent"
    /\ UNCHANGED <<storeVars, pos, sideVars, lost, faults>>

\* Append refuses: unknown, complete, at another offset, nothing left to write.
Refusal(h) ==
    \/ ~dir
    \/ meta.complete \/ patch[h].off # meta.off
    \/ meta.len >= 0 /\ meta.len - meta.off <= 0

\* Answers with the store's offset (0 for an unknown id).
PatchRefused(h) ==
    /\ patch[h].at = "read" /\ Refusal(h)
    /\ patch' = [patch EXCEPT ![h].at = "answer",
                              ![h].answer = IF dir THEN meta.off ELSE 0]
    /\ UNCHANGED <<storeVars, client, pos, sideVars, lost, faults>>

\* The bytes that io.Copy writes: the request's, capped by what is left of the
\* declared length, plus one, and by the limit, plus one.
Written(info, n) ==
    LET cap(k, m) == IF k < m THEN k ELSE m
        left == IF info.len >= 0 THEN cap(n, info.len - info.off + 1) ELSE n
    IN  IF Limit > 0 THEN cap(left, Limit + 1) ELSE left

\* The file is open for appending: bytes go to its end, wherever that is.
PatchCopy(h) ==
    /\ patch[h].at = "read" /\ ~Refusal(h)
    /\ LET k == Written(meta, patch[h].n)
       IN /\ body' = body \o [b \in 1..k |-> patch[h].off + b]
          /\ patch' = [patch EXCEPT ![h].at = "copied", ![h].n = k, ![h].info = meta]
    /\ UNCHANGED <<dir, meta, stale, client, pos, sideVars, lost, faults>>

\* The request's body breaks off after some bytes.
PatchBreaks(h) ==
    /\ patch[h].at = "read" /\ ~Refusal(h)
    /\ lost < MaxLost /\ lost' = lost + 1
    /\ \E k \in 0..Written(meta, patch[h].n) :
          body' = body \o [b \in 1..k |-> patch[h].off + b]
    /\ patch' = [patch EXCEPT ![h].at = "broken", ![h].info = meta]
    /\ UNCHANGED <<dir, meta, stale, client, pos, sideVars, faults>>

Truncate(n) == body' = SubSeq(body, 1, IF n < Len(body) THEN n ELSE Len(body))

\* Mutation: what was written before the error stays.
PatchTruncateMissing(h) ==
    /\ patch[h].at = "broken"
    /\ patch' = [patch EXCEPT ![h].at = "answer", ![h].answer = patch[h].info.off]
    /\ UNCHANGED <<storeVars, client, pos, sideVars, lost, faults>>

\* The partial bytes are cut off; the offset stays.
PatchTruncate(h) ==
    /\ patch[h].at = "broken"
    /\ Truncate(patch[h].info.off)
    /\ patch' = [patch EXCEPT ![h].at = "answer", ![h].answer = patch[h].info.off]
    /\ UNCHANGED <<dir, meta, stale, client, pos, sideVars, lost, faults>>

\* What Append writes back: over the declared length the offset is the length
\* and nothing is complete; at the length the upload is complete.
Appended(info, k) ==
    LET off == info.off + k
    IN  IF info.len >= 0 /\ off > info.len
        THEN [info EXCEPT !.off = info.len]
        ELSE [info EXCEPT !.off = off, !.complete = info.len >= 0 /\ off = info.len]

\* The metadata is replaced by a rename, which also touches the directory; a
\* directory that is gone cannot be written to.
PatchCommit(h) ==
    /\ patch[h].at = "copied"
    /\ LET info == patch[h].info
           new == Appended(info, patch[h].n)
       IN /\ IF info.off + patch[h].n > new.off
             THEN Truncate(info.len) ELSE UNCHANGED body
          /\ IF dir THEN meta' = new /\ stale' = FALSE ELSE UNCHANGED <<meta, stale>>
          /\ patch' = [patch EXCEPT ![h].at = "answer", ![h].answer = new.off]
    /\ UNCHANGED <<dir, client, pos, sideVars, lost, faults>>

\* The metadata cannot be written although the directory is there.
PatchCommitFails(h) ==
    /\ patch[h].at = "copied"
    /\ faults < MaxFaults /\ faults' = faults + 1
    /\ patch' = [patch EXCEPT ![h].at = "answer",
                              ![h].answer = Appended(patch[h].info, patch[h].n).off]
    /\ UNCHANGED <<storeVars, client, pos, sideVars, lost>>

-----------------------------------------------------------------------------
(* The client's side of an answer (external).                              *)

\* The client goes on from the offset it was told.
Next0(p) == IF p >= meta.len /\ meta.len >= 0 THEN "done" ELSE "ready"

Answered(h) ==
    /\ patch[h].at = "answer"
    /\ patch' = [patch EXCEPT ![h] = Idle]
    /\ \/ /\ client = "sent"
          /\ pos' = patch[h].answer
          /\ client' = IF dir THEN Next0(patch[h].answer) ELSE "gone"
          /\ UNCHANGED lost
       \/ /\ client = "sent"
          /\ lost < MaxLost /\ lost' = lost + 1
          /\ client' = "resync" /\ UNCHANGED pos
       \/ client # "sent" /\ UNCHANGED <<client, pos, lost>>
    /\ UNCHANGED <<storeVars, sideVars, faults>>

\* The client stops waiting while its PATCH still runs.
GiveUp ==
    /\ client = "sent" /\ lost < MaxLost
    /\ \E h \in Handlers : patch[h].at = "idle"
    /\ lost' = lost + 1 /\ client' = "resync"
    /\ UNCHANGED <<storeVars, patch, pos, sideVars, faults>>

\* HEAD: the client goes on from the stored offset.
Head0 ==
    /\ client = "resync"
    /\ IF dir THEN pos' = meta.off /\ client' = Next0(meta.off)
              ELSE client' = "gone" /\ UNCHANGED pos
    /\ UNCHANGED <<storeVars, patch, sideVars, lost, faults>>

-----------------------------------------------------------------------------
(* The evictor, the resolver, a crash.                                     *)

\* Nothing has touched the directory for the TTL.
Ages ==
    /\ dir /\ ~stale
    /\ stale' = TRUE
    /\ UNCHANGED <<dir, meta, body, patch, client, pos, sideVars, lost, faults>>

EvictSees ==
    /\ dir /\ stale /\ ~evictor
    /\ evictor' = TRUE
    /\ UNCHANGED <<storeVars, patch, client, pos, opened, resolver, lost, faults>>

EvictRemoves ==
    /\ evictor
    /\ evictor' = FALSE /\ dir' = FALSE
    /\ UNCHANGED <<meta, body, stale, patch, client, pos, opened, resolver, lost, faults>>

\* uploadFromStore reads the metadata ...
ResolveInfo ==
    /\ resolver = "idle" /\ client # "new"
    /\ resolver' = IF dir /\ meta.complete THEN "info" ELSE "failed"
    /\ UNCHANGED <<storeVars, patch, client, pos, evictor, opened, lost, faults>>

\* ... and the store reads it again and opens the body.
ResolveOpen ==
    /\ resolver = "info"
    /\ resolver' = IF dir THEN "open" ELSE "failed"
    /\ opened' = IF dir THEN body ELSE <<>>
    /\ UNCHANGED <<storeVars, patch, client, pos, evictor, lost, faults>>

\* A request that failed may be sent again.
ResolveAgain ==
    /\ resolver = "failed" /\ dir
    /\ resolver' = "idle"
    /\ UNCHANGED <<storeVars, patch, client, pos, evictor, opened, lost, faults>>

\* The process ends and starts again: handlers are gone, the disk stays.
Crash ==
    /\ faults < MaxFaults /\ faults' = faults + 1
    /\ patch' = [h \in Handlers |-> Idle]
    /\ client' = IF client = "sent" THEN "resync" ELSE client
    /\ evictor' = FALSE
    /\ UNCHANGED <<storeVars, pos, opened, resolver, lost>>

-----------------------------------------------------------------------------
Next ==
    \/ \E len \in Declared : Create(len)
    \/ Delete
    \/ \E h \in Handlers : \/ \E n \in 1..MaxChunk : Send(h, n)
                           \/ PatchRefused(h) \/ PatchCopy(h) \/ PatchBreaks(h)
                           \/ PatchTruncate(h) \/ PatchCommit(h) \/ Answered(h)
    \/ Head0
    \/ Ages \/ EvictSees \/ EvictRemoves
    \/ ResolveInfo \/ ResolveOpen \/ ResolveAgain

Spec == Init /\ [][Next]_vars

\* The same with what the store does not survive: a crash or a failed write
\* between the body and the metadata, and a client that retries too early.
FaultyNext ==
    \/ Next
    \/ \E h \in Handlers : PatchCommitFails(h)
    \/ GiveUp \/ Crash

FaultySpec == Init /\ [][FaultyNext]_vars

\* Handlers run to their end, the client goes on sending.
Fairness ==
    /\ \A h \in Handlers :
          /\ WF_vars(PatchRefused(h)) /\ WF_vars(PatchCopy(h)) /\ WF_vars(PatchTruncate(h))
          /\ WF_vars(PatchCommit(h)) /\ WF_vars(Answered(h))
          /\ WF_vars(\E n \in 1..MaxChunk : Send(h, n))
    /\ WF_vars(Head0)

FairSpec == Spec /\ Fairness

-----------------------------------------------------------------------------
(* Properties.                                                             *)

File(n) == [b \in 1..n |-> b]

(***************************************************************************)
(* Append keeps the body and the offset together, whatever broke off or    *)
(* got lost before: between requests the body is the first bytes of the    *)
(* client's file, as many as the offset says.                              *)
(***************************************************************************)
BodyIsPrefix ==
    dir /\ (\A h \in Handlers : patch[h].at \in {"idle", "read", "answer"})
        => body = File(meta.off)

(***************************************************************************)
(* A resolver that gets to open the upload reads the whole file as it was  *)
(* declared, whatever the client, the evictor and other resolvers do.      *)
(***************************************************************************)
OpenedIsWhole == resolver = "open" => meta.len >= 0 /\ opened = File(meta.len)

(***************************************************************************)
(* The offset reached the declared length: the upload can be opened        *)
(* (the UploadStore interface: incomplete means that "the offset hasn't    *)
(* reached Length").                                                       *)
(***************************************************************************)
FullIsComplete == dir /\ meta.len >= 0 /\ meta.off = meta.len => meta.complete

=============================================================================
