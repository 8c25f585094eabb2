------------------------- MODULE VideoPipelineInv --------------------------
(***************************************************************************)
(* The inductive invariant behind the safety of VideoPipeline, in named    *)
(* parts, each about one thing that has to stay true while an upload, a    *)
(* transcoder, deletions and restarts interleave.                          *)
(***************************************************************************)
EXTENDS VideoPipeline

\* Before its job row an upload has no transcoder, and before its video row
\* no status: the handler is the only one to touch it.
RegInv ==
    \A v \in Videos :
        /\ reg[v] \in {"new", "body", "onDisk"} => status[v] = "unregistered"
        /\ reg[v] \in {"new", "body", "onDisk", "row"} =>
              /\ job[v] = "none"
              /\ \A w \in Workers : cur[w] # v

\* A worker between two claims has no job, and only then.
BusyInv == \A w \in Workers : pc[w] = "idle" <=> cur[w] = Nobody

\* A deletion is of a video that has a row or had one.
DelInv ==
    \A d \in Deleters : delPc[d] = "messages" =>
        delVideo[d] # Nobody /\ status[delVideo[d]] # "unregistered"

\* A claim lives in memory: the job of a busy worker is not pending, so it
\* cannot be claimed a second time.
ClaimInv ==
    /\ \A w \in Workers : cur[w] # Nobody => job[cur[w]] # "pending"
    /\ ClaimExclusive

\* What the step a worker is at says about the rows of its video.
StepInv ==
    \A w \in Workers : cur[w] # Nobody =>
        /\ pc[w] \in {"encode", "stage", "create", "send", "publish"} =>
              status[cur[w]] # "ready"
        /\ pc[w] = "finish" => status[cur[w]] \in {"ready", "deleted"}
        /\ job[cur[w]] = "done" => pc[w] \in {"clean", "wipe"}

\* Renditions are created from the first rung up, so a retry meets a row of
\* an earlier attempt at the first rung or at none.
RendInv ==
    /\ \A v \in Videos : \A r \in rends[v] : \A q \in Rungs :
          q < r => q \in rends[v]
    /\ \A w \in Workers : pc[w] = "stage" => rung[w] = 1
    /\ \A w \in Workers : cur[w] # Nobody /\ status[cur[w]] # "deleted" =>
          /\ pc[w] = "create" /\ rung[w] > 1 =>
                \A q \in Rungs : q \in rends[cur[w]] <=> q < rung[w]
          /\ pc[w] = "send" =>
                \A q \in Rungs : q \in rends[cur[w]] <=> q <= rung[w]
          /\ pc[w] = "publish" => rends[cur[w]] = Rungs

RungComplete(v, r) ==
    \A p \in Segments :
        \E m \in rows :
            /\ m.video = v /\ m.rung = r /\ m.pos = p
            /\ \A n \in rows : n.video = v /\ n.rung = r /\ n.pos = p => n = m

RungMatches(v, r) == \A m \in chat : m.video = v /\ m.rung = r => m \in rows

RungDone(v, r) == RungComplete(v, r) /\ RungMatches(v, r)

\* Nothing of a rung exists before its rendition row does.
OwnedInv ==
    /\ \A m \in rows : m.rung \in rends[m.video]
    /\ \A m \in chat :
          m.rung \in rends[m.video] \/ status[m.video] = "deleted"

\* The rungs behind the loop index are done; of the rung being sent the chat
\* holds this attempt's messages only, and the table none.
SendOK(w) ==
    /\ pc[w] \in {"create", "send"} =>
          \A q \in Rungs : q < rung[w] => RungDone(cur[w], q)
    /\ pc[w] = "publish" => \A q \in Rungs : RungDone(cur[w], q)
    /\ pc[w] = "send" =>
          /\ \A m \in rows : m.video = cur[w] => m.rung # rung[w]
          /\ \A m \in chat : m.video = cur[w] /\ m.rung = rung[w] =>
                m = MessageOf(cur[w], rung[w], m.pos)

SendInv ==
    \A w \in Workers :
        cur[w] # Nobody /\ status[cur[w]] # "deleted" => SendOK(w)

\* Messages disappear by deletions only.
LiveInv ==
    /\ \A d \in Deleters : \A m \in delMsgs[d] : m.video \in touched
    /\ \A m \in rows : m.video \notin touched => m \in chat
    /\ \A w \in Workers : \A p \in Segments :
          /\ pc[w] = "send"
          /\ sent[w][p] = "sent"
          /\ cur[w] \notin touched
          => MessageOf(cur[w], rung[w], p) \in chat

\* A published video is done on every rung.
ReadyInv ==
    \A v \in Videos : status[v] = "ready" =>
        rends[v] = Rungs /\ \A r \in Rungs : RungDone(v, r)

\* As long as the process has not been killed a video is published once: what
\* waits for a transcoder, or has just been claimed or given up, is not ready.
SteadyInv ==
    restarts = 0 =>
        /\ \A v \in Videos :
              reg[v] = "row" \/ job[v] = "pending" => status[v] # "ready"
        /\ \A w \in Workers :
              /\ cur[w] # Nobody
              /\ pc[w] \in {"load", "begin", "fail", "setFailed"}
              => status[cur[w]] # "ready"

\* The whole of it, preserved by every step of Next.
IInv ==
    /\ TypeOK
    /\ BusyInv
    /\ RegInv
    /\ DelInv
    /\ ClaimInv
    /\ StepInv
    /\ RendInv
    /\ OwnedInv
    /\ SendInv
    /\ LiveInv
    /\ ReadyInv
    /\ DoneMeansReady
    /\ DeletedLeavesNoRows

\* A job that no worker has yet looked at has its source, and a worker removes
\* the file of settled jobs only. Postgres is up.
SourceInv ==
    /\ \A v \in Videos :
          /\ reg[v] \in {"body", "onDisk", "row"} => v \in source
          /\ reg[v] = "drop" => job[v] = "none"
    /\ \A w \in Workers :
          cur[w] # Nobody /\ pc[w] \in {"setFailed", "clean", "wipe"} =>
              job[cur[w]] \notin {"pending", "running"}
    /\ UnsettledHasSource

\* What a deletion of a published video has not come to yet, or was refused, is
\* all that the chat has of it, and nobody sends more: a transcoder that has the
\* video again stops at its first rendition.
ListedInv ==
    \A d \in Deleters :
        /\ delPc[d] = "idle" => delVideo[d] = Nobody
        /\ delPc[d] = "messages" /\ delReady[d] /\ status[delVideo[d]] # "deleted" =>
              /\ rends[delVideo[d]] = Rungs
              /\ MessagesOf(chat, delVideo[d]) \subseteq delMsgs[d] \cup refused
              /\ \A w \in Workers : cur[w] = delVideo[d] => pc[w] # "send"

\* A video gets a job once.
StampInv ==
    \A v \in Videos :
        reg[v] \in {"new", "body", "onDisk", "row"} => created[v] = 0

\* What waits to be claimed was not claimed since the program started.
AttemptsInv ==
    /\ ClaimedOncePerBoot
    /\ \A v \in Videos :
          /\ reg[v] \in {"new", "body", "onDisk", "row"} => attempts[v] = 0
          /\ job[v] = "pending" => attempts[v] <= restarts

=============================================================================
