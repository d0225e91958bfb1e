------------------------------ MODULE AudioPlayer ------------------------------
(***************************************************************************)
(* voice/audio_player.cpp and its callers in voice/tts_worker.cpp: one     *)
(* gst-launch child reads sound from a pipe.  The playback thread writes   *)
(* chunks, a keepalive thread writes silence in between, and the main      *)
(* thread starts the keepalive and tears everything down; the child may    *)
(* die whenever it likes.                                                  *)
(*                                                                         *)
(* What happens under g_pipe_mutex is cut where the death of the child     *)
(* makes a difference: at each write.  A child stands for its process and  *)
(* its pipe.  The sample rate, which never changes, is left out.           *)
(***************************************************************************)
EXTENDS Naturals

CONSTANTS MaxChildren,    \* bound: children that can be started; then fork fails
          MaxPlays,       \* bound: calls of PlayPcm
          SigpipeIgnored  \* the disposition of SIGPIPE the program was started with

ASSUME PlayerAssumption ==
    MaxChildren \in Nat /\ MaxPlays \in Nat /\ SigpipeIgnored \in BOOLEAN

VARIABLES
    child,        \* what became of each child
    play_pid,     \* g_play_pid, 0 for none
    write_fd,     \* g_write_fd: the child at the other end of the pipe, 0 for none
    needs_prime,  \* g_stream_needs_cold_prime
    keep_stop,    \* g_keepalive_stop
    keep_paused,  \* g_keepalive_paused
    lock,         \* who holds g_pipe_mutex
    keeper,       \* where g_keepalive_thread is; none when it is not joinable
    play,         \* where the playback thread is in PlayPcm
    plays,        \* calls of PlayPcm so far
    main,         \* where the main thread is
    killed        \* SIGPIPE has ended the program

streamVars == <<child, play_pid, write_fd, needs_prime>>
keepVars == <<keep_stop, keep_paused, keeper>>
playVars == <<play, plays>>
vars == <<streamVars, keepVars, lock, playVars, main, killed>>

Child == 1 .. MaxChildren

TypeOK ==
    /\ child \in [Child -> {"none", "running", "zombie", "reaped"}]
    /\ {play_pid, write_fd} \subseteq Child \cup {0}
    /\ {needs_prime, keep_stop, keep_paused, killed} \subseteq BOOLEAN
    /\ lock \in {"free", "keeper", "play"}
    /\ keeper \in {"none", "loop", "waiting", "feeding", "returned"}
    /\ play \in {"idle", "waiting", "prime", "reprime", "write", "rewrite", "exited"}
    /\ plays \in 0 .. MaxPlays
    /\ main \in {"up", "beginning", "stopping", "stop_locking", "joining",
                 "down", "beginning_again", "stopping_again", "locking_again", "done"}

Init ==
    /\ child = [c \in Child |-> "none"]
    /\ play_pid = 0 /\ write_fd = 0 /\ needs_prime = FALSE
    /\ keep_stop = TRUE /\ keep_paused = FALSE /\ keeper = "none"
    /\ lock = "free"
    /\ play = "idle" /\ plays = 0
    /\ main = "up"
    /\ killed = FALSE

\* The child ends by itself, or was never able to start.
ChildDies ==
    /\ \E c \in Child : child[c] = "running" /\ child' = [child EXCEPT ![c] = "zombie"]
    /\ UNCHANGED <<play_pid, write_fd, needs_prime, keepVars, lock, playVars, main, killed>>

-----------------------------------------------------------------------------
\* The stream, under g_pipe_mutex

\* kill and waitpid(WNOHANG): whether the child is gone at once or stays a zombie.
Terminated(c, now) ==
    IF c = 0 THEN child
    ELSE [child EXCEPT ![c] = IF child[c] = "reaped" THEN "reaped" ELSE now]

\* StartStreamProcess, after `before' has become of the children: pipe or fork may fail.
StartStream(before) ==
    \/ /\ child' = before
       /\ play_pid' = 0 /\ write_fd' = 0
       /\ UNCHANGED needs_prime
    \/ \E c \in Child :
        /\ child[c] = "none" /\ \A d \in Child : d < c => child[d] # "none"
        /\ child' = [before EXCEPT ![c] = "running"]
        /\ play_pid' = c /\ write_fd' = c
        /\ needs_prime' = TRUE

\* Terminate what there is, close the pipe, start again.
Restart == \E now \in {"zombie", "reaped"} : StartStream(Terminated(play_pid, now))

\* EnsureStreamProcess: a child that has died is reaped and replaced.
EnsureStream ==
    IF play_pid # 0 /\ child[play_pid] = "zombie"
    THEN StartStream([child EXCEPT ![play_pid] = "reaped"])
    ELSE IF play_pid # 0 /\ write_fd # 0
    THEN UNCHANGED streamVars
    ELSE Restart

\* What becomes of a write: it succeeds, fails with EPIPE, or SIGPIPE ends the program.
Writable == write_fd # 0 /\ child[write_fd] = "running"
Fatal == write_fd # 0 /\ ~Writable /\ ~SigpipeIgnored

-----------------------------------------------------------------------------
\* Playback thread: PlayPcm

\* Called for a chunk that was checked before stop_ was set.
PlayPcm ==
    /\ play = "idle" /\ main \in {"up", "beginning", "stopping", "stop_locking", "joining"}
    /\ plays < MaxPlays
    /\ plays' = plays + 1
    /\ play' = "waiting" /\ keep_paused' = TRUE
    /\ UNCHANGED <<streamVars, keep_stop, keeper, lock, main, killed>>

\* PlayPcm returns.
Return == play' = "idle" /\ lock' = "free" /\ keep_paused' = FALSE

Hold(at) == play' = at /\ lock' = "play"

PlayEnsure ==
    /\ play = "waiting" /\ lock = "free"
    /\ EnsureStream
    /\ IF play_pid' = 0 THEN Return ELSE Hold("prime") /\ UNCHANGED keep_paused
    /\ UNCHANGED <<keep_stop, keeper, plays, main, killed>>

\* PrimeColdStartIfNeeded; when it fails the stream is restarted once, and from then
\* on the keepalive is no longer told to wait.
PlayPrime ==
    /\ play = "prime"
    /\ \/ /\ needs_prime => Writable
          /\ Hold("write")
          /\ needs_prime' = FALSE
          /\ UNCHANGED <<child, play_pid, write_fd, keep_paused>>
       \/ /\ needs_prime /\ ~Writable
          /\ keep_paused' = FALSE
          /\ Restart
          /\ IF play_pid' = 0 THEN play' = "idle" /\ lock' = "free" ELSE Hold("reprime")
    /\ killed' = (needs_prime /\ Fatal)
    /\ UNCHANGED <<keep_stop, keeper, plays, main>>

PlayReprime ==
    /\ play = "reprime"
    /\ needs_prime' = FALSE
    /\ IF Writable THEN Hold("write") ELSE play' = "idle" /\ lock' = "free"
    /\ killed' = Fatal
    /\ UNCHANGED <<child, play_pid, write_fd, keepVars, plays, main>>

\* The chunk; when the write fails the stream is restarted once.
PlayWrite ==
    /\ play = "write"
    /\ IF Writable
       THEN Return /\ UNCHANGED streamVars
       ELSE /\ Restart
            /\ IF play_pid' = 0 THEN Return ELSE Hold("rewrite") /\ UNCHANGED keep_paused
    /\ killed' = Fatal
    /\ UNCHANGED <<keep_stop, keeper, plays, main>>

\* Priming and the chunk once more, whatever comes of it.
PlayRewrite ==
    /\ play = "rewrite"
    /\ needs_prime' = FALSE
    /\ Return
    /\ killed' = Fatal
    /\ UNCHANGED <<child, play_pid, write_fd, keep_stop, keeper, plays, main>>

-----------------------------------------------------------------------------
\* Keepalive thread: IdleKeepaliveLoop

\* The sleep, the looks at the flags, and the end after kKeepaliveMaxMs, which leaves
\* g_keepalive_stop as it is.
KeepLoop ==
    /\ keeper = "loop"
    /\ \/ keep_stop /\ keeper' = "returned"
       \/ ~keep_stop /\ ~keep_paused /\ keeper' \in {"waiting", "returned"}
    /\ UNCHANGED <<streamVars, keep_stop, keep_paused, lock, playVars, main, killed>>

\* The flags once more under the lock, then EnsureStreamProcess.
KeepEnsure ==
    /\ keeper = "waiting" /\ lock = "free"
    /\ IF keep_stop \/ keep_paused
       THEN keeper' = "loop" /\ UNCHANGED <<streamVars, lock>>
       ELSE /\ EnsureStream
            /\ IF play_pid' = 0 THEN keeper' = "loop" /\ UNCHANGED lock
                                ELSE keeper' = "feeding" /\ lock' = "keeper"
    /\ UNCHANGED <<keep_stop, keep_paused, playVars, main, killed>>

\* Priming and a little silence; failures are not looked at.
KeepFeed ==
    /\ keeper = "feeding"
    /\ keeper' = "loop" /\ lock' = "free"
    /\ needs_prime' = FALSE
    /\ killed' = Fatal
    /\ UNCHANGED <<child, play_pid, write_fd, keep_stop, keep_paused, playVars, main>>

-----------------------------------------------------------------------------
\* Main thread

\* EndIdleKeepalive up to the join.
EndIdleKeepalive == keep_stop' = TRUE /\ keep_paused' = FALSE

Joined == keeper \in {"none", "returned"}

\* BeginIdleKeepalive, from EnqueueCleaned and Cancel, and from the Cancel that
\* ~Pipeline makes after the shutdown.  A thread that ended by itself counts as running.
BeginIdleKeepalive ==
    /\ \/ main = "up" /\ main' = "beginning"
       \/ main = "down" /\ main' = "beginning_again"
    /\ ~(keeper # "none" /\ ~keep_stop)
    /\ EndIdleKeepalive
    /\ UNCHANGED <<streamVars, keeper, lock, playVars, killed>>

StartKeepalive ==
    /\ \/ main = "beginning" /\ main' = "up"
       \/ main = "beginning_again" /\ main' = "down"
    /\ Joined
    /\ keep_stop' = FALSE /\ keep_paused' = FALSE /\ keeper' = "loop"
    /\ UNCHANGED <<streamVars, lock, playVars, killed>>

\* Mutation: the keepalive thread is not told to stop.
BeginStopKeepsKeeper ==
    /\ \/ main = "up" /\ main' = "stopping"
       \/ main = "down" /\ main' = "stopping_again"
    /\ UNCHANGED <<streamVars, keepVars, lock, playVars, killed>>

\* Stop, from TtsWorker::Shutdown and again from ~TtsWorker.
BeginStop ==
    /\ \/ main = "up" /\ main' = "stopping"
       \/ main = "down" /\ main' = "stopping_again"
    /\ EndIdleKeepalive
    /\ UNCHANGED <<streamVars, keeper, lock, playVars, killed>>

\* Mutation: the keepalive thread is not waited for.
JoinKeeperNever ==
    /\ \/ main = "stopping" /\ main' = "stop_locking"
       \/ main = "stopping_again" /\ main' = "locking_again"
    /\ UNCHANGED <<streamVars, keepVars, lock, playVars, killed>>

JoinKeeper ==
    /\ \/ main = "stopping" /\ main' = "stop_locking"
       \/ main = "stopping_again" /\ main' = "locking_again"
    /\ Joined
    /\ keeper' = "none"
    /\ UNCHANGED <<streamVars, keep_stop, keep_paused, lock, playVars, killed>>

\* Mutation: the child is forgotten, not terminated.
StopStreamLeavesChild ==
    /\ \/ main = "stop_locking" /\ main' = "joining"
       \/ main = "locking_again" /\ main' = "done"
    /\ lock = "free"
    /\ play_pid' = 0 /\ write_fd' = 0 /\ needs_prime' = FALSE
    /\ UNCHANGED <<child, keepVars, lock, playVars, killed>>

\* The pipe is closed and the child terminated.
StopStream ==
    /\ \/ main = "stop_locking" /\ main' = "joining"
       \/ main = "locking_again" /\ main' = "done"
    /\ lock = "free"
    /\ \E now \in {"zombie", "reaped"} : child' = Terminated(play_pid, now)
    /\ play_pid' = 0 /\ write_fd' = 0 /\ needs_prime' = FALSE
    /\ UNCHANGED <<keepVars, lock, playVars, killed>>

\* TtsWorker::Shutdown joins the playback thread, which may have called PlayPcm since.
JoinPlayback ==
    /\ main = "joining" /\ main' = "down"
    /\ play = "idle" /\ play' = "exited"
    /\ UNCHANGED <<streamVars, keepVars, lock, plays, killed>>

-----------------------------------------------------------------------------
Playback == PlayPcm \/ PlayEnsure \/ PlayPrime \/ PlayReprime \/ PlayWrite \/ PlayRewrite
Keepalive == KeepLoop \/ KeepEnsure \/ KeepFeed
Shutdown == StartKeepalive \/ JoinKeeper \/ StopStream \/ JoinPlayback

Next ==
    /\ ~killed
    /\ \/ ChildDies \/ Playback \/ Keepalive
       \/ BeginIdleKeepalive \/ BeginStop \/ Shutdown

Spec == Init /\ [][Next]_vars

\* The three threads are scheduled; a write returns, because the child reads on or dies.
FairSpec ==
    /\ Spec
    /\ WF_vars(~killed /\ Playback) /\ WF_vars(~killed /\ Keepalive)
    /\ WF_vars(~killed /\ Shutdown)

-----------------------------------------------------------------------------
\* Two threads restart the child, a third one ends it: no child that still plays is
\* ever forgotten, and while nobody holds the lock the pipe leads to the child that
\* g_play_pid names.
OneStream ==
    /\ \A c \in Child : child[c] = "running" => c = play_pid
    /\ lock = "free" => write_fd = play_pid

\* The keepalive is paused only while PlayPcm is at work: none of its many ways out
\* leaves it paused.
PausedByPlayOnly == keep_paused => play \notin {"idle", "exited"}

\* Whenever the child dies and whoever restarts it: one stream, and nobody keeps the other out.
StreamsInOrder == OneStream /\ PausedByPlayOnly

\* When the last Shutdown is through, no child plays and no thread is left to be
\* destroyed while it is joinable, although PlayPcm and Cancel may have started both
\* again after the first one.
NothingLeft == main = "done" => keeper = "none" /\ \A c \in Child : child[c] # "running"

\* Stop returns, whatever the keepalive and the playback thread are at.
StopReturns == (main \in {"stopping", "stopping_again"}) ~> (main \in {"joining", "done"})

=============================================================================
