------------------------- MODULE ControlPipeProofs -------------------------
(***************************************************************************)
(* OwnReply for every number of callers, typists, panes and commands, and  *)
(* every capacity: as long as no task was dropped in the middle of a       *)
(* write, the slots are exactly the lines tmux still owes a reply for, in  *)
(* the order they were written.                                            *)
(***************************************************************************)
EXTENDS ControlPipe, TLAPS

Places == {"idle", "reserving", "queued", "writing", "waiting", "broken", "closing",
           "reaping", "ended"}

Types ==
  /\ stdin \in BOOLEAN /\ stopping \in BOOLEAN
  /\ lock \in Seq(Tasks)
  /\ pending \in Seq(Lines) /\ tin \in Seq(Lines) /\ replies \in Seq(Lines)
  /\ notices \in Seq(Panes) /\ resumes \in Seq(Panes)
  /\ resuming \in Panes \cup {"none"}
  /\ pc \in [Tasks -> Places]
  /\ sent \in [Clients \cup {"shutdown"} -> Nat]
  /\ got \in [Callers -> Errors \cup Lines]

\* Only the task at the head of the mutex is writing, and only into an open pipe.
Mutex == \A t \in Writers : pc[t] = "writing" => stdin /\ Holds(t)

\* The slots name the unread replies, then the unexecuted lines, then the line
\* being written.
Correlated ==
  /\ \A i \in 1..Len(replies) : pending[i] = replies[i]
  /\ \A i \in 1..Len(tin) : pending[Len(replies) + i] = tin[i]
  /\ \A t \in Writers : pc[t] = "writing" =>
       /\ Len(pending) = Len(replies) + Len(tin) + 1
       /\ pending[Len(pending)] = Line(t)
  /\ (\A t \in Writers : pc[t] # "writing") => Len(pending) = Len(replies) + Len(tin)

Answers == \A c \in Callers : got[c] \in Errors \/ got[c] = Line(c)

Running ==
  /\ Types /\ Mutex /\ Answers
  /\ stdin => Correlated
  /\ ~stdin => pending = <<>>

\* The inductive invariant: all of it until a slot is orphaned.
PipeInv == orphans \in Nat /\ (orphans = 0 => Running)

----------------------------------------------------------------------------
\* Facts about the sequences the steps build.

\* Appending to the mutex's queue leaves its holder.
LEMMA AppendKeepsHead ==
  ASSUME NEW S, NEW s \in Seq(S), NEW x \in S, s # <<>>
  PROVE  Append(s, x) # <<>> /\ Head(Append(s, x)) = Head(s)
OBVIOUS

\* What Tail does to the elements of a sequence that is not empty.
LEMMA TailElements ==
  ASSUME NEW S, NEW s \in Seq(S), s # <<>>
  PROVE  /\ Tail(s) \in Seq(S) /\ Len(s) \in Nat /\ Len(s) >= 1
         /\ Len(Tail(s)) = Len(s) - 1
         /\ \A i \in 1..Len(Tail(s)) : Tail(s)[i] = s[i + 1]
         /\ Head(s) = s[1]
OBVIOUS

\* What Append does to them.
LEMMA AppendElements ==
  ASSUME NEW S, NEW s \in Seq(S), NEW x \in S
  PROVE  /\ Append(s, x) \in Seq(S) /\ Len(s) \in Nat
         /\ Len(Append(s, x)) = Len(s) + 1
         /\ \A i \in 1..Len(s) : Append(s, x)[i] = s[i]
         /\ Append(s, x)[Len(s) + 1] = x
OBVIOUS

\* Leaving the mutex's queue leaves a queue.
LEMMA WithoutIsSeq ==
  ASSUME NEW S, NEW s \in Seq(S), NEW x
  PROVE  Without(s, x) \in Seq(S)
<1>. DEFINE At == {i \in DOMAIN s : s[i] = x}
            k == CHOOSE i \in At : TRUE
<1>1. CASE At = {}
  BY <1>1 DEF Without
<1>2. CASE At # {}
  <2>1. k \in At
    BY <1>2
  <2>2. k \in 1..Len(s) /\ Len(s) \in Nat /\ Len(s) - 1 \in Nat
    BY <2>1
  <2>3. Without(s, x) = [i \in 1..(Len(s) - 1) |-> IF i < k THEN s[i] ELSE s[i + 1]]
    BY <1>2 DEF Without
  <2>4. \A i \in 1..(Len(s) - 1) : (IF i < k THEN s[i] ELSE s[i + 1]) \in S
    BY <2>2
  <2>. HIDE DEF k
  <2>. QED  BY <2>2, <2>3, <2>4
<1>. QED  BY <1>1, <1>2

\* And its holder, unless that is who leaves.
LEMMA WithoutKeepsHead ==
  ASSUME NEW S, NEW s \in Seq(S), NEW x, s # <<>>, Head(s) # x
  PROVE  Without(s, x) # <<>> /\ Head(Without(s, x)) = Head(s)
<1>. DEFINE At == {i \in DOMAIN s : s[i] = x}
            k == CHOOSE i \in At : TRUE
<1>1. CASE At = {}
  BY <1>1 DEF Without
<1>2. CASE At # {}
  <2>1. k \in At
    BY <1>2
  <2>2. k \in 2..Len(s) /\ Len(s) \in Nat /\ Len(s) - 1 \in Nat /\ Len(s) - 1 >= 1
    BY <2>1
  <2>3. Without(s, x) = [i \in 1..(Len(s) - 1) |-> IF i < k THEN s[i] ELSE s[i + 1]]
    BY <1>2 DEF Without
  <2>4. Without(s, x) \in Seq(S)
    BY WithoutIsSeq
  <2>. HIDE DEF k
  <2>5. DOMAIN Without(s, x) = 1..(Len(s) - 1) /\ Without(s, x)[1] = s[1]
    BY <2>2, <2>3
  <2>. QED  BY <2>2, <2>4, <2>5
<1>. QED  BY <1>1, <1>2

\* A task's line is a line.
LEMMA LineIsLine ==
  ASSUME Types, NEW t \in Writers
  PROVE  Line(t) \in Lines
BY PipeAssumption DEF Types, Line, Lines, Writers, Clients

\* A step that moves no line and no slot, and lets nobody start or stop
\* writing, keeps the correlation.
LEMMA Frame ==
  ASSUME Running, Types',
         UNCHANGED <<stdin, pending, tin, replies>>,
         \A t \in Writers : pc'[t] = "writing" <=> pc[t] = "writing",
         \A t \in Writers : pc[t] = "writing" => Line(t)' = Line(t),
         \/ UNCHANGED lock \/ \E x \in Tasks : lock' = Append(lock, x)
         \/ \E x \in Tasks : /\ lock' = Without(lock, x)
                             /\ x \in Writers => pc[x] # "writing"
  PROVE  /\ Mutex' /\ (stdin' => Correlated') /\ (~stdin' => pending' = <<>>)
<1>1. ASSUME NEW t \in Writers, Holds(t), pc[t] = "writing" PROVE Holds(t)'
  <2>1. CASE UNCHANGED lock
    BY <1>1, <2>1 DEF Holds
  <2>2. CASE \E x \in Tasks : lock' = Append(lock, x)
    <3>1. PICK x \in Tasks : lock' = Append(lock, x)
      BY <2>2
    <3>2. lock \in Seq(Tasks) /\ lock # <<>> /\ Head(lock) = t
      BY <1>1 DEF Holds, Running, Types
    <3>3. Append(lock, x) # <<>> /\ Head(Append(lock, x)) = Head(lock)
      BY <3>2, AppendKeepsHead
    <3>. QED  BY <3>1, <3>2, <3>3 DEF Holds
  <2>3. CASE \E x \in Tasks : lock' = Without(lock, x) /\ (x \in Writers => pc[x] # "writing")
    <3>1. PICK x \in Tasks : lock' = Without(lock, x) /\ (x \in Writers => pc[x] # "writing")
      BY <2>3
    <3>2. lock \in Seq(Tasks) /\ lock # <<>> /\ Head(lock) = t /\ t # x
      BY <1>1, <3>1 DEF Holds, Running, Types
    <3>3. Without(lock, x) # <<>> /\ Head(Without(lock, x)) = Head(lock)
      BY <3>2, WithoutKeepsHead
    <3>. QED  BY <3>1, <3>2, <3>3 DEF Holds
  <2>. QED  BY <2>1, <2>2, <2>3
<1>2. Mutex'
  BY <1>1 DEF Mutex, Running
<1>3. stdin' => Correlated'
  BY DEF Correlated, Running
<1>. QED  BY <1>2, <1>3 DEF Running

----------------------------------------------------------------------------
\* The steps that move no line and no slot.

\* Taking a permit, or being refused one.
LEMMA SubmitKeeps ==
  ASSUME Running, NEW t \in Clients \cup {"shutdown"}, submit(t)
  PROVE  Running'
<1>1. Types'
  <2>1. sent' \in [Clients \cup {"shutdown"} -> Nat]
    BY DEF Running, Types, submit, Clients
  <2>2. pc' \in [Tasks -> Places] /\ got' \in [Callers -> Errors \cup Lines]
    BY Zenon DEF Running, Types, submit, Refused, Returns, Tasks, Writers, Clients, Places, Errors
  <2>3. lock' \in Seq(Tasks)
    <3>1. t \in Tasks /\ lock \in Seq(Tasks)
      BY DEF Running, Types, Tasks, Writers
    <3>2. lock' = lock \/ lock' = Append(lock, t)
      BY DEF submit
    <3>. QED  BY <3>1, <3>2
  <2>. QED  BY <2>1, <2>2, <2>3 DEF Running, Types, submit, stream
<1>2. /\ UNCHANGED <<stdin, pending, tin, replies>>
      /\ \A u \in Writers : pc'[u] = "writing" <=> pc[u] = "writing"
  BY PipeAssumption DEF Running, Types, submit, stream, Tasks, Writers, Clients, Refused, Returns
<1>3. \A u \in Writers : pc[u] = "writing" => Line(u)' = Line(u)
  BY PipeAssumption DEF Running, Types, submit, Line, Tasks, Writers, Clients, Refused, Returns
<1>4. UNCHANGED lock \/ \E x \in Tasks : lock' = Append(lock, x)
  BY PipeAssumption DEF submit, Tasks, Writers, Clients, Refused, Returns
<1>5. Answers'
  BY PipeAssumption, SMTT(20)
     DEF Running, Answers, Types, submit, Line, Tasks, Writers, Clients, Errors, Refused, Returns
<1>. QED  BY <1>1, <1>2, <1>3, <1>4, <1>5, Frame DEF Running

\* A typist begins to wait for capacity.
LEMMA ReserveInputKeeps ==
  ASSUME Running, NEW t \in Typists, reserve_input_capacity(t)
  PROVE  Running'
<1>1. Types'
  BY PipeAssumption, TailElements, AppendElements
     DEF Running, Types, reserve_input_capacity, stream, Tasks, Writers, Clients, Places, Errors
<1>2. /\ UNCHANGED <<stdin, pending, tin, replies>>
      /\ \A u \in Writers : pc'[u] = "writing" <=> pc[u] = "writing"
  BY PipeAssumption DEF Running, Types, reserve_input_capacity, stream, Tasks, Writers, Clients
<1>3. \A u \in Writers : pc[u] = "writing" => Line(u)' = Line(u)
  BY PipeAssumption DEF Running, Types, reserve_input_capacity, Line, Tasks, Writers, Clients
<1>4. UNCHANGED lock \/ \E x \in Tasks : lock' = Append(lock, x)
  BY PipeAssumption DEF reserve_input_capacity, Tasks, Writers, Clients
<1>5. Answers'
  BY PipeAssumption
     DEF Running, Answers, Types, reserve_input_capacity, Line, Tasks, Writers, Clients, Errors
<1>. QED  BY <1>1, <1>2, <1>3, <1>4, <1>5, Frame DEF Running

\* A waiter gets its permit, or learns that there will be none.
LEMMA ReserveKeeps ==
  ASSUME Running, NEW t \in Typists \cup {"worker"}, reserve_capacity(t)
  PROVE  Running'
<1>1. Types'
  <2>1. pc' \in [Tasks -> Places]
    BY DEF Running, Types, reserve_capacity, Refused, Tasks, Writers, Clients, Places
  <2>2. lock' \in Seq(Tasks)
    <3>1. t \in Tasks /\ lock \in Seq(Tasks)
      BY DEF Running, Types, Tasks, Writers, Clients
    <3>2. lock' = lock \/ lock' = Append(lock, t)
      BY DEF reserve_capacity
    <3>. QED  BY <3>1, <3>2
  <2>. QED  BY <2>1, <2>2 DEF Running, Types, reserve_capacity, stream
<1>2. /\ UNCHANGED <<stdin, pending, tin, replies>>
      /\ \A u \in Writers : pc'[u] = "writing" <=> pc[u] = "writing"
  BY PipeAssumption DEF Running, Types, reserve_capacity, stream, Tasks, Writers, Clients, Refused
<1>3. \A u \in Writers : pc[u] = "writing" => Line(u)' = Line(u)
  BY PipeAssumption DEF Running, Types, reserve_capacity, Line, Tasks, Writers, Clients, Refused
<1>4. UNCHANGED lock \/ \E x \in Tasks : lock' = Append(lock, x)
  BY PipeAssumption DEF reserve_capacity, Tasks, Writers, Clients, Refused
<1>5. Answers'
  BY PipeAssumption
     DEF Running, Answers, Types, reserve_capacity, Line, Tasks, Writers, Clients, Errors, Refused
<1>. QED  BY <1>1, <1>2, <1>3, <1>4, <1>5, Frame DEF Running

\* The worker takes a pane from its queue.
LEMMA TakeResumeKeeps ==
  ASSUME Running, TakeResume
  PROVE  Running'
<1>1. Types'
  BY PipeAssumption, TailElements, AppendElements
     DEF Running, Types, TakeResume, stream, Tasks, Writers, Clients, Places, Errors
<1>2. /\ UNCHANGED <<stdin, pending, tin, replies>>
      /\ \A u \in Writers : pc'[u] = "writing" <=> pc[u] = "writing"
  BY PipeAssumption DEF Running, Types, TakeResume, stream, Tasks, Writers, Clients
<1>3. \A u \in Writers : pc[u] = "writing" => Line(u)' = Line(u)
  BY PipeAssumption DEF Running, Types, TakeResume, Line, Tasks, Writers, Clients
<1>4. UNCHANGED lock \/ \E x \in Tasks : lock' = Append(lock, x)
  BY PipeAssumption DEF TakeResume, Tasks, Writers, Clients
<1>5. Answers'
  BY PipeAssumption
     DEF Running, Answers, Types, TakeResume, Line, Tasks, Writers, Clients, Errors
<1>. QED  BY <1>1, <1>2, <1>3, <1>4, <1>5, Frame DEF Running

\* The worker ends with the reader.
LEMMA WorkerEndsKeeps ==
  ASSUME Running, WorkerEnds
  PROVE  Running'
<1>1. Types'
  BY PipeAssumption, TailElements, AppendElements
     DEF Running, Types, WorkerEnds, stream, Tasks, Writers, Clients, Places, Errors
<1>2. /\ UNCHANGED <<stdin, pending, tin, replies>>
      /\ \A u \in Writers : pc'[u] = "writing" <=> pc[u] = "writing"
  BY PipeAssumption DEF Running, Types, WorkerEnds, stream, Tasks, Writers, Clients
<1>3. \A u \in Writers : pc[u] = "writing" => Line(u)' = Line(u)
  BY PipeAssumption DEF Running, Types, WorkerEnds, Line, Tasks, Writers, Clients
<1>4. UNCHANGED lock \/ \E x \in Tasks : lock' = Append(lock, x)
  BY PipeAssumption DEF WorkerEnds, Tasks, Writers, Clients
<1>5. Answers'
  BY PipeAssumption
     DEF Running, Answers, Types, WorkerEnds, Line, Tasks, Writers, Clients, Errors
<1>. QED  BY <1>1, <1>2, <1>3, <1>4, <1>5, Frame DEF Running

\* A closer queues for the mutex.
LEMMA CloseKeeps ==
  ASSUME Running, NEW t \in {"worker", "shutdown", "reader"}, close(t)
  PROVE  Running'
<1>1. Types'
  BY PipeAssumption, TailElements, AppendElements
     DEF Running, Types, close, stream, Tasks, Writers, Clients, Places, Errors
<1>2. /\ UNCHANGED <<stdin, pending, tin, replies>>
      /\ \A u \in Writers : pc'[u] = "writing" <=> pc[u] = "writing"
  BY PipeAssumption DEF Running, Types, close, stream, Tasks, Writers, Clients
<1>3. \A u \in Writers : pc[u] = "writing" => Line(u)' = Line(u)
  BY PipeAssumption DEF Running, Types, close, Line, Tasks, Writers, Clients
<1>4. UNCHANGED lock \/ \E x \in Tasks : lock' = Append(lock, x)
  BY PipeAssumption DEF close, Tasks, Writers, Clients
<1>5. Answers'
  BY PipeAssumption
     DEF Running, Answers, Types, close, Line, Tasks, Writers, Clients, Errors
<1>. QED  BY <1>1, <1>2, <1>3, <1>4, <1>5, Frame DEF Running

\* A call gives up on its reply; its slot stays.
LEMMA TimeoutKeeps ==
  ASSUME Running, NEW c \in Callers, command_times_out(c)
  PROVE  Running'
<1>1. Types'
  BY PipeAssumption, TailElements, AppendElements
     DEF Running, Types, command_times_out, stream, Tasks, Writers, Clients, Places, Errors
<1>2. /\ UNCHANGED <<stdin, pending, tin, replies>>
      /\ \A u \in Writers : pc'[u] = "writing" <=> pc[u] = "writing"
  BY PipeAssumption DEF Running, Types, command_times_out, stream, Tasks, Writers, Clients
<1>3. \A u \in Writers : pc[u] = "writing" => Line(u)' = Line(u)
  BY PipeAssumption DEF Running, Types, command_times_out, Line, Tasks, Writers, Clients
<1>4. UNCHANGED lock \/ \E x \in Tasks : lock' = Append(lock, x)
  BY PipeAssumption DEF command_times_out, Tasks, Writers, Clients
<1>5. Answers'
  BY PipeAssumption
     DEF Running, Answers, Types, command_times_out, Line, Tasks, Writers, Clients, Errors
<1>. QED  BY <1>1, <1>2, <1>3, <1>4, <1>5, Frame DEF Running

\* The reader queues a resume, or gives up.
LEMMA ReadPauseKeeps ==
  ASSUME Running, read_pause
  PROVE  Running'
<1>1. Types'
  <2>1. notices' \in Seq(Panes) /\ Head(notices) \in Panes
    BY TailElements DEF Running, Types, read_pause
  <2>2. resumes' \in Seq(Panes)
    <3>1. resumes \in Seq(Panes)
      BY DEF Running, Types
    <3>2. resumes' = resumes \/ resumes' = Append(resumes, Head(notices))
      BY DEF read_pause
    <3>. QED  BY <2>1, <3>1, <3>2
  <2>3. pc' \in [Tasks -> Places]
    BY DEF Running, Types, read_pause, Tasks, Places
  <2>. QED  BY <2>1, <2>2, <2>3 DEF Running, Types, read_pause
<1>2. /\ UNCHANGED <<stdin, pending, tin, replies>>
      /\ \A u \in Writers : pc'[u] = "writing" <=> pc[u] = "writing"
  BY PipeAssumption DEF Running, Types, read_pause, stream, Tasks, Writers, Clients
<1>3. \A u \in Writers : pc[u] = "writing" => Line(u)' = Line(u)
  BY PipeAssumption DEF Running, Types, read_pause, Line, Tasks, Writers, Clients
<1>4. UNCHANGED lock \/ \E x \in Tasks : lock' = Append(lock, x)
  BY PipeAssumption DEF read_pause, Tasks, Writers, Clients
<1>5. Answers'
  BY PipeAssumption
     DEF Running, Answers, Types, read_pause, Line, Tasks, Writers, Clients, Errors
<1>. QED  BY <1>1, <1>2, <1>3, <1>4, <1>5, Frame DEF Running

\* The reader meets the end of the stream.
LEMMA ReadEofKeeps ==
  ASSUME Running, read_eof
  PROVE  Running'
<1>1. Types'
  BY PipeAssumption, TailElements, AppendElements
     DEF Running, Types, read_eof, stream, Tasks, Writers, Clients, Places, Errors
<1>2. /\ UNCHANGED <<stdin, pending, tin, replies>>
      /\ \A u \in Writers : pc'[u] = "writing" <=> pc[u] = "writing"
  BY PipeAssumption DEF Running, Types, read_eof, stream, Tasks, Writers, Clients
<1>3. \A u \in Writers : pc[u] = "writing" => Line(u)' = Line(u)
  BY PipeAssumption DEF Running, Types, read_eof, Line, Tasks, Writers, Clients
<1>4. UNCHANGED lock \/ \E x \in Tasks : lock' = Append(lock, x)
  BY PipeAssumption DEF read_eof, Tasks, Writers, Clients
<1>5. Answers'
  BY PipeAssumption
     DEF Running, Answers, Types, read_eof, Line, Tasks, Writers, Clients, Errors
<1>. QED  BY <1>1, <1>2, <1>3, <1>4, <1>5, Frame DEF Running

\* The reader meets an oversized reply block.
LEMMA ReadOverflowKeeps ==
  ASSUME Running, read_overflow
  PROVE  Running'
<1>1. Types'
  BY PipeAssumption, TailElements, AppendElements
     DEF Running, Types, read_overflow, stream, Tasks, Writers, Clients, Places, Errors
<1>2. /\ UNCHANGED <<stdin, pending, tin, replies>>
      /\ \A u \in Writers : pc'[u] = "writing" <=> pc[u] = "writing"
  BY PipeAssumption DEF Running, Types, read_overflow, stream, Tasks, Writers, Clients
<1>3. \A u \in Writers : pc[u] = "writing" => Line(u)' = Line(u)
  BY PipeAssumption DEF Running, Types, read_overflow, Line, Tasks, Writers, Clients
<1>4. UNCHANGED lock \/ \E x \in Tasks : lock' = Append(lock, x)
  BY PipeAssumption DEF read_overflow, Tasks, Writers, Clients
<1>5. Answers'
  BY PipeAssumption
     DEF Running, Answers, Types, read_overflow, Line, Tasks, Writers, Clients, Errors
<1>. QED  BY <1>1, <1>2, <1>3, <1>4, <1>5, Frame DEF Running

\* tmux pauses a pane.
LEMMA PauseKeeps ==
  ASSUME Running, NEW p \in Panes, Pause(p)
  PROVE  Running'
<1>1. Types'
  BY PipeAssumption, TailElements, AppendElements
     DEF Running, Types, Pause, stream, Tasks, Writers, Clients, Places, Errors
<1>2. /\ UNCHANGED <<stdin, pending, tin, replies>>
      /\ \A u \in Writers : pc'[u] = "writing" <=> pc[u] = "writing"
  BY PipeAssumption DEF Running, Types, Pause, stream, Tasks, Writers, Clients
<1>3. \A u \in Writers : pc[u] = "writing" => Line(u)' = Line(u)
  BY PipeAssumption DEF Running, Types, Pause, Line, Tasks, Writers, Clients
<1>4. UNCHANGED lock \/ \E x \in Tasks : lock' = Append(lock, x)
  BY PipeAssumption DEF Pause, Tasks, Writers, Clients
<1>5. Answers'
  BY PipeAssumption
     DEF Running, Answers, Types, Pause, Line, Tasks, Writers, Clients, Errors
<1>. QED  BY <1>1, <1>2, <1>3, <1>4, <1>5, Frame DEF Running

\* tmux exits.
LEMMA ExitKeeps ==
  ASSUME Running, Exit
  PROVE  Running'
<1>1. Types'
  BY PipeAssumption, TailElements, AppendElements
     DEF Running, Types, Exit, stream, Tasks, Writers, Clients, Places, Errors
<1>2. /\ UNCHANGED <<stdin, pending, tin, replies>>
      /\ \A u \in Writers : pc'[u] = "writing" <=> pc[u] = "writing"
  BY PipeAssumption DEF Running, Types, Exit, stream, Tasks, Writers, Clients
<1>3. \A u \in Writers : pc[u] = "writing" => Line(u)' = Line(u)
  BY PipeAssumption DEF Running, Types, Exit, Line, Tasks, Writers, Clients
<1>4. UNCHANGED lock \/ \E x \in Tasks : lock' = Append(lock, x)
  BY PipeAssumption DEF Exit, Tasks, Writers, Clients
<1>5. Answers'
  BY PipeAssumption
     DEF Running, Answers, Types, Exit, Line, Tasks, Writers, Clients, Errors
<1>. QED  BY <1>1, <1>2, <1>3, <1>4, <1>5, Frame DEF Running

\* A task is aborted before or after its write.
LEMMA AbortKeeps ==
  ASSUME Running, NEW c \in Callers, abort(c), pc[c] # "writing"
  PROVE  Running'
<1>1. lock' \in Seq(Tasks)
  BY WithoutIsSeq DEF Running, Types, abort
<1>2. Types'
  BY <1>1, PipeAssumption
     DEF Running, Types, abort, stream, Tasks, Writers, Clients, Places, Errors
<1>3. /\ UNCHANGED <<stdin, pending, tin, replies>>
      /\ \A u \in Writers : pc'[u] = "writing" <=> pc[u] = "writing"
  BY PipeAssumption DEF Running, Types, abort, stream, Tasks, Writers, Clients
<1>4. \A u \in Writers : pc[u] = "writing" => Line(u)' = Line(u)
  BY DEF abort, Line
<1>5. \E x \in Tasks : lock' = Without(lock, x) /\ (x \in Writers => pc[x] # "writing")
  BY PipeAssumption DEF abort, Tasks, Writers, Clients
<1>6. Answers'
  BY PipeAssumption
     DEF Running, Answers, Types, abort, Line, Tasks, Writers, Clients, Errors
<1>. QED  BY <1>2, <1>3, <1>4, <1>5, <1>6, Frame DEF Running

\* The detach of shutdown gives up while it waits for the mutex.
LEMMA DetachKeeps ==
  ASSUME Running, detach_times_out, pc["shutdown"] # "writing"
  PROVE  Running'
<1>1. lock' \in Seq(Tasks)
  BY WithoutIsSeq DEF Running, Types, detach_times_out
<1>2. Types'
  BY <1>1, PipeAssumption
     DEF Running, Types, detach_times_out, stream, Tasks, Writers, Clients, Places, Errors
<1>3. /\ UNCHANGED <<stdin, pending, tin, replies>>
      /\ \A u \in Writers : pc'[u] = "writing" <=> pc[u] = "writing"
  BY PipeAssumption DEF Running, Types, detach_times_out, stream, Tasks, Writers, Clients
<1>4. \A u \in Writers : pc[u] = "writing" => Line(u)' = Line(u)
  BY DEF detach_times_out, Line
<1>5. \E x \in Tasks : lock' = Without(lock, x) /\ (x \in Writers => pc[x] # "writing")
  BY PipeAssumption DEF detach_times_out, Tasks, Writers, Clients
<1>6. Answers'
  BY PipeAssumption
     DEF Running, Answers, Types, detach_times_out, Line, Tasks, Writers, Clients, Errors
<1>. QED  BY <1>2, <1>3, <1>4, <1>5, <1>6, Frame DEF Running

\* Shutdown reaps the child and aborts the reader.
LEMMA ReapKeeps ==
  ASSUME Running, reap
  PROVE  Running'
<1>1. lock' \in Seq(Tasks)
  BY WithoutIsSeq DEF Running, Types, reap
<1>2. Types'
  BY <1>1, PipeAssumption
     DEF Running, Types, reap, stream, Tasks, Writers, Clients, Places, Errors
<1>3. /\ UNCHANGED <<stdin, pending, tin, replies>>
      /\ \A u \in Writers : pc'[u] = "writing" <=> pc[u] = "writing"
  BY PipeAssumption DEF Running, Types, reap, stream, Tasks, Writers, Clients
<1>4. \A u \in Writers : pc[u] = "writing" => Line(u)' = Line(u)
  BY DEF reap, Line
<1>5. \E x \in Tasks : lock' = Without(lock, x) /\ (x \in Writers => pc[x] # "writing")
  BY PipeAssumption DEF reap, Tasks, Writers, Clients
<1>6. Answers'
  BY PipeAssumption
     DEF Running, Answers, Types, reap, Line, Tasks, Writers, Clients, Errors
<1>. QED  BY <1>2, <1>3, <1>4, <1>5, <1>6, Frame DEF Running

\* Shutdown is called.
LEMMA RequestShutdownKeeps ==
  ASSUME Running, request_shutdown
  PROVE  Running'
BY Zenon DEF request_shutdown, stream, Running, Types, Mutex, Answers, Correlated, Holds, Line

----------------------------------------------------------------------------
\* The steps that move a line or a slot.

\* With the mutex in one task's hands, no other is writing.
LEMMA OneWriter ==
  ASSUME Running, NEW t, Holds(t), NEW u \in Writers, pc[u] = "writing"
  PROVE  u = t
BY DEF Running, Mutex, Holds

\* The holder pushes its slot, or finds the pipe closed.
LEMMA WriteTargetKeeps ==
  ASSUME Running, NEW t \in Writers, write_target(t)
  PROVE  Running'
<1>1. /\ pc[t] = "queued" /\ Holds(t) /\ t \in Tasks
      /\ UNCHANGED <<stdin, tin, replies, notices, resumes, resuming, sent, stopping>>
  BY DEF write_target, stream, Tasks, Running
<1>2. \A u \in Writers : pc[u] # "writing"
  BY <1>1, OneWriter
<1>3. \A u \in Writers : Line(u)' = Line(u)
  BY <1>1 DEF Line
<1>4. Answers'
  BY <1>1 DEF Running, Answers, Types, write_target, Returns, Errors, Line
<1>5. CASE stdin
  <2>1. /\ pending' = Append(pending, Line(t)) /\ pc' = [pc EXCEPT ![t] = "writing"]
        /\ UNCHANGED <<lock, got>>
    BY <1>5 DEF write_target
  <2>2. /\ pending' \in Seq(Lines) /\ Len(pending') = Len(pending) + 1
        /\ \A i \in 1..Len(pending) : pending'[i] = pending[i]
        /\ pending'[Len(pending) + 1] = Line(t)
    BY <2>1, LineIsLine, AppendElements DEF Running, Types
  <2>3. Types'
    BY <1>1, <2>1, <2>2 DEF Running, Types, Places
  <2>4. Mutex'
    BY <1>1, <1>2, <1>5, <2>1 DEF Running, Types, Mutex, Holds
  <2>5. Len(pending) = Len(replies) + Len(tin) /\ Len(replies) \in Nat /\ Len(tin) \in Nat
    BY <1>2, <1>5 DEF Running, Correlated, Types
  <2>6. Correlated'
    <3>1. \A u \in Writers : pc'[u] = "writing" <=> u = t
      BY <1>1, <1>2, <2>1 DEF Running, Types, Tasks
    <3>2. \A i \in 1..Len(replies') : pending'[i] = replies'[i]
      BY <1>1, <1>5, <2>2, <2>5, SMTT(20) DEF Running, Correlated
    <3>3. \A i \in 1..Len(tin') : pending'[Len(replies') + i] = tin'[i]
      <4>1. SUFFICES ASSUME NEW i \in 1..Len(tin)
                     PROVE  pending'[Len(replies) + i] = tin[i]
        BY <1>1
      <4>2. pending[Len(replies) + i] = tin[i]
        BY <1>5 DEF Running, Correlated
      <4>3. Len(replies) + i \in 1..Len(pending)
        BY <2>5
      <4>. QED  BY <2>2, <4>2, <4>3
    <3>. QED  BY <1>1, <1>3, <2>2, <2>5, <3>1, <3>2, <3>3, SMTT(20) DEF Correlated
  <2>. QED  BY <1>1, <1>4, <1>5, <2>3, <2>4, <2>6 DEF Running
<1>6. CASE ~stdin
  <2>1. /\ pc' = [pc EXCEPT ![t] = Refused(t)] /\ lock' = Tail(lock)
        /\ got' = Returns(t, "disconnected") /\ UNCHANGED pending
    BY <1>6 DEF write_target
  <2>2. lock' \in Seq(Tasks)
    BY <1>1, <2>1, TailElements DEF Running, Types, Holds
  <2>3. Types'
    BY <1>1, <2>1, <2>2 DEF Running, Types, Places, Refused, Returns, Errors
  <2>4. Mutex'
    BY <1>1, <1>2, <2>1 DEF Running, Types, Mutex, Refused, Tasks
  <2>. QED  BY <1>1, <1>4, <1>6, <2>1, <2>3, <2>4 DEF Running
<1>. QED  BY <1>5, <1>6 DEF Running, Types

\* The line reaches tmux's input.
LEMMA WriteLineKeeps ==
  ASSUME Running, NEW t \in Writers, write_command_line(t)
  PROVE  Running'
<1>1. /\ pc[t] = "writing" /\ stdin /\ Holds(t) /\ t \in Tasks
      /\ tin' = Append(tin, Line(t)) /\ lock' = Tail(lock)
      /\ pc' = [pc EXCEPT ![t] = Written(t)]
      /\ UNCHANGED <<stdin, pending, replies, notices, resumes, resuming, sent, got, stopping>>
  BY DEF write_command_line, Tasks, Running, Mutex
<1>2. \A u \in Writers : pc'[u] # "writing"
  BY <1>1, OneWriter DEF Running, Types, Tasks, Written
<1>3. /\ tin' \in Seq(Lines) /\ Len(tin') = Len(tin) + 1
      /\ \A i \in 1..Len(tin) : tin'[i] = tin[i]
      /\ tin'[Len(tin) + 1] = Line(t)
  BY <1>1, LineIsLine, AppendElements DEF Running, Types
<1>4. lock' \in Seq(Tasks)
  BY <1>1, TailElements DEF Running, Types, Holds
<1>5. Types'
  BY <1>1, <1>3, <1>4 DEF Running, Types, Written, Places
<1>6. Mutex' /\ Answers'
  BY <1>1, <1>2 DEF Running, Types, Mutex, Answers, Line
<1>7. /\ Len(pending) = Len(replies) + Len(tin) + 1 /\ pending[Len(pending)] = Line(t)
      /\ Len(replies) \in Nat /\ Len(tin) \in Nat
  BY <1>1 DEF Running, Correlated, Types
<1>8. Correlated'
  <2>1. \A i \in 1..Len(replies') : pending'[i] = replies'[i]
    BY <1>1 DEF Running, Correlated
  <2>2. \A i \in 1..Len(tin') : pending'[Len(replies') + i] = tin'[i]
    <3>1. SUFFICES ASSUME NEW i \in 1..(Len(tin) + 1)
                   PROVE  pending[Len(replies) + i] = tin'[i]
      BY <1>1, <1>3
    <3>2. CASE i \in 1..Len(tin)
      BY <1>1, <1>3, <3>2 DEF Running, Correlated
    <3>3. CASE i = Len(tin) + 1
      <4>1. Len(replies) + i = Len(pending)
        BY <1>7, <3>3
      <4>. QED  BY <1>3, <1>7, <3>3, <4>1
    <3>. QED  BY <1>7, <3>2, <3>3
  <2>. QED  BY <1>1, <1>2, <1>3, <1>7, <2>1, <2>2 DEF Correlated
<1>. QED  BY <1>1, <1>5, <1>6, <1>8 DEF Running

\* A failed write: the pipe is closed and every slot fails.
LEMMA WriteFailureKeeps ==
  ASSUME Running, NEW t \in Writers, poison_after_write_failure(t)
  PROVE  Running'
<1>1. /\ pc[t] = "writing" /\ Holds(t) /\ t \in Tasks
      /\ stdin' = FALSE /\ pending' = <<>> /\ lock' = Tail(lock)
      /\ UNCHANGED <<tin, replies, notices, resumes, resuming, sent, stopping>>
  BY DEF poison_after_write_failure, stream, Tasks, Running, Mutex
<1>2. /\ pc' \in [Tasks -> Places] /\ pc'[t] = Refused(t)
      /\ \A u \in Tasks : u # t => pc'[u] \in {pc[u], "idle"}
  BY <1>1 DEF poison_after_write_failure, Running, Types, Places, Refused
<1>3. /\ got' \in [Callers -> Errors \cup Lines]
      /\ \A c \in Callers : got'[c] = got[c] \/ got'[c] \in Errors
  BY <1>1 DEF poison_after_write_failure, Running, Types, Errors
<1>4. \A u \in Writers : pc'[u] # "writing"
  BY <1>1, <1>2, OneWriter DEF Refused, Tasks
<1>5. lock' \in Seq(Tasks)
  BY <1>1, TailElements DEF Running, Types, Holds
<1>6. Types'
  BY <1>1, <1>2, <1>3, <1>5, <<>> \in Seq(Lines), Zenon DEF Running, Types
<1>7. Mutex' /\ Answers'
  BY <1>1, <1>2, <1>3, <1>4 DEF Running, Mutex, Answers, Line, Tasks, Writers
<1>. QED  BY <1>1, <1>6, <1>7 DEF Running

\* The reader, the worker or shutdown drops stdin and fails every slot.
LEMMA DrainKeeps ==
  ASSUME Running, NEW t \in {"reader", "worker", "shutdown"}, drain(t)
  PROVE  Running'
<1>1. /\ pc[t] = "closing" /\ Holds(t) /\ t \in Tasks
      /\ stdin' = FALSE /\ pending' = <<>> /\ lock' = Tail(lock)
      /\ UNCHANGED <<tin, replies, notices, resumes, resuming, sent, stopping>>
  BY DEF drain, stream, Tasks, Writers
<1>2. /\ pc' \in [Tasks -> Places]
      /\ \A u \in Tasks : pc'[u] \in {pc[u], "idle", "ended", "reaping"}
      /\ \A u \in Tasks : u # t => pc'[u] \in {pc[u], "idle"}
  BY <1>1 DEF drain, Running, Types, Places
<1>3. /\ got' \in [Callers -> Errors \cup Lines]
      /\ \A c \in Callers : got'[c] = got[c] \/ got'[c] \in Errors
  BY <1>1 DEF drain, Running, Types, Errors
<1>4. \A u \in Writers : pc'[u] # "writing"
  BY <1>1, <1>2, OneWriter DEF Tasks
<1>5. lock' \in Seq(Tasks)
  BY <1>1, TailElements DEF Running, Types, Holds
<1>6. Types'
  BY <1>1, <1>2, <1>3, <1>5, <<>> \in Seq(Lines), Zenon DEF Running, Types
<1>7. Mutex' /\ Answers'
  BY <1>1, <1>2, <1>3, <1>4, Zenon DEF Running, Mutex, Answers, Line, Tasks, Writers
<1>. QED  BY <1>1, <1>6, <1>7 DEF Running

\* The oldest reply goes to the oldest slot, which was pushed for it.
LEMMA ReadReplyKeeps ==
  ASSUME Running, read_reply
  PROVE  Running'
<1>1. /\ replies # <<>> /\ replies' = Tail(replies)
      /\ UNCHANGED <<stdin, lock, tin, notices, resumes, resuming, sent, stopping>>
  BY DEF read_reply
<1>2. /\ replies' \in Seq(Lines) /\ Len(replies) \in Nat /\ Len(replies) >= 1
      /\ Len(replies') = Len(replies) - 1
      /\ \A i \in 1..Len(replies') : replies'[i] = replies[i + 1]
      /\ Head(replies) = replies[1] /\ Head(replies) \in Lines
  BY <1>1, TailElements DEF Running, Types
<1>3. \A u \in Writers : Line(u)' = Line(u)
  BY <1>1 DEF Line
<1>4. CASE ~stdin
  <2>1. pending = <<>> /\ pending' = <<>> /\ got' = got /\ pc' = pc
    BY <1>4 DEF read_reply, Running, Types
  <2>2. Types'
    BY <1>1, <1>2, <2>1 DEF Running, Types
  <2>3. Mutex' /\ Answers'
    BY <1>1, <2>1, SMTT(20) DEF Running, Mutex, Answers, Holds, Line
  <2>. QED  BY <1>1, <1>4, <2>1, <2>2, <2>3 DEF Running
<1>5. CASE stdin
  <2>0. Correlated /\ pending \in Seq(Lines) /\ Len(tin) \in Nat /\ Len(pending) \in Nat
    BY <1>5 DEF Running, Types
  <2>1. Len(pending) >= Len(replies) + Len(tin)
    BY <1>2, <2>0 DEF Correlated
  <2>2. pending # <<>> /\ pending' = Tail(pending) /\ Head(pending) = Head(replies)
    <3>1. pending # <<>>
      BY <1>2, <2>0, <2>1
    <3>2. Head(pending) = pending[1]
      BY <2>0, <3>1, TailElements
    <3>3. pending[1] = replies[1]
      BY <1>2, <2>0 DEF Correlated
    <3>. QED  BY <1>2, <3>1, <3>2, <3>3 DEF read_reply
  <2>3. /\ pending' \in Seq(Lines) /\ Len(pending') = Len(pending) - 1
        /\ \A i \in 1..Len(pending') : pending'[i] = pending[i + 1]
    BY <2>0, <2>2, TailElements
  <2>4. /\ pc' \in [Tasks -> Places]
        /\ \A u \in Tasks : pc'[u] = pc[u] \/ (pc[u] = "waiting" /\ pc'[u] = "idle")
    BY DEF read_reply, Running, Types, Places
  <2>5. /\ got' \in [Callers -> Errors \cup Lines]
        /\ \A c \in Callers : got'[c] = got[c] \/ got'[c] = Line(c)
    BY <1>2, <2>2 DEF read_reply, Running, Types
  <2>6. Types'
    BY <1>1, <1>2, <2>3, <2>4, <2>5 DEF Running, Types
  <2>7. \A u \in Writers : pc'[u] = "writing" <=> pc[u] = "writing"
    BY <2>4 DEF Tasks
  <2>8. Mutex'
    BY <1>1, <2>4, <2>7 DEF Running, Mutex, Holds, Tasks, Writers
  <2>9. Answers'
    BY <1>3, <2>5 DEF Running, Answers, Writers, Clients
  <2>10. Correlated'
    <3>1. \A i \in 1..Len(replies') : pending'[i] = replies'[i]
      BY <1>2, <2>0, <2>1, <2>3, SMTT(20) DEF Correlated
    <3>2. \A i \in 1..Len(tin') : pending'[Len(replies') + i] = tin'[i]
      <4>1. SUFFICES ASSUME NEW i \in 1..Len(tin)
                     PROVE  pending'[Len(replies') + i] = tin[i]
        BY <1>1
      <4>2. Len(replies') + i \in 1..Len(pending') /\ (Len(replies') + i) + 1 = Len(replies) + i
        BY <1>2, <2>0, <2>1, <2>3
      <4>3. pending[Len(replies) + i] = tin[i]
        BY <2>0 DEF Correlated
      <4>. QED  BY <2>3, <4>2, <4>3
    <3>3. ASSUME NEW u \in Writers, pc'[u] = "writing"
          PROVE  /\ Len(pending') = Len(replies') + Len(tin') + 1
                 /\ pending'[Len(pending')] = Line(u)'
      <4>1. Len(pending) = Len(replies) + Len(tin) + 1 /\ pending[Len(pending)] = Line(u)
        BY <2>0, <2>7, <3>3 DEF Correlated
      <4>2. Len(pending') \in 1..Len(pending') /\ Len(pending') + 1 = Len(pending)
        BY <1>2, <2>0, <2>3, <4>1
      <4>3. pending'[Len(pending')] = pending[Len(pending)]
        BY <2>3, <4>2
      <4>. QED  BY <1>1, <1>2, <1>3, <2>0, <2>3, <4>1, <4>3
    <3>4. (\A u \in Writers : pc'[u] # "writing") => Len(pending') = Len(replies') + Len(tin')
      <4>1. SUFFICES ASSUME \A u \in Writers : pc[u] # "writing"
                     PROVE  Len(pending') = Len(replies') + Len(tin)
        BY <1>1, <2>7
      <4>2. Len(pending) = Len(replies) + Len(tin)
        BY <2>0, <4>1 DEF Correlated
      <4>. QED  BY <1>2, <2>0, <2>3, <4>2
    <3>. QED  BY <3>1, <3>2, <3>3, <3>4 DEF Correlated
  <2>. QED  BY <1>1, <1>5, <2>6, <2>8, <2>9, <2>10 DEF Running
<1>. QED  BY <1>4, <1>5, SMTT(20) DEF Running, Types

\* tmux executes its oldest line and answers it.
LEMMA ExecuteKeeps ==
  ASSUME Running, Execute
  PROVE  Running'
<1>1. /\ tin # <<>> /\ tin' = Tail(tin) /\ replies' = Append(replies, Head(tin))
      /\ UNCHANGED <<stdin, lock, pending, notices, resumes, resuming, pc, sent, got, stopping>>
  BY DEF Execute
<1>2. /\ tin' \in Seq(Lines) /\ Len(tin) \in Nat /\ Len(tin) >= 1
      /\ Len(tin') = Len(tin) - 1
      /\ \A i \in 1..Len(tin') : tin'[i] = tin[i + 1]
      /\ Head(tin) = tin[1] /\ Head(tin) \in Lines
  BY <1>1, TailElements DEF Running, Types
<1>3. /\ replies' \in Seq(Lines) /\ Len(replies) \in Nat
      /\ Len(replies') = Len(replies) + 1
      /\ \A i \in 1..Len(replies) : replies'[i] = replies[i]
      /\ replies'[Len(replies) + 1] = Head(tin)
  BY <1>1, <1>2, AppendElements DEF Running, Types
<1>4. Types'
  BY <1>1, <1>2, <1>3 DEF Running, Types
<1>5. Mutex' /\ Answers'
  BY <1>1, SMTT(20) DEF Running, Mutex, Answers, Holds, Line
<1>6. ASSUME stdin PROVE Correlated'
  <2>1. Correlated
    BY <1>6 DEF Running
  <2>2. \A i \in 1..Len(replies') : pending'[i] = replies'[i]
    <3>1. SUFFICES ASSUME NEW i \in 1..(Len(replies) + 1)
                   PROVE  pending[i] = replies'[i]
      BY <1>1, <1>3
    <3>2. CASE i \in 1..Len(replies)
      BY <1>3, <2>1, <3>2 DEF Correlated
    <3>3. CASE i = Len(replies) + 1
      BY <1>2, <1>3, <2>1, <3>3 DEF Correlated
    <3>. QED  BY <1>3, <3>2, <3>3
  <2>3. \A i \in 1..Len(tin') : pending'[Len(replies') + i] = tin'[i]
    <3>1. SUFFICES ASSUME NEW i \in 1..Len(tin')
                   PROVE  pending[Len(replies') + i] = tin'[i]
      BY <1>1
    <3>2. i + 1 \in 1..Len(tin) /\ Len(replies') + i = Len(replies) + (i + 1)
      BY <1>2, <1>3
    <3>3. pending[Len(replies) + (i + 1)] = tin[i + 1]
      BY <2>1, <3>2 DEF Correlated
    <3>. QED  BY <1>2, <3>2, <3>3
  <2>4. Len(replies') + Len(tin') = Len(replies) + Len(tin)
    BY <1>2, <1>3
  <2>. QED  BY <1>1, <2>1, <2>2, <2>3, <2>4, Zenon DEF Correlated, Line
<1>. QED  BY <1>1, <1>4, <1>5, <1>6 DEF Running

----------------------------------------------------------------------------
\* The inductive invariant holds throughout.
THEOREM PipeInvariant == Spec => []PipeInv
<1>1. Init => PipeInv
  <2>1. SUFFICES ASSUME Init PROVE Running
    <3>1. Init => orphans \in Nat
      BY DEF Init
    <3>. QED  BY <3>1 DEF PipeInv
  <2>2. Types
    BY <2>1, <<>> \in Seq(Lines), <<>> \in Seq(Tasks), <<>> \in Seq(Panes), Zenon
       DEF Init, Types, Places, Errors
  <2>3. Mutex /\ Answers /\ stdin
    BY <2>1 DEF Init, Mutex, Answers, Errors, Tasks, Writers
  <2>4. Correlated
    BY <2>1 DEF Init, Correlated, Tasks, Writers
  <2>. QED  BY <2>2, <2>3, <2>4 DEF Running
<1>2. PipeInv /\ [Next]_vars => PipeInv'
  <2>. SUFFICES ASSUME PipeInv, [Next]_vars PROVE PipeInv'
    OBVIOUS
  <2>1. /\ orphans' = orphans \/ orphans' = orphans + 1
        /\ \A c \in Callers : abort(c) /\ pc[c] = "writing" => orphans' = orphans + 1
        /\ detach_times_out /\ pc["shutdown"] = "writing" => orphans' = orphans + 1
    BY Zenon
       DEF Next, vars, Pipe, Closer, Reader, Worker, Shutdown, Tmux, submit, write_target,
           write_command_line, poison_after_write_failure, command_times_out, abort,
           reserve_input_capacity, reserve_capacity, TakeResume, WorkerEnds, close, drain,
           read_reply, read_pause, read_eof, read_overflow, ReaderLoop,
           detach_times_out, reap, request_shutdown, Execute, Pause, Exit
  <2>2. SUFFICES ASSUME Running, orphans' = orphans PROVE Running'
    BY <2>1 DEF PipeInv
  <2>3. orphans \in Nat /\ orphans # orphans + 1
    BY DEF PipeInv
  <2>4. CASE \E t \in Clients : submit(t) \/ Pipe(t)
    BY <2>2, <2>4, SubmitKeeps, WriteTargetKeeps, WriteLineKeeps, WriteFailureKeeps
       DEF Pipe, Writers
  <2>5. CASE \E c \in Callers : command_times_out(c) \/ abort(c)
    BY <2>1, <2>2, <2>3, <2>5, TimeoutKeeps, AbortKeeps
  <2>6. CASE \E t \in Typists : reserve_input_capacity(t) \/ reserve_capacity(t)
    BY <2>2, <2>6, ReserveInputKeeps, ReserveKeeps
  <2>7. CASE Reader
    BY <2>2, <2>7, ReadReplyKeeps, ReadPauseKeeps, ReadEofKeeps, ReadOverflowKeeps,
       CloseKeeps, DrainKeeps
       DEF Reader, ReaderLoop, Closer
  <2>8. CASE Worker
    BY <2>2, <2>8, TakeResumeKeeps, WorkerEndsKeeps, ReserveKeeps, WriteTargetKeeps,
       WriteLineKeeps, WriteFailureKeeps, CloseKeeps, DrainKeeps
       DEF Worker, Pipe, Closer, Writers
  <2>9. CASE Shutdown
    BY <2>1, <2>2, <2>3, <2>9, SubmitKeeps, WriteTargetKeeps, WriteLineKeeps,
       WriteFailureKeeps, CloseKeeps, DrainKeeps, DetachKeeps, ReapKeeps
       DEF Shutdown, Pipe, Closer, Writers
  <2>10. CASE request_shutdown
    BY <2>2, <2>10, RequestShutdownKeeps
  <2>11. CASE Tmux
    BY <2>2, <2>11, ExecuteKeeps, ExitKeeps, PauseKeeps DEF Tmux
  <2>12. CASE UNCHANGED vars
    BY <2>2, <2>12, Zenon DEF vars, Running, Types, Mutex, Answers, Correlated, Holds, Line
  <2>. QED  BY <2>4, <2>5, <2>6, <2>7, <2>8, <2>9, <2>10, <2>11, <2>12 DEF Next
<1>. QED  BY <1>1, <1>2, PTL DEF Spec, WedgedSpec

\* As long as no task was dropped between pushing its slot and writing its line,
\* a command() call is only ever answered with the reply block of its own
\* command, through timeouts, failed writes, aborted calls and shutdown, for
\* every number of tasks, commands and slots: the FIFO correlation of
\* CommandPipe.
THEOREM RepliesAreOwn == Spec => []OwnReply
<1>1. PipeInv => OwnReply
  BY DEF PipeInv, Running, Answers, OwnReply
<1>. QED  BY <1>1, PipeInvariant, PTL
=============================================================================
