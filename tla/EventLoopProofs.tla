-------------------------- MODULE EventLoopProofs --------------------------
(***************************************************************************)
(* Proofs about EventLoop, for any number of threads, calls and typed keys *)
(* and any capacity of the pipe.                                           *)
(***************************************************************************)
EXTENDS EventLoop, SequenceTheorems, TLAPS

\* A sequence to which a prefix of another is added, and the rest of that one, are
\* sequences over the same set.
LEMMA CutInType ==
  ASSUME NEW S, NEW s \in Seq(S), NEW n \in 0..Len(s), NEW t \in Seq(S)
  PROVE  t \o SubSeq(s, 1, n) \in Seq(S) /\ SubSeq(s, n + 1, Len(s)) \in Seq(S)
<1>1. SubSeq(s, 1, n) \in Seq(S)
  BY SubSeqProperties
<1>2. SubSeq(s, n + 1, Len(s)) \in Seq(S)
  BY SubSeqProperties
<1>3. t \o SubSeq(s, 1, n) \in Seq(S)
  BY <1>1, ConcatProperties
<1> QED BY <1>2, <1>3

\* What is appended to the second of two sequences comes last of both.
LEMMA AppendLast ==
  ASSUME NEW S, NEW s \in Seq(S), NEW t \in Seq(S), NEW e \in S
  PROVE  s \o Append(t, e) = Append(s \o t, e)
OBVIOUS

\* The first messages on the screen, the rest in the queue.
LEMMA ShowFirstTypes ==
  ASSUME QueueTypes, NEW n \in 0..Len(messages), ShowFirst(n)
  PROVE  messages' \in Seq(Threads \X Nat) /\ screen' \in Seq(Threads \X Nat)
<1>1. messages \in Seq(Threads \X Nat) /\ screen \in Seq(Threads \X Nat)
  BY DEF QueueTypes
<1>2. /\ screen \o SubSeq(messages, 1, n) \in Seq(Threads \X Nat)
      /\ SubSeq(messages, n + 1, Len(messages)) \in Seq(Threads \X Nat)
  BY <1>1, CutInType
<1> QED BY <1>2 DEF ShowFirst

\* The reader writes queued messages only while there are some.
FlushHasFront == pc \in {"flush", "flushed"} => messages # <<>>

\* Every step keeps the queues, the pipe and the screen well typed.
LEMMA QueueTypesStep ==
  ASSUME TypeOK, FlushHasFront, [Next]_vars
  PROVE  QueueTypes'
<1> USE DEF TypeOK, QueueTypes, Callers
<1>1. ASSUME NEW t \in Threads, EmulateKeyPress(t) PROVE QueueTypes'
  <2>1. t \in Callers /\ emitted[t] \in Nat
    BY DEF CallTypes
  <2>2. <<t, emitted[t] + 1>> \in Callers \X Nat
    BY <2>1
  <2> QED BY <1>1, <2>2 DEF EmulateKeyPress
<1>2. ASSUME NEW t \in Threads, PrintMessage(t) PROVE QueueTypes'
  <2>1. <<t, printed[t] + 1>> \in Threads \X Nat
    BY DEF CallTypes
  <2> QED BY <1>2, <2>1 DEF PrintMessage
<1>3. ASSUME NEW t \in Threads, DirectWrite(t) PROVE QueueTypes'
  <2>1. <<t, printed[t]>> \in Threads \X Nat
    BY DEF CallTypes
  <2> QED BY <1>3, <2>1 DEF DirectWrite, sharedVars
<1>4. ASSUME NEW t \in Threads, SetPrompt(t) PROVE QueueTypes'
  BY <1>4 DEF SetPrompt
<1>5. ASSUME NEW t \in Threads, Notify(t) PROVE QueueTypes'
  BY <1>5 DEF Notify, WriteByte, sharedVars
<1>6. CASE Type \/ Resize
  <2>1. CASE Type
    BY <2>1 DEF Type, sharedVars
  <2>2. CASE Resize
    <3>1. pipe' \in Seq({"k", "m", "r"})
      BY <2>2 DEF Resize, WriteByte
    <3> QED BY <2>2, <3>1 DEF Resize, sharedVars
  <2> QED BY <1>6, <2>1, <2>2
<1>7. CASE Start
  BY <1>7 DEF Start, ForgetPrompt
<1>8. CASE ReadChar
  <2>1. CASE ReadQueued \/ GotQueued
    <3>1. PopKey
      BY <2>1 DEF ReadQueued, GotQueued
    <3>2. keyPresses' \in Seq(Callers \X Nat)
      BY <3>1 DEF PopKey
    <3> QED BY <3>1, <3>2 DEF PopKey
  <2>2. CASE ReadWait \/ TimedOut \/ ReadTyped \/ ReadRaw
    BY <2>2 DEF ReadWait, TimedOut, ReadTyped, ReadRaw, TakeByte, sharedVars
  <2>3. CASE WakeKey \/ WakeMessage \/ WakeResize
    <3>1. pipe # <<>> /\ pipe' = Tail(pipe) /\ UNCHANGED <<sharedVars, screen>>
      BY <2>3 DEF WakeKey, WakeMessage, WakeResize, WakeByte, sharedVars
    <3>2. pipe' \in Seq({"k", "m", "r"})
      BY <3>1
    <3> QED BY <3>1, <3>2 DEF sharedVars
  <2>4. CASE WakeTyped \/ GotNone
    BY <2>4 DEF WakeTyped, GotNone, GoesOn, sharedVars
  <2>5. CASE ShowMessages
    <3>1. Len(messages) \in 0..Len(messages)
      OBVIOUS
    <3>2. messages' \in Seq(Threads \X Nat) /\ screen' \in Seq(Threads \X Nat)
      BY <2>5, <3>1, ShowFirstTypes DEF ShowMessages
    <3> QED BY <2>5, <3>2 DEF ShowMessages
  <2> QED BY <1>8, <2>1, <2>2, <2>3, <2>4, <2>5 DEF ReadChar
<1>9. CASE Handler
  <2>1. CASE HandlerEdits \/ HandlerReads \/ HandlerReturns \/ HandlerEndsLine
    BY <2>1 DEF HandlerEdits, HandlerReads, HandlerReturns, GoesOn, HandlerEndsLine,
                sharedVars
  <2>2. CASE HandlerEmulates
    <3>1. <<Reader, emitted[Reader] + 1>> \in Callers \X Nat
      BY DEF CallTypes
    <3> QED BY <2>2, <3>1 DEF HandlerEmulates
  <2>3. CASE HandlerSetsPrompt
    BY <2>3 DEF HandlerSetsPrompt
  <2> QED BY <1>9, <2>1, <2>2, <2>3 DEF Handler
<1>10. CASE Leave
  <2>1. CASE WriteNewline \/ Finalize
    BY <2>1 DEF WriteNewline, GoesOn, Finalize, sharedVars
  <2>2. CASE FlushWrite
    <3>1. messages # <<>>
      BY <2>2 DEF FlushHasFront, FlushWrite
    <3>2. PICK front \in Threads \X Nat : front = Head(messages)
      BY <3>1
    <3>3. screen' = Append(screen, front)
      BY <2>2, <3>2 DEF FlushWrite
    <3> QED BY <2>2, <3>3 DEF FlushWrite, sharedVars
  <2>3. CASE FlushPop
    <3>1. messages # <<>>
      BY <2>3 DEF FlushHasFront, FlushPop
    <3>2. Tail(messages) \in Seq(Threads \X Nat)
      BY <3>1
    <3> QED BY <2>3, <3>2 DEF FlushPop, PopFront
  <2> QED BY <1>10, <2>1, <2>2, <2>3 DEF Leave
<1>11. CASE Fails
  <2>1. CASE ShowMessagesFails
    <3>1. UNCHANGED <<messages, screen>> \/ \E n \in 0..Len(messages) : ShowFirst(n)
      BY <2>1 DEF ShowMessagesFails
    <3>2. messages' \in Seq(Threads \X Nat) /\ screen' \in Seq(Threads \X Nat)
      BY <3>1, ShowFirstTypes
    <3> QED BY <2>1, <3>2 DEF ShowMessagesFails
  <2>2. CASE WriteFails \/ FlushFails
    <3>1. UNCHANGED <<keyPresses, messages, screen, pipe>>
      BY <2>2 DEF WriteFails, FlushFails, sharedVars
    <3> QED BY <3>1
  <2> QED BY <1>11, <2>1, <2>2 DEF Fails
<1>12. CASE UNCHANGED vars
  BY <1>12 DEF vars, sharedVars
<1> QED
  BY <1>1, <1>2, <1>3, <1>4, <1>5, <1>6, <1>7, <1>8, <1>9, <1>10, <1>11, <1>12
  DEF Next, ThreadStep

\* Every step keeps what belongs to the reader well typed.
LEMMA ReaderTypesStep ==
  ASSUME TypeOK, [Next]_vars
  PROVE  ReaderTypes'
<1> USE DEF TypeOK, ReaderTypes, Age, InLoop, Finishing
<1>1. ASSUME NEW t \in Threads, EmulateKeyPress(t) \/ PrintMessage(t) PROVE ReaderTypes'
  BY <1>1 DEF EmulateKeyPress, PrintMessage, drawVars
<1>2. ASSUME NEW t \in Threads, DirectWrite(t) \/ Notify(t) PROVE ReaderTypes'
  BY <1>2 DEF DirectWrite, Notify, sharedVars, drawVars
<1>3. ASSUME NEW t \in Threads, SetPrompt(t) PROVE ReaderTypes'
  <2>1. /\ updatePrompt' = TRUE \/ updatePrompt' = updatePrompt
        /\ asyncPrompt' \in {"latest", asyncPrompt} /\ prompt' \in {"old", prompt}
    BY <1>3 DEF SetPrompt
  <2>2. UNCHANGED <<current, pc, caught, timer, refreshSkipped, stale>>
    BY <1>3 DEF SetPrompt, drawVars
  <2>3. asyncPrompt' \in Age /\ prompt' \in Age
    BY <2>1
  <2>4. updatePrompt' \in BOOLEAN
    BY <2>1
  <2> QED BY <2>2, <2>3, <2>4
<1>4. CASE Type \/ Resize
  BY <1>4 DEF Type, Resize, sharedVars, drawVars
<1>5. CASE Start
  BY <1>5 DEF Start, ForgetPrompt
<1>6. CASE ReadChar
  <2>1. CASE ReadQueued \/ GotQueued
    BY <2>1 DEF ReadQueued, GotQueued, PopKey, drawVars
  <2>2. CASE ReadWait
    BY <2>2 DEF ReadWait, ReadDelay, sharedVars
  <2>3. CASE TimedOut
    BY <2>3 DEF TimedOut, Drawn, sharedVars
  <2>4. CASE WakeKey \/ WakeMessage
    BY <2>4 DEF WakeKey, WakeMessage, WakeByte, sharedVars
  <2>5. CASE WakeResize
    BY <2>5 DEF WakeResize, WakeByte, Drawn, sharedVars
  <2>6. CASE WakeTyped \/ GotNone
    BY <2>6 DEF WakeTyped, GotNone, GoesOn, sharedVars, drawVars
  <2>7. CASE ShowMessages
    BY <2>7 DEF ShowMessages, ApplyPrompt, Repainted
  <2>8. CASE ReadTyped \/ ReadRaw
    BY <2>8 DEF ReadTyped, ReadRaw, TakeByte, sharedVars, drawVars
  <2> QED BY <1>6, <2>1, <2>2, <2>3, <2>4, <2>5, <2>6, <2>7, <2>8 DEF ReadChar
<1>7. CASE Handler
  <2>1. CASE HandlerEdits
    BY <2>1, BoundsAssumption DEF HandlerEdits, sharedVars
  <2>2. CASE HandlerEmulates
    BY <2>2 DEF HandlerEmulates, drawVars
  <2>3. CASE HandlerSetsPrompt
    BY <2>3 DEF HandlerSetsPrompt, Repainted
  <2>4. CASE HandlerReads \/ HandlerReturns
    BY <2>4 DEF HandlerReads, HandlerReturns, GoesOn, sharedVars, drawVars
  <2>5. CASE HandlerEndsLine
    BY <2>5 DEF HandlerEndsLine, sharedVars
  <2> QED BY <1>7, <2>1, <2>2, <2>3, <2>4, <2>5 DEF Handler
<1>8. CASE Leave
  <2>1. CASE WriteNewline \/ FlushWrite
    BY <2>1 DEF WriteNewline, GoesOn, FlushWrite, sharedVars, drawVars
  <2>2. CASE Finalize
    BY <2>2 DEF Finalize, LeaveOrFlush, sharedVars, drawVars
  <2>3. CASE FlushPop
    BY <2>3 DEF FlushPop, LeaveOrFlush, drawVars
  <2> QED BY <1>8, <2>1, <2>2, <2>3 DEF Leave
<1>9. CASE Fails
  <2>1. CASE ShowMessagesFails
    BY <2>1 DEF ShowMessagesFails, ApplyPrompt, drawVars
  <2>2. CASE WriteFails
    BY <2>2 DEF WriteFails, sharedVars, drawVars
  <2>3. CASE FlushFails
    BY <2>3 DEF FlushFails, sharedVars, drawVars
  <2> QED BY <1>9, <2>1, <2>2, <2>3 DEF Fails
<1>10. CASE UNCHANGED vars
  BY <1>10 DEF vars, sharedVars, drawVars
<1> QED
  BY <1>1, <1>2, <1>3, <1>4, <1>5, <1>6, <1>7, <1>8, <1>9, <1>10
  DEF Next, ThreadStep

\* Every step keeps the mutex, the threads and the counters well typed.
LEMMA CallTypesStep ==
  ASSUME TypeOK, FlushHasFront, [Next]_vars
  PROVE  CallTypes'
<1> USE DEF TypeOK, CallTypes, Callers
<1>1. ASSUME NEW t \in Threads, EmulateKeyPress(t) PROVE CallTypes'
  BY <1>1 DEF EmulateKeyPress
<1>2. ASSUME NEW t \in Threads, PrintMessage(t) PROVE CallTypes'
  BY <1>2 DEF PrintMessage
<1>3. ASSUME NEW t \in Threads, SetPrompt(t) PROVE CallTypes'
  BY <1>3 DEF SetPrompt
<1>4. ASSUME NEW t \in Threads, DirectWrite(t) \/ Notify(t) PROVE CallTypes'
  BY <1>4 DEF DirectWrite, Notify
<1>5. CASE Type \/ Resize \/ Start
  BY <1>5 DEF Type, Resize, Start, callVars
<1>6. CASE ReadChar
  <2>1. CASE ReadQueued \/ GotQueued
    <3>1. PopKey
      BY <2>1 DEF ReadQueued, GotQueued
    <3>2. PICK key \in Callers \X Nat : key = Head(keyPresses)
      BY <3>1 DEF PopKey, QueueTypes
    <3>3. handled' = [handled EXCEPT ![key[1]] = key[2]]
      BY <3>1, <3>2 DEF PopKey
    <3> QED BY <3>1, <3>3 DEF PopKey, callVars
  <2>2. CASE ReadTyped \/ ReadRaw
    BY <2>2 DEF ReadTyped, ReadRaw, TakeByte, callVars
  <2>3. CASE ReadWait \/ TimedOut \/ ShowMessages
    BY <2>3 DEF ReadWait, TimedOut, ShowMessages, callVars
  <2>4. CASE WakeKey \/ WakeMessage \/ WakeResize
    BY <2>4 DEF WakeKey, WakeMessage, WakeResize, WakeByte, callVars
  <2>5. CASE WakeTyped \/ GotNone
    BY <2>5 DEF WakeTyped, GotNone, GoesOn, callVars
  <2> QED BY <1>6, <2>1, <2>2, <2>3, <2>4, <2>5 DEF ReadChar
<1>7. CASE Handler
  <2>1. CASE HandlerEmulates
    BY <2>1 DEF HandlerEmulates
  <2>2. CASE HandlerEdits \/ HandlerSetsPrompt
    BY <2>2 DEF HandlerEdits, HandlerSetsPrompt, callVars
  <2>3. CASE HandlerReads \/ HandlerReturns \/ HandlerEndsLine
    BY <2>3 DEF HandlerReads, HandlerReturns, GoesOn, HandlerEndsLine, callVars
  <2> QED BY <1>7, <2>1, <2>2, <2>3 DEF Handler
<1>8. CASE Leave
  BY <1>8 DEF Leave, WriteNewline, GoesOn, Finalize, FlushWrite, FlushPop, callVars
<1>9. CASE Fails
  BY <1>9 DEF Fails, ShowMessagesFails, WriteFails, FlushFails, callVars
<1>10. CASE UNCHANGED vars
  BY <1>10 DEF vars, callVars
<1> QED
  BY <1>1, <1>2, <1>3, <1>4, <1>5, <1>6, <1>7, <1>8, <1>9, <1>10
  DEF Next, ThreadStep

-----------------------------------------------------------------------------
\* What the reader may rely on between its critical sections: an input() in
\* progress is announced until finalize_input has emptied the queue of messages.
InputAnnounced == pc \in InLoop \cup Finishing => current

ControlInv == FlushHasFront /\ InputAnnounced /\ NothingLeftBehind

\* Every step keeps the facts that relate pc to the queue and to _currentThread.
LEMMA ControlStep ==
  ASSUME TypeOK, ControlInv, [Next]_vars
  PROVE  ControlInv'
<1> USE DEF ControlInv, FlushHasFront, InputAnnounced, NothingLeftBehind, InLoop,
            Finishing
<1>1. ASSUME NEW t \in Threads, PrintMessage(t) PROVE ControlInv'
  <2>1. PICK m \in Threads \X Nat :
            messages' = IF current THEN Append(messages, m) ELSE messages
    <3>1. <<t, printed[t] + 1>> \in Threads \X Nat
      BY DEF TypeOK, CallTypes
    <3>2. messages' = IF current THEN Append(messages, <<t, printed[t] + 1>>) ELSE messages
      BY <1>1 DEF PrintMessage
    <3> QED BY <3>1, <3>2
  <2>2. messages' # <<>> \/ messages' = messages
    <3>1. messages \in Seq(Threads \X Nat)
      BY DEF TypeOK, QueueTypes
    <3>2. Len(Append(messages, m)) = Len(messages) + 1 /\ Len(messages) \in Nat
      BY <3>1, AppendProperties, LenProperties
    <3>3. Len(Append(messages, m)) # 0
      BY <3>2
    <3>4. Len(<<>>) = 0
      BY EmptySeq
    <3>5. Append(messages, m) # <<>>
      BY <3>3, <3>4, Zenon
    <3> QED BY <2>1, <3>5
  <2>3. ~current => messages' = messages
    BY <2>1
  <2> QED BY <1>1, <2>2, <2>3 DEF PrintMessage
<1>2. ASSUME NEW t \in Threads, EmulateKeyPress(t) \/ SetPrompt(t)
      PROVE  ControlInv'
  BY <1>2 DEF EmulateKeyPress, SetPrompt
<1>3. ASSUME NEW t \in Threads, DirectWrite(t) \/ Notify(t) PROVE ControlInv'
  BY <1>3 DEF DirectWrite, Notify, sharedVars
<1>4. CASE Type \/ Resize \/ Start
  BY <1>4 DEF Type, Resize, Start, sharedVars
<1>5. CASE ReadChar
  <2>1. CASE ReadQueued \/ GotQueued
    BY <2>1 DEF ReadQueued, GotQueued, PopKey
  <2>2. CASE ReadWait \/ TimedOut \/ ReadTyped \/ ReadRaw \/ ShowMessages
    BY <2>2 DEF ReadWait, TimedOut, ReadTyped, ReadRaw, TakeByte, ShowMessages,
                sharedVars
  <2>3. CASE WakeKey \/ WakeMessage \/ WakeResize
    BY <2>3 DEF WakeKey, WakeMessage, WakeResize, WakeByte, sharedVars
  <2>4. CASE WakeTyped \/ GotNone
    BY <2>4 DEF WakeTyped, GotNone, GoesOn, sharedVars
  <2> QED BY <1>5, <2>1, <2>2, <2>3, <2>4 DEF ReadChar
<1>6. CASE Handler
  <2>1. CASE HandlerEdits \/ HandlerEmulates \/ HandlerSetsPrompt
    BY <2>1 DEF HandlerEdits, HandlerEmulates, HandlerSetsPrompt, sharedVars
  <2>2. CASE HandlerReads \/ HandlerReturns \/ HandlerEndsLine
    BY <2>2 DEF HandlerReads, HandlerReturns, GoesOn, HandlerEndsLine, sharedVars
  <2> QED BY <1>6, <2>1, <2>2 DEF Handler
<1>7. CASE Leave
  <2>1. CASE WriteNewline \/ Finalize \/ FlushWrite
    BY <2>1 DEF WriteNewline, GoesOn, Finalize, LeaveOrFlush, FlushWrite,
                sharedVars
  <2>2. CASE FlushPop
    BY <2>2 DEF FlushPop, LeaveOrFlush
  <2> QED BY <1>7, <2>1, <2>2 DEF Leave
<1>8. CASE Fails
  BY <1>8 DEF Fails, ShowMessagesFails, WriteFails, FlushFails, sharedVars
<1>9. CASE UNCHANGED vars
  BY <1>9 DEF vars, sharedVars
<1> QED
  BY <1>1, <1>2, <1>3, <1>4, <1>5, <1>6, <1>7, <1>8, <1>9 DEF Next, ThreadStep

-----------------------------------------------------------------------------
\* A byte that is not at the front of the pipe survives the read of the front,
\* and every byte survives a write.
LEMMA ReadKeepsOthers ==
  ASSUME NEW S, NEW s \in Seq(S), s # <<>>, NEW i \in 1..Len(s), s[i] # Head(s)
  PROVE  \E j \in 1..Len(Tail(s)) : Tail(s)[j] = s[i]
<1>1. i # 1
  OBVIOUS
<1>2. i - 1 \in 1..Len(Tail(s)) /\ Tail(s)[i - 1] = s[i]
  BY <1>1
<1> QED BY <1>2

\* A byte written to the pipe takes none away.
LEMMA WriteKeepsAll ==
  ASSUME NEW S, NEW s \in Seq(S), NEW x \in S
  PROVE  /\ \A i \in 1..Len(s) :
              i \in 1..Len(Append(s, x)) /\ Append(s, x)[i] = s[i]
         /\ Len(s) + 1 \in 1..Len(Append(s, x))
         /\ Append(s, x)[Len(s) + 1] = x
OBVIOUS

\* No step takes a byte away from the reader but its own read of that byte.
LEMMA ComingStays ==
  ASSUME TypeOK, [Next]_vars, NEW byte \in {"k", "m"}, Coming(byte),
         byte = "m" => ~WakeMessage, byte = "k" => ~WakeKey
  PROVE  Coming(byte)'
<1> USE DEF TypeOK, QueueTypes, CallTypes
<1>1. ASSUME NEW t \in Threads, Notify(t) PROVE Coming(byte)'
  <2>1. tpc[t] \in {"k", "m", "r"}
    BY <1>1 DEF Notify
  <2>2. CASE \E i \in 1..Len(pipe) : pipe[i] = byte
    BY <1>1, <2>1, <2>2, WriteKeepsAll DEF Notify, WriteByte, Coming
  <2>3. CASE tpc[t] = byte
    <3>1. pipe' = Append(pipe, byte)
      BY <1>1, <2>3 DEF Notify, WriteByte
    <3>2. Len(pipe) + 1 \in 1..Len(pipe') /\ pipe'[Len(pipe) + 1] = byte
      BY <3>1
    <3> QED BY <3>2 DEF Coming
  <2>4. CASE \E u \in Threads \ {t} : tpc[u] = byte
    BY <1>1, <2>4 DEF Notify, Coming
  <2> QED BY <2>2, <2>3, <2>4 DEF Coming
<1>2. ASSUME NEW t \in Threads,
             EmulateKeyPress(t) \/ PrintMessage(t) \/ SetPrompt(t) \/ DirectWrite(t)
      PROVE  Coming(byte)'
  <2>1. tpc[t] # byte /\ UNCHANGED pipe
    BY <1>2 DEF EmulateKeyPress, PrintMessage, SetPrompt, DirectWrite
  <2>2. \A u \in Threads \ {t} : tpc'[u] = tpc[u]
    BY <1>2 DEF EmulateKeyPress, PrintMessage, SetPrompt, DirectWrite
  <2> QED BY <2>1, <2>2 DEF Coming
<1>3. CASE Resize
  <2>1. UNCHANGED tpc /\ pipe' = Append(pipe, "r")
    BY <1>3 DEF Resize, WriteByte, callVars
  <2> QED BY <2>1, WriteKeepsAll DEF Coming
<1>4. CASE WakeKey \/ WakeMessage \/ WakeResize
  <2>1. pc = "wait" /\ pipe # <<>> /\ pipe' = Tail(pipe) /\ UNCHANGED tpc
    BY <1>4 DEF WakeKey, WakeMessage, WakeResize, WakeByte, callVars
  <2>2. Head(pipe) # byte
    BY <1>4 DEF WakeKey, WakeMessage, WakeResize, WakeByte
  <2>3. CASE \E i \in 1..Len(pipe) : pipe[i] = byte
    BY <2>1, <2>2, <2>3, ReadKeepsOthers DEF Coming
  <2> QED BY <2>1, <2>3 DEF Coming
<1>5. CASE UNCHANGED <<pipe, tpc>>
  BY <1>5 DEF Coming
<1>6. CASE Type \/ Start \/ Handler \/ Leave \/ Fails
  <2>1. CASE Type \/ Start
    BY <1>5, <2>1 DEF Type, Start, callVars
  <2>2. CASE Handler
    BY <1>5, <2>2 DEF Handler, HandlerEdits, HandlerEmulates, HandlerSetsPrompt,
                      HandlerReads, HandlerReturns, HandlerEndsLine, GoesOn, callVars
  <2>3. CASE Leave
    BY <1>5, <2>3 DEF Leave, WriteNewline, GoesOn, Finalize, FlushWrite, FlushPop,
                      callVars
  <2>4. CASE Fails
    BY <1>5, <2>4 DEF Fails, ShowMessagesFails, WriteFails, FlushFails, callVars
  <2> QED BY <1>6, <2>1, <2>2, <2>3, <2>4
<1>7. CASE ReadQueued \/ ReadWait \/ TimedOut \/ WakeTyped \/ ShowMessages
           \/ GotQueued \/ GotNone \/ ReadTyped \/ ReadRaw
  BY <1>5, <1>7 DEF ReadQueued, ReadWait, TimedOut, WakeTyped, ShowMessages,
                    GotQueued, GotNone, ReadTyped, ReadRaw, TakeByte, PopKey,
                         GoesOn, callVars
<1> QED
  BY <1>1, <1>2, <1>3, <1>4, <1>5, <1>6, <1>7
  DEF Next, ThreadStep, ReadChar, vars, callVars

\* Pending messages or a pending prompt keep their byte; what makes them pending
\* is the call of another thread, which has its byte still to write.
LEMMA MessageWakesReaderStep ==
  ASSUME TypeOK, ControlInv, MessageWakesReader, [Next]_vars
  PROVE  MessageWakesReader'
<1> DEFINE Pending == messages # <<>> \/ updatePrompt
           Looking == pc \in InLoop \ {"message"}
<1> SUFFICES ASSUME Looking', Pending' PROVE Coming("m")'
  BY DEF MessageWakesReader
<1>1. CASE Looking /\ Pending
  <2>1. Coming("m") /\ ~WakeMessage
    BY <1>1 DEF MessageWakesReader, WakeMessage, WakeByte
  <2> QED BY <2>1, ComingStays
<1>2. ASSUME NEW t \in Threads, PrintMessage(t) \/ SetPrompt(t), ~(Looking /\ Pending)
      PROVE  Coming("m")'
  <2>1. UNCHANGED pc
    BY <1>2 DEF PrintMessage, SetPrompt
  <2>2. current
    BY <2>1 DEF ControlInv, InputAnnounced
  <2> QED BY <1>2, <2>2 DEF PrintMessage, SetPrompt, Coming, TypeOK, CallTypes
<1>3. CASE Start
  BY <1>3 DEF Start, ForgetPrompt, ControlInv, NothingLeftBehind
<1>4. CASE ShowMessages
  <2>1. messages \in Seq(Threads \X Nat) /\ Len(messages) \in Nat
    BY DEF TypeOK, QueueTypes
  <2>2. messages' = <<>> /\ updatePrompt' = FALSE
    BY <1>4, <2>1 DEF ShowMessages, ShowFirst, ApplyPrompt
  <2> QED BY <2>2
<1>5. ASSUME Next, ~(Looking /\ Pending), ~Start, ~ShowMessages,
             \A t \in Threads : ~PrintMessage(t) /\ ~SetPrompt(t)
      PROVE  FALSE
  <2>1. ASSUME NEW t \in Threads, EmulateKeyPress(t) \/ DirectWrite(t) \/ Notify(t)
        PROVE  FALSE
    BY <1>5, <2>1 DEF EmulateKeyPress, DirectWrite, Notify, sharedVars
  <2>2. CASE Type \/ Resize \/ Handler
    BY <1>5, <2>2 DEF Type, Resize, Handler, HandlerEdits, HandlerEmulates,
       HandlerSetsPrompt, HandlerReads, HandlerReturns, HandlerEndsLine, GoesOn,
            sharedVars,
       InLoop
  <2>3. CASE ReadQueued \/ ReadWait \/ TimedOut \/ WakeTyped \/ GotQueued
             \/ GotNone \/ ReadTyped \/ ReadRaw
    BY <1>5, <2>3 DEF ReadQueued, ReadWait, TimedOut, WakeTyped, GotQueued,
       GotNone, ReadTyped, ReadRaw, TakeByte, PopKey, GoesOn, sharedVars, InLoop
  <2>4. CASE WakeKey \/ WakeResize \/ WakeMessage
    BY <1>5, <2>4 DEF WakeKey, WakeResize, WakeMessage, WakeByte, sharedVars,
       InLoop
  <2>5. CASE Leave \/ Fails
    BY <2>5 DEF Leave, WriteNewline, GoesOn, Finalize, LeaveOrFlush, FlushWrite,
       FlushPop, Fails, ShowMessagesFails, WriteFails, FlushFails, InLoop
  <2> QED BY <1>5, <2>1, <2>2, <2>3, <2>4, <2>5 DEF Next, ThreadStep, ReadChar
<1>6. CASE UNCHANGED vars
  BY <1>1, <1>6 DEF vars, sharedVars
<1> QED BY <1>1, <1>2, <1>3, <1>4, <1>5, <1>6

\* The reader enters select() with no key queued, and no other step takes it
\* there: a key found in the queue later came from a thread, with its byte.
LEMMA KeyWakesReaderStep ==
  ASSUME TypeOK, ControlInv, KeyWakesReader, [Next]_vars
  PROVE  KeyWakesReader'
<1> DEFINE Selecting == pc \in {"wait", "message"}
<1> SUFFICES ASSUME Selecting', keyPresses' # <<>> PROVE Coming("k")'
  BY DEF KeyWakesReader
<1>1. CASE Selecting /\ keyPresses # <<>>
  <2>1. Coming("k") /\ ~WakeKey
    BY <1>1 DEF KeyWakesReader, WakeKey, WakeByte
  <2> QED BY <2>1, ComingStays
<1>2. ASSUME NEW t \in Threads, EmulateKeyPress(t) PROVE Coming("k")'
  <2>1. UNCHANGED pc
    BY <1>2 DEF EmulateKeyPress
  <2>2. current
    BY <2>1 DEF ControlInv, InputAnnounced, InLoop
  <2> QED BY <1>2, <2>2 DEF EmulateKeyPress, Coming, TypeOK, CallTypes
<1>3. ASSUME Next, ~(Selecting /\ keyPresses # <<>>),
             \A t \in Threads : ~EmulateKeyPress(t)
      PROVE  FALSE
  <2>1. ASSUME NEW t \in Threads,
               PrintMessage(t) \/ SetPrompt(t) \/ DirectWrite(t) \/ Notify(t)
        PROVE  FALSE
    BY <1>3, <2>1 DEF PrintMessage, SetPrompt, DirectWrite, Notify, sharedVars
  <2>2. CASE Type \/ Resize \/ Start
    BY <1>3, <2>2 DEF Type, Resize, Start, sharedVars
  <2>3. CASE ReadQueued \/ GotQueued \/ WakeTyped \/ GotNone \/ ReadTyped \/ ReadRaw
    BY <1>3, <2>3 DEF ReadQueued, GotQueued, PopKey, WakeTyped, GotNone, GoesOn,
       ReadTyped, ReadRaw, TakeByte
  <2>4. CASE ReadWait \/ TimedOut \/ ShowMessages
    BY <1>3, <2>4 DEF ReadWait, MayWait, TimedOut, ShowMessages, sharedVars
  <2>5. CASE WakeKey \/ WakeResize \/ WakeMessage
    BY <1>3, <2>5 DEF WakeKey, WakeResize, WakeMessage, WakeByte, sharedVars
  <2>6. CASE Handler
    BY <2>6 DEF Handler, HandlerEdits, HandlerEmulates, HandlerSetsPrompt,
       HandlerReads, HandlerReturns, HandlerEndsLine, GoesOn
  <2>7. CASE Leave \/ Fails
    BY <2>7 DEF Leave, WriteNewline, GoesOn, Finalize, LeaveOrFlush, FlushWrite,
       FlushPop, Fails, ShowMessagesFails, WriteFails, FlushFails
  <2> QED
    BY <1>3, <2>1, <2>2, <2>3, <2>4, <2>5, <2>6, <2>7 DEF Next, ThreadStep, ReadChar
<1>4. CASE UNCHANGED vars
  BY <1>1, <1>4 DEF vars, sharedVars
<1> QED BY <1>1, <1>2, <1>3, <1>4

-----------------------------------------------------------------------------
\* The flag remembers every refresh that a handler skipped.
SkipRemembered == stale = "key" => refreshSkipped

RefreshInv == SkipRemembered /\ SkippedRefreshIsScheduled

\* Every step keeps the facts about skipped refreshes.
LEMMA RefreshStep ==
  ASSUME TypeOK, RefreshInv, [Next]_vars
  PROVE  RefreshInv'
<1> USE DEF RefreshInv, SkipRemembered, SkippedRefreshIsScheduled
<1>1. ASSUME NEW t \in Threads, ThreadStep(t) PROVE RefreshInv'
  BY <1>1 DEF ThreadStep, EmulateKeyPress, PrintMessage, SetPrompt, DirectWrite, Notify,
              drawVars
<1>2. CASE Type \/ Resize \/ Start
  BY <1>2 DEF Type, Resize, Start, drawVars
<1>3. CASE ReadChar
  <2>1. CASE ReadWait
    BY <2>1 DEF ReadWait, ReadDelay
  <2>2. CASE TimedOut \/ WakeKey \/ WakeMessage \/ WakeResize
    BY <2>2 DEF TimedOut, WakeKey, WakeMessage, WakeResize, WakeByte, Drawn
  <2>3. CASE ShowMessages
    BY <2>3 DEF ShowMessages, Repainted
  <2>4. CASE ReadQueued \/ GotQueued \/ WakeTyped \/ GotNone \/ ReadTyped \/ ReadRaw
    BY <2>4 DEF ReadQueued, GotQueued, PopKey, WakeTyped, GotNone, GoesOn,
       ReadTyped, ReadRaw, TakeByte, drawVars
  <2> QED BY <1>3, <2>1, <2>2, <2>3, <2>4 DEF ReadChar
<1>4. CASE Handler
  <2>1. CASE HandlerEdits
    BY <2>1 DEF HandlerEdits
  <2>2. CASE HandlerSetsPrompt
    BY <2>2 DEF HandlerSetsPrompt, Repainted
  <2>3. CASE HandlerEmulates \/ HandlerReads \/ HandlerReturns
    BY <2>3 DEF HandlerEmulates, HandlerReads, HandlerReturns, GoesOn, drawVars
  <2>4. CASE HandlerEndsLine
    BY <2>4 DEF HandlerEndsLine
  <2> QED BY <1>4, <2>1, <2>2, <2>3, <2>4 DEF Handler
<1>5. CASE Leave \/ Fails
  BY <1>5 DEF Leave, WriteNewline, GoesOn, Finalize, LeaveOrFlush, FlushWrite,
     FlushPop, Fails, ShowMessagesFails, WriteFails, FlushFails, drawVars
<1>6. CASE UNCHANGED vars
  BY <1>6 DEF vars, drawVars
<1> QED BY <1>1, <1>2, <1>3, <1>4, <1>5, <1>6 DEF Next

-----------------------------------------------------------------------------
\* Every prompt a thread asks for is the pending one until it is applied, and it
\* is dropped when no input() is in progress: with handlers that set no prompt
\* nothing comes between.
LEMMA PromptStep ==
  ASSUME ~HandlerPrompts, TypeOK, ControlInv, PromptIsLatest, [Next]_vars
  PROVE  PromptIsLatest'
<1> USE DEF PromptIsLatest, InLoop, Finishing
<1>1. ASSUME NEW t \in Threads, SetPrompt(t) PROVE PromptIsLatest'
  <2>1. pc \in InLoop \cup Finishing => current
    BY DEF ControlInv, InputAnnounced
  <2> QED BY <1>1, <2>1 DEF SetPrompt
<1>2. ASSUME NEW t \in Threads, EmulateKeyPress(t) \/ PrintMessage(t)
      PROVE  PromptIsLatest'
  BY <1>2 DEF EmulateKeyPress, PrintMessage
<1>3. ASSUME NEW t \in Threads, DirectWrite(t) \/ Notify(t) PROVE PromptIsLatest'
  BY <1>3 DEF DirectWrite, Notify, sharedVars
<1>4. CASE Type \/ Resize \/ Start
  BY <1>4 DEF Type, Resize, Start, ForgetPrompt, sharedVars
<1>5. CASE ReadChar
  <2>1. CASE ReadQueued \/ GotQueued
    BY <2>1 DEF ReadQueued, GotQueued, PopKey
  <2>2. CASE ReadWait \/ TimedOut \/ ReadTyped \/ ReadRaw
    BY <2>2 DEF ReadWait, TimedOut, ReadTyped, ReadRaw, TakeByte, sharedVars
  <2>3. CASE WakeKey \/ WakeMessage \/ WakeResize
    BY <2>3 DEF WakeKey, WakeMessage, WakeResize, WakeByte, sharedVars
  <2>4. CASE WakeTyped \/ GotNone
    BY <2>4 DEF WakeTyped, GotNone, GoesOn, sharedVars
  <2>5. CASE ShowMessages
    BY <2>5 DEF ShowMessages, ApplyPrompt
  <2> QED BY <1>5, <2>1, <2>2, <2>3, <2>4, <2>5 DEF ReadChar
<1>6. CASE Handler
  <2>1. CASE HandlerEdits \/ HandlerEmulates \/ HandlerReads \/ HandlerReturns
             \/ HandlerEndsLine
    BY <2>1 DEF HandlerEdits, HandlerEmulates, HandlerReads, HandlerReturns, GoesOn,
       HandlerEndsLine, sharedVars
  <2>2. ~HandlerSetsPrompt
    BY DEF HandlerSetsPrompt
  <2> QED BY <1>6, <2>1, <2>2 DEF Handler
<1>7. CASE Leave
  BY <1>7 DEF Leave, WriteNewline, GoesOn, Finalize, LeaveOrFlush, FlushWrite,
     FlushPop, sharedVars
<1>8. CASE Fails
  BY <1>8 DEF Fails, ShowMessagesFails, ApplyPrompt, WriteFails, FlushFails,
     sharedVars
<1>9. CASE UNCHANGED vars
  BY <1>9 DEF vars, sharedVars
<1> QED
  BY <1>1, <1>2, <1>3, <1>4, <1>5, <1>6, <1>7, <1>8, <1>9 DEF Next, ThreadStep

-----------------------------------------------------------------------------
\* KeysExactlyOnce of queue q, of what each caller sent and of what the handlers
\* had of it; no caller's key reaches a handler before it was sent.
ExactQueue(q, sent, had) ==
  /\ \A i, j \in 1..Len(q) : i < j /\ q[i][1] = q[j][1] => q[i][2] < q[j][2]
  /\ \A i \in 1..Len(q) : q[i][2] \in (had[q[i][1]] + 1)..sent[q[i][1]]
  /\ \A c \in Callers : \A n \in (had[c] + 1)..sent[c] :
       \E i \in 1..Len(q) : q[i] = <<c, n>>
  /\ \A c \in Callers : had[c] <= sent[c]

\* A key that its caller numbers after all it sent before joins the queue.
LEMMA KeyQueued ==
  ASSUME NEW q \in Seq(Callers \X Nat), NEW sent \in [Callers -> Nat],
         NEW had \in [Callers -> Nat], ExactQueue(q, sent, had), NEW c \in Callers
  PROVE  ExactQueue(Append(q, <<c, sent[c] + 1>>), [sent EXCEPT ![c] = @ + 1], had)
<1> DEFINE key == <<c, sent[c] + 1>>
           new == Append(q, key)
           sent2 == [sent EXCEPT ![c] = @ + 1]
           n == Len(q)
<1>1. /\ n \in Nat /\ Len(new) = n + 1 /\ new[n + 1] = key
      /\ \A i \in 1..n : new[i] = q[i]
  BY AppendProperties
<1>2. /\ sent[c] \in Nat /\ had[c] \in Nat
      /\ sent2[c] = sent[c] + 1 /\ \A d \in Callers \ {c} : sent2[d] = sent[d]
      /\ key[1] = c /\ key[2] = sent[c] + 1
  OBVIOUS
<1>3. /\ \A d \in Callers : sent[d] \in Nat /\ had[d] \in Nat
      /\ \A i \in 1..n : q[i][1] \in Callers /\ q[i][2] \in Nat
  BY ElementOfSeq
<1>4. /\ \A i, j \in 1..n : i < j /\ q[i][1] = q[j][1] => q[i][2] < q[j][2]
      /\ \A i \in 1..n : q[i][2] \in (had[q[i][1]] + 1)..sent[q[i][1]]
      /\ \A d \in Callers : \A k \in (had[d] + 1)..sent[d] :
           \E i \in 1..n : q[i] = <<d, k>>
      /\ \A d \in Callers : had[d] <= sent[d]
  BY DEF ExactQueue
<1>k. key = <<c, sent[c] + 1>>
  OBVIOUS
<1> HIDE DEF key, new, sent2, n
<1>5. ASSUME NEW i \in 1..(n + 1), NEW j \in 1..(n + 1), i < j, new[i][1] = new[j][1]
      PROVE  new[i][2] < new[j][2]
  <2>1. i \in 1..n
    BY <1>5, <1>1
  <2>2. CASE j \in 1..n
    BY <2>1, <2>2, <1>1, <1>4, <1>5
  <2>3. CASE j = n + 1
    <3>1. q[i][1] = c /\ q[i][2] <= sent[c] /\ q[i][2] \in Nat
      BY <2>1, <2>3, <1>1, <1>2, <1>3, <1>4, <1>5
    <3> QED BY <2>1, <2>3, <3>1, <1>1, <1>2
  <2> QED BY <2>2, <2>3, <1>1
<1>6. ASSUME NEW i \in 1..(n + 1)
      PROVE  new[i][2] \in (had[new[i][1]] + 1)..sent2[new[i][1]]
  <2>1. CASE i \in 1..n
    <3>1. PICK d \in Callers : d = q[i][1]
      BY <2>1, <1>3
    <3>2. /\ new[i][1] = d /\ new[i][2] = q[i][2] /\ q[i][2] \in Nat
          /\ q[i][2] \in (had[d] + 1)..sent[d]
      BY <2>1, <3>1, <1>1, <1>3, <1>4
    <3>3. /\ sent2[d] = sent[d] \/ sent2[d] = sent[d] + 1
          /\ sent[d] \in Nat /\ had[d] \in Nat
      BY <1>2, <1>3
    <3>4. q[i][2] \in (had[d] + 1)..sent2[d]
      BY SMTT(30), <3>2, <3>3
    <3> QED BY <3>2, <3>4
  <2>2. CASE i = n + 1
    BY <2>2, <1>1, <1>2, <1>4
  <2> QED BY <2>1, <2>2, <1>1
<1>7. ASSUME NEW d \in Callers, NEW k \in (had[d] + 1)..sent2[d]
      PROVE  \E i \in 1..(n + 1) : new[i] = <<d, k>>
  <2>1. CASE k \in (had[d] + 1)..sent[d]
    <3>1. PICK i \in 1..n : q[i] = <<d, k>>
      BY <2>1, <1>4
    <3>2. i \in 1..(n + 1) /\ new[i] = <<d, k>>
      BY SMTT(30), <3>1, <1>1
    <3> QED BY <3>2
  <2>2. CASE d = c /\ k = sent[c] + 1
    <3>1. n + 1 \in 1..(n + 1) /\ new[n + 1] = <<d, k>>
      BY <2>2, <1>1, <1>k
    <3> QED BY <3>1
  <2> QED BY <1>7, <1>2, <1>3, <2>1, <2>2
<1>8. ASSUME NEW d \in Callers PROVE had[d] <= sent2[d]
  <2>1. /\ sent2[d] = sent[d] \/ sent2[d] = sent[d] + 1
        /\ sent[d] \in Nat /\ had[d] \in Nat /\ had[d] <= sent[d]
    BY <1>2, <1>3, <1>4
  <2> QED BY <2>1
<1> QED BY <1>1, <1>5, <1>6, <1>7, <1>8 DEF ExactQueue, new, sent2, key

\* The key that is taken is the oldest of its caller, so what stays in the queue
\* is what that caller sent after it.
LEMMA KeyTaken ==
  ASSUME NEW q \in Seq(Callers \X Nat), NEW sent \in [Callers -> Nat],
         NEW had \in [Callers -> Nat], ExactQueue(q, sent, had), q # <<>>
  PROVE  ExactQueue(Tail(q), sent, [had EXCEPT ![Head(q)[1]] = Head(q)[2]])
<1> DEFINE key == Head(q)
           rest == Tail(q)
           had2 == [had EXCEPT ![key[1]] = key[2]]
           n == Len(q)
<1>1. /\ n \in Nat \ {0} /\ key = q[1] /\ Len(rest) = n - 1
      /\ \A i \in 1..(n - 1) : rest[i] = q[i + 1]
  BY EmptySeq, HeadTailProperties
<1>2. /\ \A d \in Callers : sent[d] \in Nat /\ had[d] \in Nat
      /\ \A i \in 1..n : q[i][1] \in Callers /\ q[i][2] \in Nat
  BY ElementOfSeq
<1>3. /\ \A i, j \in 1..n : i < j /\ q[i][1] = q[j][1] => q[i][2] < q[j][2]
      /\ \A i \in 1..n : q[i][2] \in (had[q[i][1]] + 1)..sent[q[i][1]]
      /\ \A d \in Callers : \A k \in (had[d] + 1)..sent[d] :
           \E i \in 1..n : q[i] = <<d, k>>
      /\ \A d \in Callers : had[d] <= sent[d]
  BY DEF ExactQueue
<1>4. /\ key[1] \in Callers /\ key[2] \in Nat
      /\ key[2] \in (had[key[1]] + 1)..sent[key[1]]
      /\ \A j \in 2..n : q[j][1] = key[1] => key[2] < q[j][2]
  BY <1>1, <1>2, <1>3
<1>5. had2[key[1]] = key[2] /\ \A d \in Callers \ {key[1]} : had2[d] = had[d]
  BY <1>4
<1> HIDE DEF key, rest, had2, n
<1>6. ASSUME NEW i \in 1..(n - 1), NEW j \in 1..(n - 1), i < j, rest[i][1] = rest[j][1]
      PROVE  rest[i][2] < rest[j][2]
  <2>1. i + 1 \in 1..n /\ j + 1 \in 1..n /\ i + 1 < j + 1
    BY SMTT(30), <1>1, <1>6
  <2> QED BY <2>1, <1>1, <1>3, <1>6
<1>7. ASSUME NEW i \in 1..(n - 1)
      PROVE  rest[i][2] \in (had2[rest[i][1]] + 1)..sent[rest[i][1]]
  <2>1. i + 1 \in 1..n /\ i + 1 \in 2..n /\ rest[i] = q[i + 1]
    BY <1>1
  <2>2. PICK d \in Callers, k \in Nat : d = q[i + 1][1] /\ k = q[i + 1][2]
    BY <2>1, <1>2
  <2>3. /\ rest[i][1] = d /\ rest[i][2] = k
        /\ k \in (had[d] + 1)..sent[d]
        /\ d = key[1] => key[2] < k
    BY <2>1, <2>2, <1>3, <1>4
  <2>4. had2[d] = IF d = key[1] THEN key[2] ELSE had[d]
    BY <1>5
  <2>5. had[d] \in Nat /\ sent[d] \in Nat
    BY <1>2
  <2>6. k \in (had2[d] + 1)..sent[d]
    BY <2>3, <2>4, <2>5, <1>4
  <2> QED BY <2>3, <2>6
<1>8. ASSUME NEW d \in Callers, NEW k \in (had2[d] + 1)..sent[d]
      PROVE  \E i \in 1..(n - 1) : rest[i] = <<d, k>>
  <2>1. k \in (had[d] + 1)..sent[d] /\ (d = key[1] => k # key[2])
    BY SMTT(30), <1>2, <1>4, <1>5, <1>8
  <2>2. PICK i \in 1..n : q[i] = <<d, k>>
    BY <2>1, <1>3
  <2>3. i # 1
    BY <2>1, <2>2, <1>1
  <2>4. i - 1 \in 1..(n - 1) /\ rest[i - 1] = q[i]
    BY <2>3, <1>1
  <2> QED BY <2>2, <2>4
<1>9. ASSUME NEW d \in Callers PROVE had2[d] <= sent[d]
  <2>1. /\ had2[d] = IF d = key[1] THEN key[2] ELSE had[d]
        /\ had[d] \in Nat /\ sent[d] \in Nat /\ had[d] <= sent[d]
    BY <1>2, <1>3, <1>5
  <2>2. key[2] \in Nat /\ (d = key[1] => key[2] <= sent[d])
    BY <2>1, <1>4
  <2> QED BY <2>1, <2>2
<1> QED BY <1>1, <1>6, <1>7, <1>8, <1>9 DEF ExactQueue, rest, had2, key

KeysExact == ExactQueue(keyPresses, emitted, handled)

\* Every step keeps the queue of keys exact.
LEMMA KeysStep ==
  ASSUME TypeOK, KeysExact, [Next]_vars
  PROVE  KeysExact'
<1>t. /\ keyPresses \in Seq(Callers \X Nat)
      /\ emitted \in [Callers -> Nat] /\ handled \in [Callers -> Nat]
  BY DEF TypeOK, QueueTypes, CallTypes
<1>1. ASSUME NEW t \in Threads, EmulateKeyPress(t) PROVE KeysExact'
  BY <1>t, <1>1, KeyQueued DEF EmulateKeyPress, Callers, KeysExact
<1>2. CASE HandlerEmulates
  BY <1>t, <1>2, KeyQueued DEF HandlerEmulates, Callers, KeysExact
<1>3. CASE ReadQueued \/ GotQueued
  <2>1. /\ keyPresses # <<>> /\ keyPresses' = Tail(keyPresses) /\ emitted' = emitted
        /\ handled' = [handled EXCEPT ![Head(keyPresses)[1]] = Head(keyPresses)[2]]
    BY <1>3 DEF ReadQueued, GotQueued, PopKey, callVars
  <2>2. ExactQueue(Tail(keyPresses), emitted,
                   [handled EXCEPT ![Head(keyPresses)[1]] = Head(keyPresses)[2]])
    BY <1>t, <2>1, KeyTaken DEF KeysExact
  <2> QED BY <2>1, <2>2 DEF KeysExact
<1>4. CASE UNCHANGED <<keyPresses, emitted, handled>>
  BY <1>4 DEF KeysExact
<1>5. ASSUME NEW t \in Threads,
             PrintMessage(t) \/ SetPrompt(t) \/ DirectWrite(t) \/ Notify(t)
      PROVE  UNCHANGED <<keyPresses, emitted, handled>>
  BY <1>5 DEF PrintMessage, SetPrompt, DirectWrite, Notify, sharedVars
<1>6. CASE Type \/ Resize \/ Start
  BY <1>4, <1>6 DEF Type, Resize, Start, ForgetPrompt, sharedVars, callVars
<1>7. CASE ReadWait \/ TimedOut \/ WakeKey \/ WakeMessage \/ WakeResize
           \/ WakeTyped \/ ShowMessages \/ GotNone \/ ReadTyped \/ ReadRaw
  BY <1>4, <1>7 DEF ReadWait, TimedOut, WakeKey, WakeMessage, WakeResize, WakeByte,
     WakeTyped, ShowMessages, GotNone, ReadTyped, ReadRaw, TakeByte, GoesOn,
          sharedVars, callVars
<1>8. CASE HandlerEdits \/ HandlerSetsPrompt \/ HandlerReads \/ HandlerReturns
           \/ HandlerEndsLine
  BY <1>4, <1>8 DEF HandlerEdits, HandlerSetsPrompt, HandlerReads,
       HandlerReturns, GoesOn,
     HandlerEndsLine, sharedVars, callVars
<1>9. CASE Leave \/ Fails
  BY <1>4, <1>9 DEF Leave, WriteNewline, GoesOn, Finalize, FlushWrite, FlushPop,
     Fails, ShowMessagesFails, WriteFails, FlushFails, sharedVars, callVars
<1>10. CASE UNCHANGED vars
  BY <1>4, <1>10 DEF vars, sharedVars, callVars
<1> QED
  BY <1>1, <1>2, <1>3, <1>4, <1>5, <1>6, <1>7, <1>8, <1>9, <1>10
  DEF Next, ThreadStep, ReadChar, Handler

-----------------------------------------------------------------------------
\* The threads that are about to write a message themselves, and the threads
\* whose messages a sequence of messages holds.
Writers == {t \in Threads : tpc[t] = "write"}
Owners(s) == {s[i][1] : i \in 1..Len(s)}

\* MessagesExactlyOnce of sequence d, of the calls each thread made and of the
\* threads whose last message is still theirs to write; no number is ahead of them.
ExactOutput(d, calls, writers) ==
  /\ \A i, j \in 1..Len(d) : i < j /\ d[i][1] = d[j][1] => d[i][2] < d[j][2]
  /\ \A i \in 1..Len(d) : d[i][2] <= calls[d[i][1]]
  /\ \A i \in 1..Len(d) : d[i][1] \in writers => d[i][2] < calls[d[i][1]]
  /\ \A t \in Threads : \A n \in 1..calls[t] :
       \/ t \in writers /\ n = calls[t]
       \/ \E i \in 1..Len(d) : d[i] = <<t, n>>

\* A call of print() whose message is not delivered yet.
LEMMA MessageMade ==
  ASSUME NEW d \in Seq(Threads \X Nat), NEW calls \in [Threads -> Nat],
         NEW writers \in SUBSET Threads, ExactOutput(d, calls, writers),
         NEW t \in Threads \ writers
  PROVE  ExactOutput(d, [calls EXCEPT ![t] = @ + 1], writers \cup {t})
<1> DEFINE calls2 == [calls EXCEPT ![t] = @ + 1]
<1>1. /\ \A u \in Threads : calls[u] \in Nat
      /\ \A i \in 1..Len(d) : d[i][1] \in Threads /\ d[i][2] \in Nat
  BY ElementOfSeq
<1>2. \A u \in Threads : calls2[u] = IF u = t THEN calls[u] + 1 ELSE calls[u]
  OBVIOUS
<1>3. /\ \A i, j \in 1..Len(d) : i < j /\ d[i][1] = d[j][1] => d[i][2] < d[j][2]
      /\ \A i \in 1..Len(d) : d[i][2] <= calls[d[i][1]]
      /\ \A i \in 1..Len(d) : d[i][1] \in writers => d[i][2] < calls[d[i][1]]
      /\ \A u \in Threads : \A n \in 1..calls[u] :
           \/ u \in writers /\ n = calls[u]
           \/ \E i \in 1..Len(d) : d[i] = <<u, n>>
  BY DEF ExactOutput
<1> HIDE DEF calls2
<1>4. ASSUME NEW i \in 1..Len(d)
      PROVE  /\ d[i][2] <= calls2[d[i][1]]
             /\ d[i][1] \in writers \cup {t} => d[i][2] < calls2[d[i][1]]
  <2>1. PICK u \in Threads, k \in Nat : u = d[i][1] /\ k = d[i][2]
    BY <1>1
  <2>2. /\ k <= calls[u] /\ (u \in writers => k < calls[u]) /\ calls[u] \in Nat
        /\ calls2[u] = IF u = t THEN calls[u] + 1 ELSE calls[u]
    BY <2>1, <1>1, <1>2, <1>3
  <2>3. k <= calls2[u] /\ (u \in writers \cup {t} => k < calls2[u])
    BY <2>2
  <2> QED BY <2>1, <2>3
<1>5. ASSUME NEW u \in Threads, NEW n \in 1..calls2[u]
      PROVE  \/ u \in writers \cup {t} /\ n = calls2[u]
             \/ \E i \in 1..Len(d) : d[i] = <<u, n>>
  <2>1. CASE u = t
    <3>1. n \in 1..calls[u] \/ n = calls2[u]
      BY SMTT(30), <2>1, <1>1, <1>2
    <3> QED BY <2>1, <3>1, <1>3
  <2>2. CASE u # t
    BY <2>2, <1>2, <1>3
  <2> QED BY <2>1, <2>2
<1> QED BY <1>3, <1>4, <1>5 DEF ExactOutput, calls2

\* The last message of a thread comes before messages of other threads only.
LEMMA MessageInserted ==
  ASSUME NEW s \in Seq(Threads \X Nat), NEW rest \in Seq(Threads \X Nat),
         NEW calls \in [Threads -> Nat], NEW writers \in SUBSET Threads,
         ExactOutput(s \o rest, calls, writers),
         NEW t \in writers, t \notin Owners(rest)
  PROVE  ExactOutput(Append(s, <<t, calls[t]>>) \o rest, calls, writers \ {t})
<1> DEFINE m == <<t, calls[t]>>
           old == s \o rest
           new == Append(s, m) \o rest
           p == Len(s) + 1
<1>1. /\ \A u \in Threads : calls[u] \in Nat
      /\ t \in Threads /\ m \in Threads \X Nat /\ m[1] = t /\ m[2] = calls[t]
  OBVIOUS
<1>2. /\ p \in Nat \ {0} /\ Len(rest) \in Nat /\ Len(old) = p - 1 + Len(rest)
      /\ old \in Seq(Threads \X Nat)
      /\ \A i \in 1..Len(old) : old[i] = IF i < p THEN s[i] ELSE rest[i - p + 1]
  BY ConcatProperties
<1>3. /\ Append(s, m) \in Seq(Threads \X Nat) /\ Len(Append(s, m)) = p
      /\ \A i \in 1..(p - 1) : Append(s, m)[i] = s[i]
      /\ Append(s, m)[p] = m
  BY <1>1, AppendProperties
<1>4. /\ Len(new) = p + Len(rest)
      /\ \A i \in 1..(p + Len(rest)) :
           new[i] = IF i <= p THEN Append(s, m)[i] ELSE rest[i - p]
  BY <1>3, ConcatProperties
<1>5. /\ \A i \in 1..Len(old) : old[i][1] \in Threads /\ old[i][2] \in Nat
      /\ \A i \in 1..Len(old) : i >= p => old[i][1] # t
  <2>1. \A i \in 1..Len(old) : i >= p => old[i][1] # t
    BY <1>2 DEF Owners
  <2> QED BY SMTT(30), <2>1, <1>2, ElementOfSeq
<1>6. /\ \A i, j \in 1..Len(old) : i < j /\ old[i][1] = old[j][1] => old[i][2] < old[j][2]
      /\ \A i \in 1..Len(old) : old[i][2] <= calls[old[i][1]]
      /\ \A i \in 1..Len(old) : old[i][1] \in writers => old[i][2] < calls[old[i][1]]
      /\ \A u \in Threads : \A n \in 1..calls[u] :
           \/ u \in writers /\ n = calls[u]
           \/ \E i \in 1..Len(old) : old[i] = <<u, n>>
  BY DEF ExactOutput
<1> HIDE DEF m, old, new, p
<1>a. ASSUME NEW i \in 1..Len(new), i < p
      PROVE  i \in 1..Len(old) /\ new[i] = old[i]
  <2>1. i \in 1..(p - 1) /\ i \in 1..Len(old) /\ i \in 1..(p + Len(rest)) /\ i <= p
    BY <1>a, <1>2, <1>4
  <2>2. new[i] = Append(s, m)[i] /\ Append(s, m)[i] = s[i] /\ old[i] = s[i]
    BY <1>a, <2>1, <1>2, <1>3, <1>4
  <2> QED BY <2>1, <2>2
<1>b. ASSUME NEW i \in 1..Len(new), i > p
      PROVE  i - 1 \in 1..Len(old) /\ new[i] = old[i - 1]
  <2>1. i - 1 \in 1..Len(old) /\ ~(i - 1 < p) /\ ~(i <= p)
    BY SMTT(30), <1>b, <1>2, <1>4
  <2>2. (i - 1) - p + 1 = i - p
    BY <1>2
  <2>3. old[i - 1] = rest[i - p]
    BY <2>1, <2>2, <1>2
  <2>4. new[i] = rest[i - p]
    BY <2>1, <1>4
  <2> QED BY <2>1, <2>3, <2>4
<1>8. new[p] = m /\ p \in 1..Len(new)
  BY <1>2, <1>3, <1>4
<1>9. ASSUME NEW i \in 1..Len(new), NEW j \in 1..Len(new), i < j, new[i][1] = new[j][1]
      PROVE  new[i][2] < new[j][2]
  <2>p. p \in Int /\ i \in Int /\ j \in Int
    BY <1>2, <1>4
  <2>1. CASE i < p /\ j < p
    BY <2>1, <1>6, <1>9, <1>a
  <2>2. CASE i < p /\ j > p
    <3>1. /\ i \in 1..Len(old) /\ new[i] = old[i]
          /\ j - 1 \in 1..Len(old) /\ new[j] = old[j - 1]
      BY <2>2, <1>a, <1>b
    <3>2. i < j - 1 \/ i = j - 1
      BY <2>2, <2>p
    <3>3. i # j - 1
      <4>1. ASSUME i = j - 1 PROVE FALSE
        BY <4>1, <2>2, <2>p
      <4> QED BY <4>1
    <3> QED BY <3>1, <3>2, <3>3, <1>6, <1>9
  <2>3. CASE i > p /\ j > p
    <3>1. /\ i - 1 \in 1..Len(old) /\ new[i] = old[i - 1]
          /\ j - 1 \in 1..Len(old) /\ new[j] = old[j - 1]
      BY <2>3, <1>b
    <3>2. i - 1 < j - 1
      BY <1>9, <2>p
    <3> QED BY <3>1, <3>2, <1>6, <1>9
  <2>4. CASE i = p
    <3>1. j > p /\ j - 1 >= p
      BY <2>4, <2>p, <1>9
    <3>2. j - 1 \in 1..Len(old) /\ new[j] = old[j - 1]
      BY <3>1, <1>b
    <3> QED BY <2>4, <3>1, <3>2, <1>1, <1>5, <1>8, <1>9
  <2>5. CASE j = p
    <3>1. i < p
      BY <2>5, <1>9
    <3>2. i \in 1..Len(old) /\ new[i] = old[i]
      BY <3>1, <1>a
    <3>3. old[i][1] = t
      BY <2>5, <3>2, <1>1, <1>8, <1>9
    <3>4. old[i][2] < calls[t]
      BY <3>2, <3>3, <1>6
    <3> QED BY <2>5, <3>2, <3>4, <1>1, <1>8
  <2>6. (i < p \/ i = p \/ i > p) /\ (j < p \/ j = p \/ j > p)
    BY <2>p
  <2>7. ~(i > p /\ j < p)
    BY <2>p, <1>9
  <2> QED BY <2>1, <2>2, <2>3, <2>4, <2>5, <2>6, <2>7
<1>10. ASSUME NEW i \in 1..Len(new)
       PROVE  /\ new[i][2] <= calls[new[i][1]]
              /\ new[i][1] \in writers \ {t} => new[i][2] < calls[new[i][1]]
  <2>1. CASE i = p
    BY <2>1, <1>1, <1>8
  <2>2. CASE i < p
    BY <2>2, <1>6, <1>a
  <2>3. CASE i > p
    BY <2>3, <1>6, <1>b
  <2> QED BY <2>1, <2>2, <2>3, <1>2, <1>4
<1>11. ASSUME NEW u \in Threads, NEW n \in 1..calls[u]
       PROVE  \/ u \in writers \ {t} /\ n = calls[u]
              \/ \E i \in 1..Len(new) : new[i] = <<u, n>>
  <2>1. CASE u = t /\ n = calls[t]
    <3>1. m = <<u, n>>
      BY <2>1 DEF m
    <3> QED BY <3>1, <1>8
  <2>2. CASE \E i \in 1..Len(old) : old[i] = <<u, n>>
    <3>1. PICK i \in 1..Len(old) : old[i] = <<u, n>>
      BY <2>2
    <3>2. CASE i < p
      <4>1. i \in 1..Len(new)
        BY <3>2, <1>2, <1>4
      <4> QED BY <3>1, <3>2, <4>1, <1>a
    <3>3. CASE ~(i < p)
      <4>1. i + 1 \in 1..Len(new) /\ i + 1 > p /\ (i + 1) - 1 = i
        BY <3>3, <1>2, <1>4
      <4>2. new[i + 1] = old[i]
        BY <4>1, <1>b
      <4> QED BY <3>1, <4>1, <4>2
    <3> QED BY <3>2, <3>3
  <2> QED BY <2>1, <2>2, <1>6
<1> QED BY <1>9, <1>10, <1>11 DEF ExactOutput, new, m

-----------------------------------------------------------------------------
\* An exception that leaves input() leaves it announced; a thread that writes for
\* itself has nothing in the queue.
EscapeAnnounced == pc = "escaped" => current
WritersWaitForNobody == Writers \cap Owners(Unwritten) = {}

OutputInv ==
  /\ ExactOutput(Delivered, printed, Writers)
  /\ EscapeAnnounced
  /\ WritersWaitForNobody

\* A queue that is split, or whose front has been written, is the same queue.
LEMMA SplitQueue ==
  ASSUME NEW S, NEW s \in Seq(S), NEW q \in Seq(S)
  PROVE  /\ \A n \in 0..Len(q) :
              (s \o SubSeq(q, 1, n)) \o SubSeq(q, n + 1, Len(q)) = s \o q
         /\ q # <<>> => Append(s, Head(q)) \o Tail(q) = s \o q
<1>1. ASSUME NEW n \in 0..Len(q)
      PROVE  (s \o SubSeq(q, 1, n)) \o SubSeq(q, n + 1, Len(q)) = s \o q
  <2>1. SubSeq(q, 1, n) \in Seq(S) /\ SubSeq(q, n + 1, Len(q)) \in Seq(S)
    BY SubSeqProperties
  <2>2. SubSeq(q, 1, n) \o SubSeq(q, n + 1, Len(q)) = q
    <3>1. /\ 1 \in 1..(Len(q) + 1) /\ n \in (1 - 1)..Len(q)
          /\ Len(q) \in n..Len(q)
      BY LenProperties
    <3>2. SubSeq(q, 1, n) \o SubSeq(q, n + 1, Len(q)) = SubSeq(q, 1, Len(q))
      BY <3>1, ConcatAdjacentSubSeq, Zenon
    <3> QED BY <3>2, SubSeqFull
  <2>3. PICK a \in Seq(S), b \in Seq(S) :
            a = SubSeq(q, 1, n) /\ b = SubSeq(q, n + 1, Len(q))
    BY <2>1
  <2>4. (s \o a) \o b = s \o (a \o b)
    BY SMTT(30)
  <2> QED BY <2>2, <2>3, <2>4
<1>2. ASSUME q # <<>> PROVE Append(s, Head(q)) \o Tail(q) = s \o q
  <2>1. /\ Head(q) \in S /\ Tail(q) \in Seq(S) /\ Len(Tail(q)) = Len(q) - 1
        /\ \A i \in 1..(Len(q) - 1) : Tail(q)[i] = q[i + 1]
        /\ Head(q) = q[1] /\ Len(q) \in Nat \ {0} /\ Len(s) \in Nat
    BY <1>2, HeadTailProperties, EmptySeq
  <2>2. /\ Append(s, Head(q)) \in Seq(S) /\ Len(Append(s, Head(q))) = Len(s) + 1
        /\ \A i \in 1..Len(s) : Append(s, Head(q))[i] = s[i]
        /\ Append(s, Head(q))[Len(s) + 1] = Head(q)
    BY <2>1, AppendProperties
  <2> DEFINE a == Append(s, Head(q)) \o Tail(q)
             b == s \o q
  <2>3. /\ a \in Seq(S) /\ Len(a) = Len(s) + Len(q)
        /\ \A i \in 1..(Len(s) + Len(q)) :
             a[i] = IF i <= Len(s) + 1 THEN Append(s, Head(q))[i]
                                       ELSE Tail(q)[i - (Len(s) + 1)]
    BY <2>1, <2>2, ConcatProperties
  <2>4. /\ b \in Seq(S) /\ Len(b) = Len(s) + Len(q)
        /\ \A i \in 1..(Len(s) + Len(q)) :
             b[i] = IF i <= Len(s) THEN s[i] ELSE q[i - Len(s)]
    BY ConcatProperties
  <2> HIDE DEF a, b
  <2>5. ASSUME NEW i \in 1..(Len(s) + Len(q)) PROVE a[i] = b[i]
    <3>1. CASE i <= Len(s)
      BY <3>1, <2>1, <2>2, <2>3, <2>4
    <3>2. CASE i = Len(s) + 1
      BY <3>2, <2>1, <2>2, <2>3, <2>4
    <3>3. CASE i > Len(s) + 1
      <4>1. i - (Len(s) + 1) \in 1..(Len(q) - 1)
        BY <3>3, <2>1
      <4>2. a[i] = q[(i - (Len(s) + 1)) + 1]
        BY <3>3, <4>1, <2>1, <2>3
      <4>3. (i - (Len(s) + 1)) + 1 = i - Len(s)
        BY <2>1
      <4> QED BY <3>3, <4>2, <4>3, <2>1, <2>4
    <3> QED BY <3>1, <3>2, <3>3, <2>1
  <2>6. a = b
    BY <2>3, <2>4, <2>5, SeqEqual
  <2> QED BY <2>6 DEF a, b
<1> QED BY <1>1, <1>2

\* What is left of a queue belongs to threads that had something in it.
LEMMA RestOwners ==
  ASSUME NEW S, NEW q \in Seq(S)
  PROVE  /\ \A n \in 0..Len(q) : Owners(SubSeq(q, n + 1, Len(q))) \subseteq Owners(q)
         /\ q # <<>> => Owners(Tail(q)) \subseteq Owners(q)
<1>1. ASSUME NEW n \in 0..Len(q)
      PROVE  Owners(SubSeq(q, n + 1, Len(q))) \subseteq Owners(q)
  <2> DEFINE r == SubSeq(q, n + 1, Len(q))
  <2>1. /\ Len(q) \in Nat /\ Len(r) = Len(q) - n
        /\ \A i \in 1..(Len(q) - n) : r[i] = q[n + i]
    BY SubSeqProperties
  <2> HIDE DEF r
  <2>2. \A i \in 1..Len(r) : n + i \in 1..Len(q) /\ r[i] = q[n + i]
    BY <2>1
  <2>3. Owners(r) \subseteq Owners(q)
    BY <2>2 DEF Owners
  <2> QED BY <2>3 DEF r
<1>2. ASSUME q # <<>> PROVE Owners(Tail(q)) \subseteq Owners(q)
  <2>1. \A i \in 1..Len(Tail(q)) : i + 1 \in 1..Len(q) /\ Tail(q)[i] = q[i + 1]
    BY <1>2, HeadTailProperties
  <2> QED BY <2>1 DEF Owners
<1> QED BY <1>1, <1>2

\* The reader moves messages from the queue to the screen and changes nothing of
\* what is delivered, whether it writes them all, some, or one without the mutex.
LEMMA ReaderDelivers ==
  ASSUME TypeOK, FlushHasFront,
         ShowMessages \/ ShowMessagesFails \/ FlushWrite \/ FlushPop
  PROVE  /\ Delivered' = Delivered /\ UNCHANGED <<printed, tpc>>
         /\ Owners(Unwritten)' \subseteq Owners(Unwritten)
<1>1. messages \in Seq(Threads \X Nat) /\ screen \in Seq(Threads \X Nat)
  BY DEF TypeOK, QueueTypes
<1>2. UNCHANGED <<printed, tpc>>
  BY DEF ShowMessages, ShowMessagesFails, FlushWrite, FlushPop, callVars
<1>3. CASE ShowMessages \/ ShowMessagesFails
  <2>1. pc # "flushed" /\ pc' # "flushed"
    BY <1>3 DEF ShowMessages, ShowMessagesFails
  <2>2. Len(messages) \in 0..Len(messages)
    BY <1>1, LenProperties
  <2>3. CASE UNCHANGED <<messages, screen>>
    BY <1>2, <2>1, <2>3 DEF Delivered, Unwritten
  <2>4. CASE \E n \in 0..Len(messages) : ShowFirst(n)
    <3>1. PICK n \in 0..Len(messages) : ShowFirst(n)
      BY <2>4
    <3>2. Delivered' = Delivered
      BY <1>1, <2>1, <3>1, SplitQueue DEF Delivered, Unwritten, ShowFirst
    <3>3. Owners(messages') \subseteq Owners(messages)
      BY <1>1, <3>1, RestOwners DEF ShowFirst
    <3> QED BY <1>2, <2>1, <3>2, <3>3 DEF Unwritten
  <2> QED BY <1>3, <2>2, <2>3, <2>4 DEF ShowMessages, ShowMessagesFails
<1>4. CASE FlushWrite
  <2>1. /\ pc # "flushed" /\ pc' = "flushed" /\ messages # <<>>
        /\ screen' = Append(screen, Head(messages)) /\ messages' = messages
    BY <1>4 DEF FlushWrite, FlushHasFront, sharedVars
  <2>2. Delivered' = Delivered
    BY <1>1, <2>1, SplitQueue DEF Delivered, Unwritten
  <2>3. Owners(Tail(messages)) \subseteq Owners(messages)
    BY <1>1, <2>1, RestOwners
  <2> QED BY <1>2, <2>1, <2>2, <2>3 DEF Unwritten
<1>5. CASE FlushPop
  <2>1. /\ pc = "flushed" /\ pc' # "flushed" /\ screen' = screen
        /\ messages' = Tail(messages)
    BY <1>5 DEF FlushPop, PopFront, LeaveOrFlush
  <2>2. Unwritten' = Unwritten
    BY <2>1 DEF Unwritten
  <2> QED BY <1>2, <2>1, <2>2 DEF Delivered
<1> QED BY <1>3, <1>4, <1>5

\* A call of print() adds its message to what is delivered, last of all, or
\* leaves it to the thread.
LEMMA PrintDelivers ==
  ASSUME TypeOK, ControlInv, OutputInv, NEW t \in Threads, PrintMessage(t)
  PROVE  OutputInv'
<1> DEFINE m == <<t, printed[t] + 1>>
           calls2 == [printed EXCEPT ![t] = @ + 1]
<1>1. /\ messages \in Seq(Threads \X Nat) /\ screen \in Seq(Threads \X Nat)
      /\ printed \in [Threads -> Nat] /\ tpc \in [Threads -> {"idle", "k", "m", "write"}]
      /\ m \in Threads \X Nat /\ calls2 \in [Threads -> Nat] /\ calls2[t] = printed[t] + 1
  BY DEF TypeOK, QueueTypes, CallTypes
<1>2. /\ tpc[t] = "idle" /\ t \notin Writers /\ printed' = calls2
      /\ messages' = IF current THEN Append(messages, m) ELSE messages
      /\ tpc' = [tpc EXCEPT ![t] = IF current THEN "m" ELSE "write"]
      /\ pc' = pc /\ screen' = screen /\ current' = current
  BY DEF PrintMessage, Writers
<1>3. /\ Unwritten \in Seq(Threads \X Nat)
      /\ Delivered \in Seq(Threads \X Nat)
  <2>1. Unwritten \in Seq(Threads \X Nat)
    BY <1>1, HeadTailProperties DEF Unwritten, ControlInv, FlushHasFront
  <2> QED BY <1>1, <2>1, ConcatProperties DEF Delivered
<1>4. Writers \in SUBSET Threads
  BY DEF Writers
<1>5. ExactOutput(Delivered, calls2, Writers \cup {t})
  BY <1>1, <1>2, <1>3, <1>4, MessageMade DEF OutputInv
<1>6. EscapeAnnounced'
  BY <1>2 DEF OutputInv, EscapeAnnounced
<1> HIDE DEF m, calls2
<1>7. CASE current
  <2>1. Unwritten' = Append(Unwritten, m)
    <3>1. messages # <<>> => Tail(Append(messages, m)) = Append(Tail(messages), m)
      BY <1>1, HeadTailAppend
    <3> QED BY <1>2, <1>7, <3>1 DEF Unwritten, ControlInv, FlushHasFront
  <2>2. Delivered' = Append(Delivered, m)
    <3>1. screen \o Append(Unwritten, m) = Append(screen \o Unwritten, m)
      <4>1. PICK a \in Seq(Threads \X Nat), b \in Seq(Threads \X Nat),
                 e \in Threads \X Nat :
                a = screen /\ b = Unwritten /\ e = m
        BY <1>1, <1>3
      <4>2. a \o Append(b, e) = Append(a \o b, e)
        BY AppendLast
      <4> QED BY <4>1, <4>2
    <3> QED BY <1>2, <2>1, <3>1 DEF Delivered
  <2>3. Writers' = Writers
    BY <1>1, <1>2, <1>7 DEF Writers
  <2>4. ExactOutput(Append(Delivered, m), calls2, Writers)
    <3>1. <<>> \in Seq(Threads \X Nat) /\ Delivered \o <<>> = Delivered
      BY <1>3, ConcatEmptySeq
    <3>2. t \in Writers \cup {t} /\ t \notin Owners(<<>>)
      BY DEF Owners
    <3>3. Writers \cup {t} \in SUBSET Threads
      BY <1>4
    <3>4. ExactOutput(Append(Delivered, <<t, calls2[t]>>) \o <<>>, calls2,
                      (Writers \cup {t}) \ {t})
      BY ZenonT(30), <1>1, <1>3, <1>5, <3>1, <3>2, <3>3, MessageInserted
    <3>5. <<t, calls2[t]>> = m /\ (Writers \cup {t}) \ {t} = Writers
      BY <1>1, <1>2 DEF m
    <3>6. Append(Delivered, m) \o <<>> = Append(Delivered, m)
      BY <1>1, <1>3, AppendProperties, ConcatEmptySeq
    <3> QED BY <3>4, <3>5, <3>6
  <2>5. Owners(Append(Unwritten, m)) = Owners(Unwritten) \cup {t}
    <3>1. /\ Len(Append(Unwritten, m)) = Len(Unwritten) + 1 /\ Len(Unwritten) \in Nat
          /\ \A i \in 1..Len(Unwritten) : Append(Unwritten, m)[i] = Unwritten[i]
          /\ Append(Unwritten, m)[Len(Unwritten) + 1] = m /\ m[1] = t
      BY <1>1, <1>3, AppendProperties DEF m
    <3> DEFINE a == Append(Unwritten, m)
               k == Len(Unwritten)
    <3>2. k \in Nat /\ Len(a) = k + 1 /\ a[k + 1][1] = t
          /\ \A i \in 1..k : a[i] = Unwritten[i]
      BY <3>1
    <3>k. k = Len(Unwritten)
      OBVIOUS
    <3> HIDE DEF a, k
    <3>3. \A i \in 1..(k + 1) : i \in 1..k \/ i = k + 1
      BY <3>2
    <3>4. 1..k \subseteq 1..(k + 1) /\ k + 1 \in 1..(k + 1)
      BY <3>2
    <3>5. {a[i][1] : i \in 1..(k + 1)} = {Unwritten[i][1] : i \in 1..k} \cup {t}
      BY <3>2, <3>3, <3>4, ZenonT(30)
    <3> QED BY <3>2, <3>5, <3>k DEF Owners, a
  <2>6. WritersWaitForNobody'
    BY <1>2, <2>1, <2>3, <2>5 DEF OutputInv, WritersWaitForNobody
  <2> QED BY <1>2, <1>6, <2>2, <2>3, <2>4, <2>6 DEF OutputInv
<1>8. CASE ~current
  <2>1. messages = <<>> /\ pc = "idle"
    BY <1>8 DEF ControlInv, InputAnnounced, NothingLeftBehind, OutputInv,
       EscapeAnnounced, TypeOK, ReaderTypes
  <2>2. Unwritten' = <<>> /\ Delivered' = Delivered
    BY <1>2, <1>8, <2>1 DEF Unwritten, Delivered
  <2>3. Writers' = Writers \cup {t}
    BY <1>1, <1>2, <1>8 DEF Writers
  <2>4. WritersWaitForNobody'
    BY <2>2 DEF WritersWaitForNobody, Owners
  <2> QED BY <1>2, <1>5, <1>6, <2>2, <2>3, <2>4 DEF OutputInv
<1> QED BY <1>7, <1>8

\* A thread that writes for itself puts its last message where the screen ends.
LEMMA DirectDelivers ==
  ASSUME TypeOK, ControlInv, OutputInv, NEW t \in Threads, DirectWrite(t)
  PROVE  OutputInv'
<1>1. /\ messages \in Seq(Threads \X Nat) /\ screen \in Seq(Threads \X Nat)
      /\ printed \in [Threads -> Nat] /\ tpc \in [Threads -> {"idle", "k", "m", "write"}]
  BY DEF TypeOK, QueueTypes, CallTypes
<1>2. /\ t \in Writers /\ screen' = Append(screen, <<t, printed[t]>>)
      /\ tpc' = [tpc EXCEPT ![t] = "idle"]
      /\ UNCHANGED <<pc, messages, printed, current>>
  BY DEF DirectWrite, Writers, sharedVars
<1>3. Unwritten \in Seq(Threads \X Nat) /\ Unwritten' = Unwritten
  BY <1>1, <1>2, HeadTailProperties DEF Unwritten, ControlInv, FlushHasFront
<1>4. Writers \in SUBSET Threads /\ Writers' = Writers \ {t}
  BY <1>1, <1>2 DEF Writers
<1>5. t \notin Owners(Unwritten)
  BY <1>2 DEF OutputInv, WritersWaitForNobody
<1>6. ExactOutput(Append(screen, <<t, printed[t]>>) \o Unwritten, printed, Writers \ {t})
  BY <1>1, <1>2, <1>3, <1>4, <1>5, MessageInserted DEF OutputInv, Delivered
<1> QED
  BY <1>2, <1>3, <1>4, <1>6
  DEF OutputInv, Delivered, EscapeAnnounced, WritersWaitForNobody

\* Every step keeps what is delivered exact.
LEMMA OutputStep ==
  ASSUME TypeOK, ControlInv, OutputInv, [Next]_vars
  PROVE  OutputInv'
<1>1. ASSUME NEW t \in Threads, PrintMessage(t) \/ DirectWrite(t) PROVE OutputInv'
  BY <1>1, PrintDelivers, DirectDelivers
<1>2. CASE ShowMessages \/ ShowMessagesFails \/ FlushWrite \/ FlushPop
  <2>1. /\ Delivered' = Delivered /\ UNCHANGED <<printed, tpc>>
        /\ Owners(Unwritten)' \subseteq Owners(Unwritten)
    BY <1>2, ReaderDelivers DEF ControlInv
  <2>2. Writers' = Writers
    BY <2>1 DEF Writers
  <2>3. pc' # "escaped"
    BY <1>2 DEF ShowMessages, ShowMessagesFails, FlushWrite, FlushPop, LeaveOrFlush
  <2> QED BY <2>1, <2>2, <2>3 DEF OutputInv, EscapeAnnounced, WritersWaitForNobody
<1>3. ASSUME UNCHANGED <<messages, screen, printed>>,
             Writers' = Writers, (pc = "flushed") = (pc' = "flushed"),
             pc' = "escaped" => current'
      PROVE  OutputInv'
  <2>1. Unwritten' = Unwritten /\ Delivered' = Delivered
    BY <1>3 DEF Unwritten, Delivered
  <2> QED BY <1>3, <2>1 DEF OutputInv, EscapeAnnounced, WritersWaitForNobody
<1>4. ASSUME NEW t \in Threads, EmulateKeyPress(t) \/ SetPrompt(t) \/ Notify(t)
      PROVE  OutputInv'
  <2>1. UNCHANGED <<messages, screen, printed, pc, current>>
    BY <1>4 DEF EmulateKeyPress, SetPrompt, Notify, sharedVars
  <2>2. Writers' = Writers
    BY <1>4 DEF EmulateKeyPress, SetPrompt, Notify, Writers, TypeOK, CallTypes
  <2> QED BY <1>3, <2>1, <2>2 DEF OutputInv, EscapeAnnounced
<1>5. ASSUME UNCHANGED <<messages, screen, callVars>>,
             pc # "flushed", pc' # "flushed", pc' = "escaped" => current'
      PROVE  OutputInv'
  BY <1>3, <1>5 DEF Writers, callVars
<1>6. ASSUME UNCHANGED <<messages, screen, callVars, pc, current>> PROVE OutputInv'
  BY <1>3, <1>6 DEF Writers, callVars, OutputInv, EscapeAnnounced
<1>7. CASE Type \/ Resize
  BY <1>6, <1>7 DEF Type, Resize, sharedVars
<1>8. CASE Start
  BY <1>5, <1>8 DEF Start
<1>9. CASE ReadChar /\ ~ShowMessages
  <2>1. CASE ReadQueued \/ GotQueued
    BY <1>5, <2>1 DEF ReadQueued, GotQueued, PopKey
  <2>2. CASE ReadWait \/ TimedOut \/ ReadTyped \/ ReadRaw
    BY <1>5, <2>2 DEF ReadWait, TimedOut, ReadTyped, ReadRaw, TakeByte, sharedVars
  <2>3. CASE WakeKey \/ WakeMessage \/ WakeResize
    BY <1>5, <2>3 DEF WakeKey, WakeMessage, WakeResize, WakeByte, sharedVars
  <2>4. CASE WakeTyped \/ GotNone
    BY <1>5, <2>4 DEF WakeTyped, GotNone, GoesOn, sharedVars
  <2> QED BY <1>9, <2>1, <2>2, <2>3, <2>4 DEF ReadChar
<1>10. CASE Handler
  <2>1. CASE HandlerEdits \/ HandlerSetsPrompt
    BY <1>6, <2>1 DEF HandlerEdits, HandlerSetsPrompt, sharedVars
  <2>2. CASE HandlerEmulates
    BY <1>3, <2>2 DEF HandlerEmulates, Writers
  <2>3. CASE HandlerReads \/ HandlerReturns \/ HandlerEndsLine
    BY <1>5, <2>3 DEF HandlerReads, HandlerReturns, GoesOn, HandlerEndsLine,
         sharedVars
  <2> QED BY <1>10, <2>1, <2>2, <2>3 DEF Handler
<1>11. CASE WriteNewline \/ Finalize
  BY <1>5, <1>11 DEF WriteNewline, GoesOn, Finalize, LeaveOrFlush, sharedVars
<1>12. CASE WriteFails \/ FlushFails
  <2>1. current' = current /\ (pc = "flush" => current)
    BY <1>12 DEF WriteFails, FlushFails, ControlInv, InputAnnounced, Finishing
  <2> QED BY <1>5, <1>12, <2>1 DEF WriteFails, FlushFails, sharedVars
<1>13. CASE UNCHANGED vars
  BY <1>6, <1>13 DEF vars, sharedVars
<1> QED
  BY <1>1, <1>2, <1>4, <1>7, <1>8, <1>9, <1>10, <1>11, <1>12, <1>13
  DEF Next, ThreadStep, Leave, Fails

-----------------------------------------------------------------------------
IInv ==
  /\ TypeOK
  /\ ControlInv
  /\ MessageWakesReader
  /\ KeyWakesReader
  /\ RefreshInv
  /\ KeysExact
  /\ OutputInv

\* The inductive invariant holds before the first call.
LEMMA InitHolds == Init => IInv
<1> SUFFICES ASSUME Init PROVE IInv
  OBVIOUS
<1> USE DEF Init
<1>1. QueueTypes
  BY DEF QueueTypes
<1>a. ReaderTypes
  BY DEF ReaderTypes, Age
<1>b. CallTypes
  BY DEF CallTypes
<1>2. ControlInv
  BY DEF ControlInv, FlushHasFront, InputAnnounced, NothingLeftBehind, InLoop,
         Finishing
<1>3. MessageWakesReader /\ KeyWakesReader /\ RefreshInv
  BY DEF MessageWakesReader, KeyWakesReader, RefreshInv, SkipRemembered,
         SkippedRefreshIsScheduled, InLoop
<1>4. KeysExact
  <2>1. /\ Len(keyPresses) = 0
        /\ \A c \in Callers : emitted[c] = 0 /\ handled[c] = 0
    OBVIOUS
  <2> QED BY <2>1 DEF KeysExact, ExactQueue
<1>5. OutputInv
  <2>1. Unwritten = <<>> /\ Delivered = <<>> /\ Writers = {}
    BY DEF Unwritten, Delivered, Writers
  <2>2. ExactOutput(<<>>, printed, {})
    BY DEF ExactOutput
  <2>3. EscapeAnnounced /\ WritersWaitForNobody
    BY <2>1 DEF EscapeAnnounced, WritersWaitForNobody
  <2> QED BY <2>1, <2>2, <2>3 DEF OutputInv
<1> QED BY <1>1, <1>a, <1>b, <1>2, <1>3, <1>4, <1>5 DEF IInv, TypeOK

\* Every step of any thread keeps the inductive invariant.
LEMMA StepKeeps == IInv /\ [Next]_vars => IInv'
<1> SUFFICES ASSUME IInv, [Next]_vars PROVE IInv'
  OBVIOUS
<1>1. TypeOK'
  BY QueueTypesStep, ReaderTypesStep, CallTypesStep DEF IInv, ControlInv, TypeOK
<1>2. ControlInv' /\ MessageWakesReader' /\ KeyWakesReader' /\ RefreshInv'
  BY ControlStep, MessageWakesReaderStep, KeyWakesReaderStep, RefreshStep DEF IInv
<1>3. KeysExact' /\ OutputInv'
  BY KeysStep, OutputStep DEF IInv
<1> QED BY <1>1, <1>2, <1>3 DEF IInv

\* The inductive invariant holds in every reachable state.
THEOREM Inductive == Spec => []IInv
BY InitHolds, StepKeeps, PTL DEF Spec

\* Every variable of the channel keeps its type.
THEOREM Typing == Spec => []TypeOK
<1>1. IInv => TypeOK
  BY DEF IInv
<1> QED BY <1>1, Inductive, PTL

\* No lost wake-up: a queued message or a pending prompt that the reader has to
\* find by itself always has its byte in the pipe or coming.
THEOREM NoLostWakeUp == Spec => []MessageWakesReader
<1>1. IInv => MessageWakesReader
  BY DEF IInv
<1> QED BY <1>1, Inductive, PTL

\* No lost wake-up for keys: a key emulated while the reader selects has its byte
\* in the pipe or coming.
THEOREM NoLostKeyWakeUp == Spec => []KeyWakesReader
<1>1. IInv => KeyWakesReader
  BY DEF IInv
<1> QED BY <1>1, Inductive, PTL

\* Whatever threads print, before, during and after an input(), gets to the screen
\* once, in the order of each thread, with any number of failing writes.
THEOREM NoMessageLost == Spec => []MessagesExactlyOnce
<1>1. IInv => MessagesExactlyOnce
  <2>1. SUFFICES ASSUME IInv PROVE MessagesExactlyOnce
    OBVIOUS
  <2>2. ASSUME NEW t \in Threads, t \in Writers PROVE tpc[t] = "write"
    BY <2>2 DEF Writers
  <2>3. ExactOutput(Delivered, printed, Writers)
    BY <2>1 DEF IInv, OutputInv
  <2> QED BY <2>2, <2>3 DEF ExactOutput, MessagesExactlyOnce
<1> QED BY <1>1, Inductive, PTL

\* Every emulated key gets to a handler once, in the order of its caller.
THEOREM NoKeyLost == Spec => []KeysExactlyOnce
<1>1. IInv => KeysExactlyOnce
  BY DEF IInv, KeysExact, ExactQueue, KeysExactlyOnce
<1> QED BY <1>1, Inductive, PTL

\* The prompt on the screen is the last one asked for, or the last one asked for is
\* pending, in a program whose key handlers set no prompt themselves.
THEOREM LatestPromptWins ==
  ASSUME ~HandlerPrompts PROVE Spec => []PromptIsLatest
<1>1. Init => PromptIsLatest
  BY DEF Init, PromptIsLatest, InLoop, Finishing
<1>2. IInv /\ PromptIsLatest /\ [Next]_vars => PromptIsLatest'
  BY PromptStep DEF IInv
<1> QED BY <1>1, <1>2, Inductive, PTL DEF Spec

\* When input() is over the queue of messages is empty and threads write for
\* themselves, whatever failed before.
THEOREM InputLeavesNothing == Spec => []NothingLeftBehind
<1>1. IInv => NothingLeftBehind
  BY DEF IInv, ControlInv
<1> QED BY <1>1, Inductive, PTL

\* A refresh skipped by a key handler is always made up for.
THEOREM RefreshScheduled == Spec => []SkippedRefreshIsScheduled
<1>1. IInv => SkippedRefreshIsScheduled
  BY DEF IInv, RefreshInv
<1> QED BY <1>1, Inductive, PTL
=============================================================================
