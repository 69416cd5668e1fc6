----------------------------- MODULE EventLoop -----------------------------
(***************************************************************************)
(* The channel between the thread that sits in Replxx::input() (the        *)
(* reader) and every other thread that calls print(), set_prompt() or      *)
(* emulate_key_press(), with the window-change signal and the terminal.    *)
(*                                                                         *)
(* Shared state, protected by _mutex: the queue of emulated keys, the      *)
(* queue of messages to print, the pending prompt and _currentThread.      *)
(* A caller changes the shared state, writes one byte to a pipe and, being *)
(* under the mutex for both, keeps the mutex while the pipe is full.  The  *)
(* reader selects on the terminal and on the pipe, in Terminal::           *)
(* wait_for_input, without the mutex.                                      *)
(*                                                                         *)
(* A critical section with no blocking call in it is one step.  A message  *)
(* or an emulated key is the pair <<its caller, its number>>; a typed byte *)
(* carries no identity.  Refresh timing (a refresh that comes less than    *)
(* RAPID_REFRESH_MS after the last one is skipped) is a free choice.       *)
(***************************************************************************)
EXTENDS Integers, Sequences

CONSTANTS
  Threads,        \* the threads other than the one that calls input()
  Reader,         \* the thread that calls input()
  NoThread,       \* no holder of the mutex
  PipeCapacity,   \* bytes the pipe holds before write() blocks
  MaxPrints,      \* bound: print() calls of one thread
  MaxKeys,        \* bound: emulate_key_press() calls of one thread
  MaxPrompts,     \* bound: set_prompt() calls of one thread
  MaxTypeAhead,   \* bound: typed bytes that wait in the terminal
  MaxResizes,     \* bound: window-change signals
  MaxFailures,    \* bound: write() calls of the reader that fail
  HandlerPrompts, \* whether key handlers call set_prompt()
  HintDelay       \* whether set_hint_delay() was given a positive delay

ASSUME ThreadsAssumption ==
  Reader \notin Threads /\ NoThread \notin Threads \cup {Reader}

ASSUME BoundsAssumption ==
  /\ PipeCapacity \in Nat \ {0}
  /\ {MaxPrints, MaxKeys, MaxPrompts, MaxTypeAhead, MaxResizes, MaxFailures}
        \subseteq Nat
  /\ {HandlerPrompts, HintDelay} \subseteq BOOLEAN

Callers == Threads \cup {Reader}

VARIABLES
  lock,           \* holder of _mutex across a blocking write to the pipe
  current,        \* _currentThread # thread::id(): an input() is in progress
  keyPresses,     \* _keyPresses
  messages,       \* _messages
  updatePrompt,   \* _updatePrompt
  asyncPrompt,    \* is _asyncPrompt the last prompt anybody asked for?
  prompt,         \* is _prompt the last prompt anybody asked for?
  pipe,           \* bytes in the interrupt pipe, oldest first
  tty,            \* number of typed bytes not read yet
  pc,             \* where the reader is
  caught,         \* the reader is in the catch block of input()
  timer,          \* hintDelay of read_char: none, rapid refresh, or hint
  refreshSkipped, \* _refreshSkipped
  stale,          \* why the screen does not show the line as it is, or "no"
  tpc,            \* where each other thread is
  printed,        \* print() calls of each thread
  screen,         \* messages written to the terminal, oldest first
  emitted,        \* emulate_key_press() calls of each caller
  handled,        \* number of the last key of each caller given to a handler
  prompted,       \* set_prompt() calls of each thread
  resizes, failures

sharedVars == <<keyPresses, messages, updatePrompt, asyncPrompt>>
drawVars   == <<timer, refreshSkipped, stale>>
callVars   == <<tpc, printed, emitted, prompted>>
vars == <<lock, current, sharedVars, prompt, pipe, tty, pc, caught, drawVars,
          callVars, screen, handled, resizes, failures>>

Age == {"latest", "old"}

\* Inside get_input_line: the reader will look at the pipe again.
InLoop == {"read", "wait", "message", "got", "block", "partial", "handle", "raw"}
\* In the middle of a key, or in a handler that reads the terminal by itself: the
\* reader blocks until the user types on and does not look at the pipe.
AwaitingUser == {"partial", "raw"}
\* From there to the end of finalize_input.
Finishing == {"finish", "finalize", "flush", "flushed"}

QueueTypes ==
  /\ keyPresses \in Seq(Callers \X Nat)
  /\ messages \in Seq(Threads \X Nat)
  /\ screen \in Seq(Threads \X Nat)
  /\ pipe \in Seq({"k", "m", "r"})

ReaderTypes ==
  /\ current \in BOOLEAN /\ updatePrompt \in BOOLEAN /\ caught \in BOOLEAN
  /\ asyncPrompt \in Age /\ prompt \in Age
  /\ pc \in {"idle", "escaped"} \cup InLoop \cup Finishing
  /\ timer \in {"none", "rapid", "hint"}
  /\ refreshSkipped \in BOOLEAN
  /\ stale \in {"no", "key", "resize", "repaint"}

CallTypes ==
  /\ lock \in Threads \cup {NoThread}
  /\ tpc \in [Threads -> {"idle", "k", "m", "write"}]
  /\ printed \in [Threads -> Nat] /\ prompted \in [Threads -> Nat]
  /\ emitted \in [Callers -> Nat] /\ handled \in [Callers -> Nat]
  /\ tty \in Nat /\ resizes \in Nat /\ failures \in Nat

TypeOK == QueueTypes /\ ReaderTypes /\ CallTypes

Init ==
  /\ lock = NoThread /\ current = FALSE
  /\ keyPresses = <<>> /\ messages = <<>>
  /\ updatePrompt = FALSE /\ asyncPrompt = "old" /\ prompt = "old"
  /\ pipe = <<>> /\ tty = 0
  /\ pc = "idle" /\ caught = FALSE
  /\ timer = "none" /\ refreshSkipped = FALSE
  /\ stale = "no"
  /\ tpc = [t \in Threads |-> "idle"]
  /\ printed = [t \in Threads |-> 0] /\ screen = <<>>
  /\ emitted = [c \in Callers |-> 0] /\ handled = [c \in Callers |-> 0]
  /\ prompted = [t \in Threads |-> 0]
  /\ resizes = 0 /\ failures = 0

-----------------------------------------------------------------------------
(* The threads other than the reader.                                       *)

\* emulate_key_press: the key is queued under the mutex; a byte follows, under
\* the same mutex, only when an input() of another thread is in progress.
EmulateKeyPress(t) ==
  /\ lock = NoThread /\ tpc[t] = "idle" /\ emitted[t] < MaxKeys
  /\ emitted' = [emitted EXCEPT ![t] = @ + 1]
  /\ keyPresses' = Append(keyPresses, <<t, emitted[t] + 1>>)
  /\ lock' = IF current THEN t ELSE NoThread
  /\ tpc' = [tpc EXCEPT ![t] = IF current THEN "k" ELSE "idle"]
  /\ UNCHANGED <<current, messages, updatePrompt, asyncPrompt, prompt, pipe, tty,
                 pc, caught, drawVars, printed, prompted, screen, handled,
                 resizes, failures>>

\* print: with no input() in progress the thread writes to the terminal itself,
\* after it has released the mutex.
PrintMessage(t) ==
  /\ lock = NoThread /\ tpc[t] = "idle" /\ printed[t] < MaxPrints
  /\ printed' = [printed EXCEPT ![t] = @ + 1]
  /\ messages' = IF current THEN Append(messages, <<t, printed[t] + 1>>)
                            ELSE messages
  /\ lock' = IF current THEN t ELSE NoThread
  /\ tpc' = [tpc EXCEPT ![t] = IF current THEN "m" ELSE "write"]
  /\ UNCHANGED <<current, keyPresses, updatePrompt, asyncPrompt, prompt, pipe,
                 tty, pc, caught, drawVars, emitted, prompted, screen, handled,
                 resizes, failures>>

DirectWrite(t) ==
  /\ tpc[t] = "write"
  /\ screen' = Append(screen, <<t, printed[t]>>)
  /\ tpc' = [tpc EXCEPT ![t] = "idle"]
  /\ UNCHANGED <<lock, current, sharedVars, prompt, pipe, tty, pc, caught,
                 drawVars, printed, emitted, prompted, handled, resizes,
                 failures>>

\* set_prompt from another thread: dropped when no input() is in progress.
SetPrompt(t) ==
  /\ lock = NoThread /\ tpc[t] = "idle" /\ prompted[t] < MaxPrompts
  /\ prompted' = [prompted EXCEPT ![t] = @ + 1]
  /\ IF current
       THEN /\ updatePrompt' = TRUE
            /\ asyncPrompt' = "latest"
            /\ prompt' = "old"
            /\ lock' = t
            /\ tpc' = [tpc EXCEPT ![t] = "m"]
       ELSE UNCHANGED <<updatePrompt, asyncPrompt, prompt, lock, tpc>>
  /\ UNCHANGED <<current, keyPresses, messages, pipe, tty, pc, caught, drawVars,
                 printed, emitted, screen, handled, resizes, failures>>

\* Wrong: a write that does not block loses the byte when the pipe is full.
WriteByteOrDrop(byte) ==
  pipe' = IF Len(pipe) < PipeCapacity THEN Append(pipe, byte) ELSE pipe

WriteByte(byte) == Len(pipe) < PipeCapacity /\ pipe' = Append(pipe, byte)

\* Terminal::notify_event, still under the mutex of the caller: write() waits
\* for room in the pipe.
Notify(t) ==
  /\ tpc[t] \in {"k", "m"}
  /\ WriteByte(tpc[t])
  /\ tpc' = [tpc EXCEPT ![t] = "idle"]
  /\ lock' = NoThread
  /\ UNCHANGED <<current, sharedVars, prompt, tty, pc, caught, drawVars, printed,
                 emitted, prompted, screen, handled, resizes, failures>>

-----------------------------------------------------------------------------
(* The user and the window.                                                 *)

Type ==
  /\ tty < MaxTypeAhead
  /\ tty' = tty + 1
  /\ UNCHANGED <<lock, current, sharedVars, prompt, pipe, pc, caught, drawVars,
                 callVars, screen, handled, resizes, failures>>

\* WindowSizeChanged runs outside the mutex; _terminal_ is set while the
\* terminal is in raw mode, that is while an input() is in progress.
Resize ==
  /\ current /\ resizes < MaxResizes
  /\ WriteByte("r")
  /\ resizes' = resizes + 1
  /\ UNCHANGED <<lock, current, sharedVars, prompt, tty, pc, caught, drawVars,
                 callVars, screen, handled, failures>>

-----------------------------------------------------------------------------
(* The reader: input(), read_char(), the key handlers, finalize_input().    *)

GoesOn(from, to) ==
  /\ pc = from
  /\ pc' = to
  /\ UNCHANGED <<lock, current, sharedVars, prompt, pipe, tty, caught, drawVars,
                 callVars, screen, handled, resizes, failures>>

\* Wrong: a prompt update left over by an earlier input() survives.
ForgetNothing == asyncPrompt' = "old" /\ UNCHANGED <<updatePrompt, keyPresses>>

\* Wrong: keys emulated before the input() are dropped.
ForgetKeysToo == asyncPrompt' = "old" /\ updatePrompt' = FALSE /\ keyPresses' = <<>>

\* A prompt update that came too late for the input() before is forgotten, the
\* keys that are already queued are not.
ForgetPrompt ==
  asyncPrompt' = "old" /\ updatePrompt' = FALSE /\ UNCHANGED keyPresses

\* input, up to the end of its critical section.
Start ==
  /\ pc = "idle" /\ lock = NoThread
  /\ ForgetPrompt
  /\ prompt' = "latest"
  /\ current' = TRUE
  /\ stale' = "no"
  /\ pc' = "read"
  /\ UNCHANGED <<lock, messages, pipe, tty, caught, timer, refreshSkipped,
                 callVars, screen, handled, resizes, failures>>

\* An emulated key is taken; its byte, if any, stays in the pipe.
PopKey ==
  /\ lock = NoThread /\ keyPresses # <<>>
  /\ keyPresses' = Tail(keyPresses)
  /\ handled' = [handled EXCEPT ![Head(keyPresses)[1]] = Head(keyPresses)[2]]
  /\ pc' = "handle"
  /\ UNCHANGED <<lock, current, messages, updatePrompt, asyncPrompt, prompt, pipe,
                 tty, caught, drawVars, callVars, screen, resizes, failures>>

\* read_char, before the loop.
ReadQueued == pc = "read" /\ PopKey

\* Wrong: a skipped refresh does not count.
ReadDelayForHintsOnly == IF HintDelay THEN "hint" ELSE "none"

ReadDelay ==
  IF refreshSkipped THEN "rapid" ELSE IF HintDelay THEN "hint" ELSE "none"

\* Wrong: the queue of keys is not looked at first.
MayWaitAlways == TRUE

MayWait == keyPresses = <<>>

ReadWait ==
  /\ pc = "read" /\ lock = NoThread /\ MayWait
  /\ timer' = ReadDelay
  /\ pc' = "wait"
  /\ UNCHANGED <<lock, current, sharedVars, prompt, pipe, tty, caught,
                 refreshSkipped, stale, callVars, screen, handled,
                 resizes, failures>>

\* refresh_line with a hint action that renders
Drawn == refreshSkipped' = FALSE /\ stale' = "no"

\* select() gives up after hintDelay: the line is redrawn, the delay dropped.
TimedOut ==
  /\ pc = "wait" /\ timer # "none" /\ pipe = <<>> /\ tty = 0
  /\ Drawn
  /\ timer' = "none"
  /\ UNCHANGED <<lock, current, sharedVars, prompt, pipe, tty, pc, caught,
                 callVars, screen, handled, resizes, failures>>

\* wait_for_input looks at the pipe before the terminal.
WakeByte(byte, next) ==
  /\ pc = "wait" /\ pipe # <<>> /\ Head(pipe) = byte
  /\ pipe' = Tail(pipe)
  /\ pc' = next
  /\ UNCHANGED <<lock, current, sharedVars, prompt, tty, caught, timer, callVars,
                 screen, handled, resizes, failures>>

WakeKey == WakeByte("k", "got") /\ UNCHANGED <<refreshSkipped, stale>>

WakeMessage ==
  WakeByte("m", "message") /\ UNCHANGED <<refreshSkipped, stale>>

\* The redraw after a resize is skipped when it follows another one too closely;
\* the delay of the running read_char is not changed for it.
WakeResize ==
  /\ WakeByte("r", "wait")
  /\ \/ Drawn
     \/ /\ refreshSkipped' = TRUE
        /\ stale' = IF stale = "key" THEN "key" ELSE "resize"

WakeTyped == pipe = <<>> /\ tty > 0 /\ GoesOn("wait", "got")

\* The first n messages reach the screen, in the order of the queue.
ShowFirst(n) ==
  /\ screen' = screen \o SubSeq(messages, 1, n)
  /\ messages' = SubSeq(messages, n + 1, Len(messages))

\* Wrong: only done along with a message.
ApplyPromptWithMessage ==
  IF updatePrompt /\ messages # <<>>
    THEN updatePrompt' = FALSE /\ prompt' = asyncPrompt /\ asyncPrompt' = "old"
    ELSE UNCHANGED <<updatePrompt, prompt, asyncPrompt>>

ApplyPrompt ==
  /\ updatePrompt' = FALSE
  /\ IF updatePrompt THEN prompt' = asyncPrompt /\ asyncPrompt' = "old"
                     ELSE UNCHANGED <<prompt, asyncPrompt>>

\* refresh_line with SKIP, in repaint(): it writes the rendering of the line that
\* was made before, and counts as a refresh that was not skipped.
Repainted ==
  /\ refreshSkipped' = FALSE
  /\ stale' = IF stale = "no" THEN "no" ELSE "repaint"

\* The MESSAGE branch of read_char, one critical section; its repaint() is never
\* skipped.
ShowMessages ==
  /\ pc = "message" /\ lock = NoThread
  /\ ApplyPrompt
  /\ ShowFirst(Len(messages))
  /\ Repainted
  /\ pc' = "wait"
  /\ UNCHANGED <<lock, current, keyPresses, pipe, tty, caught, timer,
                 callVars, handled, resizes, failures>>

\* A write in that branch throws: the one that clears the line, and the pending
\* prompt stays pending, or that of a message, which stays queued.
ShowMessagesFails ==
  /\ pc = "message" /\ lock = NoThread /\ failures < MaxFailures
  /\ failures' = failures + 1
  /\ \/ UNCHANGED <<messages, updatePrompt, asyncPrompt, prompt, screen>>
     \/ ApplyPrompt /\ \E n \in 0..Len(messages) : ShowFirst(n)
  /\ pc' = "finalize" /\ caught' = TRUE
  /\ UNCHANGED <<lock, current, keyPresses, pipe, tty, drawVars, callVars,
                 handled, resizes>>

\* read_char, after the loop: a queued key, else a blocking read of the terminal.
GotQueued == pc = "got" /\ PopKey

GotNone == lock = NoThread /\ keyPresses = <<>> /\ GoesOn("got", "block")

\* Wrong: a read that counts on the terminal having a byte.
TakeByteUnchecked(from, next) ==
  /\ pc \in from /\ pc' \in next
  /\ tty' = tty - 1
  /\ UNCHANGED <<lock, current, sharedVars, prompt, pipe, caught, drawVars,
                 callVars, screen, handled, resizes, failures>>

\* read() of the terminal blocks until there is a byte.
TakeByte(from, next) ==
  /\ pc \in from /\ pc' \in next
  /\ tty > 0 /\ tty' = tty - 1
  /\ UNCHANGED <<lock, current, sharedVars, prompt, pipe, caught, drawVars,
                 callVars, screen, handled, resizes, failures>>

\* Terminal::read_char: after a byte that begins a character or an escape
\* sequence it reads on.
ReadTyped == TakeByte({"block", "partial"}, {"partial", "handle"})

\* verbatim_insert and bracketed_paste read the terminal themselves, one byte or
\* as many as it takes to the end of the paste.
HandlerReads == GoesOn("handle", "raw")

ReadRaw == TakeByte({"raw"}, {"raw", "handle"})

\* A handler changes the line; the refresh it asks for is drawn or skipped.
HandlerEdits ==
  /\ pc = "handle"
  /\ \/ refreshSkipped' = FALSE /\ stale' = "no"
     \/ refreshSkipped' = TRUE /\ stale' = "key"
  /\ UNCHANGED <<lock, current, sharedVars, prompt, pipe, tty, pc, caught, timer,
                 callVars, screen, handled, resizes, failures>>

\* emulate_key_press from the reader itself: a handler, or complete_line and
\* incremental_history_search handing back the key that ended them.
HandlerEmulates ==
  /\ pc = "handle" /\ lock = NoThread /\ emitted[Reader] < MaxKeys
  /\ emitted' = [emitted EXCEPT ![Reader] = @ + 1]
  /\ keyPresses' = Append(keyPresses, <<Reader, emitted[Reader] + 1>>)
  /\ UNCHANGED <<lock, current, messages, updatePrompt, asyncPrompt, prompt, pipe,
                 tty, pc, caught, drawVars, tpc, printed, prompted, screen,
                 handled, resizes, failures>>

\* set_prompt from the reader itself: at once, with a repaint that may be
\* skipped or that writes the old rendering of the line.
HandlerSetsPrompt ==
  /\ HandlerPrompts
  /\ pc = "handle" /\ lock = NoThread
  /\ prompt' = "latest" /\ asyncPrompt' = "old"
  /\ \/ Repainted
     \/ refreshSkipped' = TRUE /\ stale' = "key"
  /\ UNCHANGED <<lock, current, keyPresses, messages, updatePrompt, pipe, tty, pc,
                 caught, timer, callVars, screen, handled, resizes,
                 failures>>

HandlerReturns == GoesOn("handle", "read")

\* commit_line, abort_line, send_eof: a last refresh that is never skipped.
HandlerEndsLine ==
  /\ pc = "handle"
  /\ pc' \in {"finish", "finalize"}
  /\ refreshSkipped' = FALSE
  /\ stale' = IF refreshSkipped THEN "no" ELSE stale
  /\ UNCHANGED <<lock, current, sharedVars, prompt, pipe, tty, caught, timer,
                 callVars, screen, handled, resizes, failures>>

WriteNewline == GoesOn("finish", "finalize")

\* A refresh of a handler, or the newline, throws: input() catches it.
WriteFails ==
  /\ pc \in {"handle", "finish"} /\ failures < MaxFailures
  /\ failures' = failures + 1
  /\ pc' = "finalize" /\ caught' = TRUE
  /\ UNCHANGED <<lock, current, sharedVars, prompt, pipe, tty, drawVars, callVars,
                 screen, handled, resizes>>

\* Wrong: an if where finalize_input has a while.
LeaveAtOnce(left) == current' = FALSE /\ pc' = "idle" /\ caught' = FALSE

\* The head of the loop of finalize_input, under the mutex, for queue left.
LeaveOrFlush(left) ==
  IF left = <<>>
    THEN current' = FALSE /\ pc' = "idle" /\ caught' = FALSE
    ELSE pc' = "flush" /\ UNCHANGED <<current, caught>>

Finalize ==
  /\ pc = "finalize" /\ lock = NoThread
  /\ LeaveOrFlush(messages)
  /\ UNCHANGED <<lock, sharedVars, prompt, pipe, tty, drawVars, callVars, screen,
                 handled, resizes, failures>>

\* The oldest message is written without the mutex, and still queued.
FlushWrite ==
  /\ pc = "flush"
  /\ screen' = Append(screen, Head(messages))
  /\ pc' = "flushed"
  /\ UNCHANGED <<lock, current, sharedVars, prompt, pipe, tty, caught, drawVars,
                 callVars, handled, resizes, failures>>

\* That write throws: finalize_input runs again from the catch block, but when
\* it is already running from there the exception leaves input().
FlushFails ==
  /\ pc = "flush" /\ failures < MaxFailures
  /\ failures' = failures + 1
  /\ pc' = IF caught THEN "escaped" ELSE "finalize"
  /\ caught' = TRUE
  /\ UNCHANGED <<lock, current, sharedVars, prompt, pipe, tty, drawVars, callVars,
                 screen, handled, resizes>>

\* Wrong: also drops what was queued during the write.
PopAll == <<>>

PopFront == Tail(messages)

FlushPop ==
  /\ pc = "flushed" /\ lock = NoThread
  /\ messages' = PopFront
  /\ LeaveOrFlush(PopFront)
  /\ UNCHANGED <<lock, keyPresses, updatePrompt, asyncPrompt, prompt, pipe, tty,
                 drawVars, callVars, screen, handled, resizes, failures>>

-----------------------------------------------------------------------------
ThreadStep(t) ==
  \/ EmulateKeyPress(t) \/ PrintMessage(t) \/ SetPrompt(t)
  \/ DirectWrite(t) \/ Notify(t)

ReadChar ==
  \/ ReadQueued \/ ReadWait \/ TimedOut
  \/ WakeKey \/ WakeMessage \/ WakeResize \/ WakeTyped
  \/ ShowMessages \/ GotQueued \/ GotNone \/ ReadTyped \/ ReadRaw

Handler ==
  \/ HandlerEdits \/ HandlerEmulates \/ HandlerSetsPrompt \/ HandlerReads
  \/ HandlerReturns \/ HandlerEndsLine

Leave == WriteNewline \/ Finalize \/ FlushWrite \/ FlushPop

Fails == ShowMessagesFails \/ WriteFails \/ FlushFails

Next ==
  \/ \E t \in Threads : ThreadStep(t)
  \/ Type \/ Resize
  \/ Start \/ ReadChar \/ Handler \/ Leave \/ Fails

Spec == Init /\ [][Next]_vars

-----------------------------------------------------------------------------
\* The reader goes on where nothing blocks it: in a read of the terminal it needs a
\* byte, which nobody has to type.  A handler returns, also one that has read the
\* terminal meanwhile (hence SF: no handler is in raw reads for ever without the
\* user).  A thread that holds the mutex or is in a write goes on.  Nobody has to
\* call anything or to fail.  Every thread makes finitely many calls, so the reader
\* gets the mutex without a fair mutex.
LiveSpec ==
  /\ Spec
  /\ WF_vars(ReadChar) /\ SF_vars(HandlerReturns) /\ WF_vars(Leave)
  /\ \A t \in Threads : WF_vars(Notify(t)) /\ WF_vars(DirectWrite(t))

-----------------------------------------------------------------------------
(* Safety.                                                                  *)

\* A byte that is in the pipe, or that a thread is about to put there.
Coming(byte) ==
  \/ \E i \in 1..Len(pipe) : pipe[i] = byte
  \/ \E t \in Threads : tpc[t] = byte

\* No lost wake-up: as long as the reader is in its loop, a queued message or a
\* pending prompt always has a byte in the pipe (or on its way there) or the
\* reader already on its way to the queue.
MessageWakesReader ==
  pc \in InLoop \ {"message"} /\ (messages # <<>> \/ updatePrompt)
    => Coming("m")

\* The same for emulated keys: the reader enters select() only with the queue of
\* keys empty, so a key found there later has its byte.
KeyWakesReader ==
  pc \in {"wait", "message"} /\ keyPresses # <<>> => Coming("k")

\* A set_prompt() of one input() is never applied in the next, and of several
\* the last one stays: without a pending update the prompt in effect is the
\* last one asked for, and a pending update is the last one asked for.
PromptIsLatest ==
  pc \in InLoop \cup Finishing
    => IF updatePrompt THEN asyncPrompt = "latest" ELSE prompt = "latest"

\* finalize_input writes the queue without the mutex: the front stays queued
\* until it is popped, and nothing is lost, repeated or reordered by the calls
\* that come in between, by a write that fails and is retried, or by direct
\* writes after the input() is over.
Unwritten == IF pc = "flushed" THEN Tail(messages) ELSE messages
Delivered == screen \o Unwritten
MessagesExactlyOnce ==
  /\ \A i, j \in 1..Len(Delivered) :
       i < j /\ Delivered[i][1] = Delivered[j][1]
         => Delivered[i][2] < Delivered[j][2]
  /\ \A t \in Threads : \A n \in 1..printed[t] :
       \/ tpc[t] = "write" /\ n = printed[t]
       \/ \E i \in 1..Len(Delivered) : Delivered[i] = <<t, n>>

\* When input() returns it leaves no message behind that only another input()
\* would show, and from then on threads write for themselves.
NothingLeftBehind == pc = "idle" => messages = <<>> /\ ~current

\* Emulated keys reach the handlers in the order in which each caller sent them,
\* none lost or doubled, those sent before input() included: the queue holds, in
\* order, exactly the keys of each caller that no handler has had.
KeysExactlyOnce ==
  /\ \A i, j \in 1..Len(keyPresses) :
       i < j /\ keyPresses[i][1] = keyPresses[j][1]
         => keyPresses[i][2] < keyPresses[j][2]
  /\ \A i \in 1..Len(keyPresses) :
       keyPresses[i][2] \in (handled[keyPresses[i][1]] + 1)..emitted[keyPresses[i][1]]
  /\ \A c \in Callers : \A n \in (handled[c] + 1)..emitted[c] :
       \E i \in 1..Len(keyPresses) : keyPresses[i] = <<c, n>>

\* A refresh that a key handler skipped is made up for: the reader does not wait
\* for input without a delay while the screen shows an older line (a repaint()
\* that comes between, for a message or a prompt, is the exception).
SkippedRefreshIsScheduled == pc = "wait" /\ stale = "key" => timer # "none"

-----------------------------------------------------------------------------
(* Liveness.                                                                *)

\* From now on the reader never leaves a read that only the user can end.
StuckInKey == [](pc \in AwaitingUser)

\* A prompt set from another thread is applied while the input() lasts though nobody
\* types, unless a key that was begun, a verbatim insert or a paste is never ended.
AsyncPromptApplied ==
  current /\ updatePrompt ~> ~updatePrompt \/ ~current \/ StuckInKey

\* What a thread prints gets to the screen, during the input() or at its end, with
\* the same exception.
PrintedGetsShown ==
  \A t \in Threads : \A n \in 1..MaxPrints :
    printed[t] = n ~> (\E i \in 1..Len(screen) : screen[i] = <<t, n>>) \/ StuckInKey
=============================================================================
