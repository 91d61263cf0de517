---------------------------- MODULE RunnerSafety ----------------------------
(***************************************************************************)
(* The desktop app, proved for any tasks, lists, other processes and       *)
(* bounds: to the window the clipboard is nothing but time that passes, so *)
(* what is proved of it alone holds of the whole; a call of the channel    *)
(* meets a window that lives as long as it; a list that is written is read *)
(* as it was; a share is told of as it went; and a paste is of what was on *)
(* the clipboard.                                                          *)
(***************************************************************************)
EXTENDS Runner, SequenceTheorems, WellFoundedInduction, TLAPS

-----------------------------------------------------------------------------
(* The window, on its own: what is there at each place of wWinMain, and how it looks. *)

Places == {"main", "create", "theme", "controller", "content", "redraw", "loop",
           "destroy", "return", "base", "gone"}

\* nothing of the engine
NoEngine == controller = "none" /\ ~channel

\* the window is made and counted, and its class is known
Made == com /\ count = 1 /\ class /\ registered

AtStart ==
  /\ at \in {"main", "create"} => NoEngine /\ ~window /\ ~handle
  /\ at = "main" => count = 0
  /\ at = "create" => com /\ count = 1
  /\ at \in {"theme", "controller"} => Made /\ window /\ handle /\ NoEngine
  /\ at = "content" => Made /\ window /\ handle /\ controller = "running" /\ ~channel
  /\ at = "redraw" => Made /\ window /\ handle /\ controller = "running" /\ channel

InLoop ==
  /\ at = "loop" => Made
  /\ at = "loop" /\ window => handle /\ channel /\ controller = "running" /\ ~quit
  /\ at = "loop" /\ ~window => ~handle /\ NoEngine
  /\ at = "destroy" => Made /\ window /\ ~handle /\ ~channel /\ controller = "running"
  /\ at \in {"main", "create", "theme", "controller", "content", "redraw", "destroy"} => ~quit

AtEnd ==
  /\ at = "return" => count = 1 /\ ~channel /\ (controller # "none" => com)
  /\ at \in {"base", "gone"} => count = 0 /\ NoEngine
  /\ at \in {"return", "base"} => (window <=> handle) /\ (window => class)
  /\ at = "gone" => ~window /\ ~class /\ ~registered

Inv == at \in Places /\ AtStart /\ InLoop /\ AtEnd

\* What is there at each place implies both properties.
LEMMA InvEnough == Inv => EndsInOrder /\ LoopHasEngine
  BY DEF Inv, Places, AtStart, InLoop, AtEnd, NoEngine, Made, EndsInOrder, LoopHasEngine,
         Dispatching

LEMMA InitInv == WindowInit => Inv
  BY DEF WindowInit, Inv, Places, AtStart, InLoop, AtEnd, NoEngine, Made

\* wWinMain until the loop
LEMMA StartKeeps ==
  ASSUME Inv, StartUp \/ CreateWindow \/ Dress \/ MakeController \/ SetContent \/ EnterLoop
  PROVE  Inv'
<1>. USE DEF Inv, Places, AtStart, InLoop, AtEnd, NoEngine, Made
<1>1. CASE StartUp
  BY <1>1 DEF StartUp, system, engine, look
<1>2. CASE CreateWindow
  BY <1>2 DEF CreateWindow, GetWindowClass, engine
<1>3. CASE Dress
  BY <1>3 DEF Dress, system, engine
<1>4. CASE MakeController
  BY <1>4 DEF MakeController, AfterFailure, system, look
<1>5. CASE SetContent
  BY <1>5 DEF SetContent, system
<1>6. CASE EnterLoop
  BY <1>6 DEF EnterLoop, system, look
<1>. QED
  BY <1>1, <1>2, <1>3, <1>4, <1>5, <1>6

\* the end of the window, and of wWinMain
LEMMA EndKeeps ==
  ASSUME Inv, Close \/ Destroyed \/ LeaveLoop \/ Destruct \/ DestroyNested \/ DestroyOuter
  PROVE  Inv'
<1>. USE DEF Inv, Places, AtStart, InLoop, AtEnd, NoEngine, Made
<1>1. CASE Close
  BY <1>1 DEF Close, Dispatching, system, look
<1>2. CASE Destroyed
  BY <1>2 DEF Destroyed, DropController, PostQuit, look
<1>3. CASE LeaveLoop
  BY <1>3 DEF LeaveLoop, system, engine, look
<1>4. CASE Destruct
  BY <1>4 DEF Destruct, DropController, CountDown, system, look
<1>5. CASE DestroyNested
  BY <1>5 DEF DestroyNested, UnregisterWindowClass, PostQuit, engine, look
<1>6. CASE DestroyOuter
  BY <1>6 DEF DestroyOuter, UnregisterWindowClass, engine, look
<1>. QED
  BY <1>1, <1>2, <1>3, <1>4, <1>5, <1>6

\* Whatever changes only how the window looks, or when a frame is drawn, keeps the invariant.
LEMMA LookKeeps ==
  ASSUME Inv, Resize \/ ThemeMessage \/ FrameCallback \/ Outside \/ UNCHANGED windowVars
  PROVE  Inv'
<1>1. UNCHANGED <<at, com, count, registered, handle, quit, window, class, controller, channel>>
  BY DEF Resize, ThemeMessage, FrameCallback, Outside, DrawFrame, Animate, ChangeTheme,
         windowVars, system, engine, look
<1>. QED
  BY <1>1 DEF Inv, AtStart, InLoop, AtEnd, NoEngine, Made

LEMMA StepInv == Inv /\ [WindowNext]_windowVars => Inv'
  BY StartKeeps, EndKeeps, LookKeeps DEF WindowNext, Proceed, Dispatch

\* The window, its class, the engine, the channel and COM end in their order on every path
\* out of wWinMain, however often Destroy runs.
THEOREM OrderlyEnd == WindowSpec => []EndsInOrder
  BY InitInv, StepInv, InvEnough, PTL DEF WindowSpec

\* A message is only dispatched to a window whose engine runs, also if Create fails.
THEOREM EngineForMessages == WindowSpec => []LoopHasEngine
  BY InitInv, StepInv, InvEnough, PTL DEF WindowSpec

-----------------------------------------------------------------------------
(***************************************************************************)
(* How the window looks: the client area has a size from CreateWindow on,  *)
(* the content has it from SetContent on, and from Dress on the frame has  *)
(* the colour of the theme, or a message about it is under way: the system *)
(* sends one to every window there is, also while it is being made.        *)
(***************************************************************************)
Sized ==
  /\ at \in {"theme", "controller", "content", "redraw", "loop", "destroy"} => size \in Sizes
  /\ at \in {"redraw", "loop", "destroy"} => child = size

RightColour == theme # "missing" => dark = (theme = "dark")

Coloured ==
  at \in {"controller", "content", "redraw"} \/ Dispatching => themeSent \/ RightColour

Looks == Sized /\ Coloured

LEMMA LooksStep ==
  ASSUME Inv, Looks, [WindowNext]_windowVars
  PROVE  Looks'
<1>. USE DEF Looks, Sized, Coloured, Dispatching, RightColour, system, engine, look
<1>1. CASE StartUp
  BY <1>1 DEF StartUp
<1>2. CASE CreateWindow
  BY <1>2, WindowAssumption DEF CreateWindow, GetWindowClass
<1>3. CASE Dress
  BY <1>3 DEF Dress, FirstTheme, UpdateTheme
<1>4. CASE MakeController
  BY <1>4 DEF MakeController, AfterFailure
<1>5. CASE SetContent
  BY <1>5 DEF SetContent, SetChildContent
<1>6. CASE EnterLoop
  BY <1>6 DEF EnterLoop, ForceRedraw
<1>7. CASE Destroyed
  BY <1>7 DEF Destroyed
<1>8. CASE LeaveLoop \/ Destruct \/ DestroyNested \/ DestroyOuter
  BY <1>8 DEF LeaveLoop, Destruct, DestroyNested, DestroyOuter
<1>9. CASE Resize
  BY <1>9, WindowAssumption DEF Resize, Placed, NoSize
<1>10. CASE ThemeMessage
  BY <1>10 DEF ThemeMessage, UpdateTheme
<1>11. CASE FrameCallback \/ Close
  BY <1>11 DEF FrameCallback, Close
<1>12. CASE DrawFrame \/ Animate
  BY <1>12 DEF DrawFrame, Animate
<1>13. CASE ChangeTheme
  BY <1>13 DEF ChangeTheme, Inv, AtStart
<1>14. CASE UNCHANGED windowVars
  BY <1>14 DEF windowVars
<1>. QED
  BY <1>1, <1>2, <1>3, <1>4, <1>5, <1>6, <1>7, <1>8, <1>9, <1>10, <1>11, <1>12, <1>13, <1>14
     DEF WindowNext, Proceed, Dispatch, Outside

\* The content fills the window and the frame has the colour of the theme, or will have it,
\* whatever changed while the window was being made.
THEOREM LooksAlright == WindowSpec => []LooksRight
<1>1. WindowInit => Looks
  BY DEF WindowInit, Looks, Sized, Coloured, Dispatching
<1>2. Looks => LooksRight
  BY DEF Looks, Sized, Coloured, RightColour, LooksRight, Dispatching
<1>. QED
  BY InitInv, StepInv, LooksStep, <1>1, <1>2, PTL DEF WindowSpec

-----------------------------------------------------------------------------
(* The window in the app. *)

LEMMA ToWindow == [Next]_vars => [WindowNext]_windowVars
  BY DEF Next, vars, Thread, Beside, Calls, Handler, Foreign, Dart, User, WindowNext

\* The composition implements the window alone: no method call, task of Dart or other process
\* changes what the window does.
THEOREM ImplementsWindow == SafeSpec => WindowSpec
  BY ToWindow, PTL DEF SafeSpec, Init, WindowSpec

\* The window, its class, the engine, the channel and COM end in their order also with calls
\* and tasks under way.
THEOREM AppEndsInOrder == SafeSpec => []EndsInOrder
  BY ImplementsWindow, OrderlyEnd, PTL

\* Every message finds the engine.
THEOREM AppLoopHasEngine == SafeSpec => []LoopHasEngine
  BY ImplementsWindow, EngineForMessages, PTL

\* The window looks right also while calls are handled.
THEOREM AppLooksRight == SafeSpec => []LooksRight
  BY ImplementsWindow, LooksAlright, PTL

-----------------------------------------------------------------------------
(* Types. *)

LEMMA WindowTypeStep ==
  ASSUME WindowTypeOK, Inv, [WindowNext]_windowVars
  PROVE  WindowTypeOK'
<1>. USE WindowAssumption DEF WindowTypeOK, system, engine, look, windowVars
<1>1. CASE StartUp
  BY <1>1 DEF StartUp, Inv, AtStart
<1>2. CASE CreateWindow
  BY <1>2 DEF CreateWindow, GetWindowClass
<1>3. CASE Dress
  BY <1>3 DEF Dress, FirstTheme, UpdateTheme
<1>4. CASE MakeController
  BY <1>4 DEF MakeController, AfterFailure
<1>5. CASE SetContent
  BY <1>5 DEF SetContent, SetChildContent
<1>6. CASE EnterLoop
  BY <1>6 DEF EnterLoop, ForceRedraw
<1>7. CASE Destroyed
  BY <1>7 DEF Destroyed, DropController, PostQuit
<1>8. CASE LeaveLoop
  BY <1>8 DEF LeaveLoop
<1>9. CASE Destruct
  <2>1. count' = 0
    BY <1>9 DEF Destruct, CountDown, Inv, AtEnd
  <2>. QED
    BY <1>9, <2>1 DEF Destruct, DropController
<1>10. CASE DestroyNested
  BY <1>10 DEF DestroyNested, UnregisterWindowClass, PostQuit
<1>11. CASE DestroyOuter
  BY <1>11 DEF DestroyOuter, UnregisterWindowClass
<1>12. CASE Resize
  BY <1>12 DEF Resize, News, Placed, NoSize
<1>13. CASE ThemeMessage
  BY <1>13 DEF ThemeMessage, UpdateTheme
<1>14. CASE FrameCallback
  BY <1>14 DEF FrameCallback, Show
<1>15. CASE Close
  BY <1>15 DEF Close
<1>16. CASE Outside
  <2>1. CASE DrawFrame \/ Animate
    BY <1>16, <2>1 DEF DrawFrame, Animate
  <2>2. CASE ChangeTheme
    BY <1>16, <2>2 DEF ChangeTheme, News
  <2>. QED
    BY <1>16, <2>1, <2>2 DEF Outside
<1>17. CASE UNCHANGED windowVars
  BY <1>17
<1>. QED
  BY <1>1, <1>2, <1>3, <1>4, <1>5, <1>6, <1>7, <1>8, <1>9, <1>10, <1>11, <1>12, <1>13,
     <1>14, <1>15, <1>16, <1>17 DEF WindowNext, Proceed, Dispatch

-----------------------------------------------------------------------------
(* Calls. *)

LEMMA StartsTask == \A t : Start(t) => t \in Task
  BY DEF Start, PasteKey, ShareFiles, Task

LEMMA ToClipboard == [Next]_vars => [ClipboardNext]_clipboardVars
  BY StartsTask DEF Next, vars, Thread, Beside, Calls, Handler, Foreign, Dart, User, ClipboardNext

\* The composition implements the clipboard alone.
THEOREM ImplementsClipboard == SafeSpec => ClipboardSpec
  BY ToClipboard, PTL DEF SafeSpec, Init, ClipboardSpec

\* what a call has opened and begun
Balanced ==
  /\ opened = "app" <=> step \in {"use", "encode", "close"}
  /\ nested = IF step = "encode" THEN 1 ELSE 0

LEMMA BalancedStep ==
  ASSUME Balanced, step \in {"idle", "open", "use", "encode", "close"},
         [ClipboardNext]_clipboardVars
  PROVE  Balanced'
<1>. USE DEF Balanced, handler, tasks, held
<1>1. CASE HandleCall
  BY <1>1 DEF HandleCall
<1>2. CASE GetData
  BY <1>2 DEF GetData
<1>3. CASE OpenClipboard
  BY <1>3 DEF OpenClipboard, Idle
<1>4. CASE ReadImage
  BY <1>4 DEF ReadImage, NoData, Then
<1>5. CASE SaveImage
  BY <1>5 DEF SaveImage, EndNested, Then
<1>6. CASE ReadFiles
  BY <1>6 DEF ReadFiles, NoData, Then
<1>7. CASE WriteFiles
  BY <1>7 DEF WriteFiles, Then
<1>8. CASE CloseClipboard
  BY <1>8 DEF CloseClipboard, Idle
<1>9. CASE Others
  BY <1>9 DEF Others, OtherOpens, OtherPuts, OtherCloses
<1>10. ASSUME NEW t \in Task, Start(t) \/ Resume(t) PROVE Balanced'
  BY <1>10 DEF Start, Resume, PasteKey, ShareFiles, Begin, AfterImage, AfterFiles, AfterText,
               AfterShare
<1>11. CASE UNCHANGED clipboardVars
  BY <1>11 DEF clipboardVars
<1>. QED
  BY <1>1, <1>2, <1>3, <1>4, <1>5, <1>6, <1>7, <1>8, <1>9, <1>10, <1>11
  DEF ClipboardNext, Inside

\* a call has a window and its engine
Attended == step # "idle" => Dispatching /\ channel

LEMMA AttendedStep == Attended /\ [Next]_vars => Attended'
<1>. SUFFICES ASSUME Attended, [Next]_vars PROVE Attended'
  OBVIOUS
<1>. USE DEF Attended, Dispatching
<1>1. CASE Thread
  BY <1>1 DEF Thread, Free, clipboardVars, handler
<1>2. CASE Beside
  <2>1. UNCHANGED <<at, window, channel>>
    BY <1>2 DEF Beside, Outside, DrawFrame, Animate, ChangeTheme, system, engine
  <2>. QED
    BY <1>2, <2>1 DEF Beside, clipboardVars, handler
<1>3. CASE Calls
  BY <1>3 DEF Calls, windowVars, system, engine
<1>4. CASE Handler
  <2>1. UNCHANGED <<at, window, channel>>
    BY <1>4 DEF Handler, windowVars, system, engine
  <2>2. step # "idle"
    BY <1>4 DEF Handler, Inside, OpenClipboard, ReadImage, SaveImage, ReadFiles, WriteFiles,
                CloseClipboard
  <2>. QED
    BY <2>1, <2>2
<1>5. CASE Foreign
  BY <1>5 DEF Foreign, Others, OtherOpens, OtherPuts, OtherCloses, handler, windowVars, system,
              engine
<1>6. ASSUME NEW t, Dart(t) \/ User(t) PROVE Attended'
  BY <1>6 DEF Dart, User, Start, Resume, PasteKey, ShareFiles, Begin, AfterImage, AfterFiles,
              AfterText, AfterShare, handler, windowVars, system, engine
<1>7. CASE UNCHANGED vars
  BY <1>7 DEF vars, clipboardVars, handler, windowVars, system, engine
<1>. QED
  BY <1>1, <1>2, <1>3, <1>4, <1>5, <1>6, <1>7 DEF Next

-----------------------------------------------------------------------------
(* Types of the clipboard. *)

LEMMA ClipboardTypeStep ==
  ASSUME ClipboardTypeOK, Balanced, [ClipboardNext]_clipboardVars
  PROVE  ClipboardTypeOK'
<1>. USE ClipboardAssumption DEF ClipboardTypeOK, handler, tasks, held
<1>1. CASE HandleCall
  BY <1>1 DEF HandleCall, Return
<1>2. CASE GetData
  BY <1>2 DEF GetData, Return, Rough
<1>3. CASE OpenClipboard
  BY <1>3 DEF OpenClipboard, Idle, Return, Rough
<1>4. CASE ReadImage
  <2>1. smooth' \in [Paste -> BOOLEAN]
    BY <1>4 DEF ReadImage, Rough
  <2>2. nested' \in Nat /\ step' \in {"close", "encode"}
    BY <1>4 DEF ReadImage, NoData, Then
  <2>. QED
    BY <1>4, <2>1, <2>2 DEF ReadImage
<1>5. CASE SaveImage
  <2>1. smooth' \in [Paste -> BOOLEAN]
    BY <1>5 DEF SaveImage, Rough
  <2>2. nested = 1
    BY <1>5 DEF SaveImage, Balanced
  <2>3. nested' \in Nat /\ step' = "close"
    BY <1>5, <2>2 DEF SaveImage, EndNested, Then
  <2>. QED
    BY <1>5, <2>1, <2>3 DEF SaveImage
<1>6. CASE ReadFiles
  BY <1>6 DEF ReadFiles, NoData, Then, Rough
<1>7. CASE WriteFiles
  BY <1>7 DEF WriteFiles, Then, Rough, Hold
<1>8. CASE CloseClipboard
  BY <1>8 DEF CloseClipboard, Idle, Return
<1>9. CASE Others
  BY <1>9 DEF Others, OtherOpens, OtherPuts, OtherCloses, Hold
<1>10. ASSUME NEW t \in Task, Start(t) PROVE ClipboardTypeOK'
  <2>1. stage' \in [Task -> {"idle", "image", "files", "text", "share", "done"}]
    BY <1>10 DEF Start, PasteKey, ShareFiles, Go
  <2>. QED
    BY <1>10, <2>1 DEF Start, PasteKey, ShareFiles, Begin, Call
<1>11. ASSUME NEW t \in Task, Resume(t) PROVE ClipboardTypeOK'
  BY <1>11 DEF Resume, AfterImage, AfterFiles, AfterText, AfterShare, Ask, Call, Go, Finish
<1>12. CASE UNCHANGED clipboardVars
  BY <1>12 DEF clipboardVars
<1>. QED
  BY <1>1, <1>2, <1>3, <1>4, <1>5, <1>6, <1>7, <1>8, <1>9, <1>10, <1>11, <1>12
  DEF ClipboardNext, Inside

-----------------------------------------------------------------------------
(* The whole. *)

AppInv == TypeOK /\ Inv /\ Balanced /\ Attended

LEMMA AppInvInit == Init => AppInv
<1>. SUFFICES ASSUME Init PROVE AppInv
  OBVIOUS
<1>1. WindowTypeOK
  <2>1. WindowInit
    BY DEF Init
  <2>2. size = NoSize /\ child = NoSize /\ news = 0 /\ count = 0 /\ theme \in Themes
    BY <2>1 DEF WindowInit
  <2>3. news \in 0 .. MaxNews
    BY <2>2, WindowAssumption
  <2>. QED
    BY <2>1, <2>2, <2>3 DEF WindowInit, WindowTypeOK
<1>2. ClipboardTypeOK
  BY ClipboardAssumption DEF Init, ClipboardInit, ClipboardTypeOK
<1>3. Inv
  BY InitInv DEF Init
<1>4. Balanced /\ Attended
  BY DEF Init, ClipboardInit, Balanced, Attended
<1>. QED
  BY <1>1, <1>2, <1>3, <1>4 DEF AppInv, TypeOK

LEMMA AppInvStep == AppInv /\ [Next]_vars => AppInv'
<1>. SUFFICES ASSUME AppInv, [Next]_vars PROVE AppInv'
  OBVIOUS
<1>1. [WindowNext]_windowVars /\ [ClipboardNext]_clipboardVars
  BY ToWindow, ToClipboard
<1>2. WindowTypeOK' /\ Inv'
  BY <1>1, WindowTypeStep, StepInv DEF AppInv, TypeOK
<1>3. ClipboardTypeOK'
  BY <1>1, ClipboardTypeStep DEF AppInv, TypeOK
<1>4. Balanced' /\ Attended'
  BY <1>1, BalancedStep, AttendedStep DEF AppInv, TypeOK, ClipboardTypeOK
<1>. QED
  BY <1>2, <1>3, <1>4 DEF AppInv, TypeOK

LEMMA AppInvAlways == SafeSpec => []AppInv
  BY AppInvInit, AppInvStep, PTL DEF SafeSpec

\* Every variable has its type.
THEOREM TypeCorrect == SafeSpec => []TypeOK
<1>1. AppInv => TypeOK
  BY DEF AppInv
<1>. QED
  BY <1>1, AppInvAlways, PTL

\* No call leaves the clipboard open or COM begun, and each is handled under its window.
THEOREM Clean == SafeSpec => []CallsAreClean
<1>1. AppInv => CallsAreClean
  BY DEF AppInv, TypeOK, Balanced, Attended, Dispatching, Inv, InLoop, Made, CallsAreClean
<1>. QED
  BY <1>1, AppInvAlways, PTL

-----------------------------------------------------------------------------
(* What a share tells: one call of it is under way at any time, and mine is written in it. *)

Methods == {"readClipboardImage", "readClipboardFiles", "getData", "shareFile", "shareFiles"}

CallsTyped ==
  /\ calls \in Seq([task : Task, method : Methods])
  /\ \A i \in DOMAIN calls : calls[i].task \in Share => Writes(calls[i].method)
  /\ \A i, j \in DOMAIN calls :
       calls[i].task \in Share /\ calls[i].task = calls[j].task => i = j

Waits(t) == stage[t] = "share" /\ answer[t] = Pending

\* the call of share t in the queue, and in the handler
Queued(t) ==
  \A i \in DOMAIN calls :
    calls[i].task = t => Waits(t) /\ mine[t] = 0 /\ (step = "idle" \/ cur.task # t)

Handled(t) ==
  step # "idle" /\ cur.task = t =>
    /\ Waits(t) /\ Writes(cur.method)
    /\ \/ step \in {"open", "use"} /\ mine[t] = 0
       \/ step = "close" /\ result = Done /\ mine[t] # 0
       \/ step = "close" /\ result = Failed /\ mine[t] = 0

\* what t knows and tells
Knows(t) ==
  /\ stage[t] \in {"idle", "share", "done"}
  /\ stage[t] = "idle" => mine[t] = 0
  /\ stage[t] # "done" => toasts[t] = <<>>
  /\ stage[t] = "share" /\ answer[t] # Pending => (answer[t].kind = "clipboard" <=> mine[t] # 0)
  /\ toasts[t] # <<>> => (SaysFailed(t) <=> mine[t] = 0)

ShareInv ==
  /\ clip.copy \in Nat /\ "copy" \in DOMAIN clip
  /\ CallsTyped
  /\ \A t \in Share : Queued(t) /\ Handled(t) /\ Knows(t)

LEMMA ShareInit == ClipboardInit => ShareInv
<1>. SUFFICES ASSUME ClipboardInit PROVE ShareInv
  OBVIOUS
<1>1. CallsTyped
  BY DEF ClipboardInit, CallsTyped
<1>2. clip.copy \in Nat /\ "copy" \in DOMAIN clip
  BY DEF ClipboardInit, Emptied
<1>3. ASSUME NEW t \in Share PROVE Queued(t) /\ Handled(t) /\ Knows(t)
  BY <1>3 DEF ClipboardInit, Queued, Handled, Knows, Task
<1>. QED
  BY <1>1, <1>2, <1>3 DEF ShareInv

\* the front of the queue leaves it
LEMMA Shorter ==
  ASSUME CallsTyped, calls # <<>>, calls' = Tail(calls)
  PROVE  /\ CallsTyped'
         /\ Head(calls) \in [task : Task, method : Methods]
         /\ Head(calls).task \in Share => Writes(Head(calls).method)
         /\ \A t \in Share : Head(calls).task = t =>
              \A i \in DOMAIN calls' : calls'[i].task # t
         /\ \A i \in DOMAIN calls' : i + 1 \in DOMAIN calls /\ calls'[i] = calls[i + 1]
<1>. USE DEF CallsTyped
<1>1. /\ calls' \in Seq([task : Task, method : Methods])
      /\ \A i \in DOMAIN calls' : i + 1 \in DOMAIN calls /\ calls'[i] = calls[i + 1]
      /\ Head(calls) = calls[1] /\ 1 \in DOMAIN calls
      /\ DOMAIN calls' \subseteq Nat \ {0} /\ DOMAIN calls \subseteq Nat \ {0}
  OBVIOUS
<1>2. \A i, j \in DOMAIN calls' :
        calls'[i].task \in Share /\ calls'[i].task = calls'[j].task => i = j
  <2>. SUFFICES ASSUME NEW i \in DOMAIN calls', NEW j \in DOMAIN calls',
                       calls'[i].task \in Share, calls'[i].task = calls'[j].task
                PROVE  i = j
    OBVIOUS
  <2>1. i + 1 = j + 1
    BY <1>1
  <2>. QED
    BY <1>1, <2>1
<1>3. \A i \in DOMAIN calls' : calls'[i].task \in Share => Writes(calls'[i].method)
  BY <1>1
<1>4. \A t \in Share : Head(calls).task = t =>
        \A i \in DOMAIN calls' : calls'[i].task # t
  <2>. SUFFICES ASSUME NEW t \in Share, Head(calls).task = t,
                       NEW i \in DOMAIN calls', calls'[i].task = t
                PROVE  FALSE
    OBVIOUS
  <2>1. i + 1 = 1
    BY <1>1
  <2>. QED
    BY <1>1, <2>1
<1>5. CallsTyped'
  BY <1>1, <1>2, <1>3
<1>6. Head(calls) \in [task : Task, method : Methods]
  <2>1. calls \in Seq([task : Task, method : Methods])
    OBVIOUS
  <2>. QED
    BY <2>1, HeadTailProperties
<1>7. Head(calls).task \in Share => Writes(Head(calls).method)
  BY <1>1
<1>. QED
  <2>. HIDE DEF CallsTyped
  <2>. QED
    BY <1>1, <1>4, <1>5, <1>6, <1>7

\* what others put beside, and what a copy replaces
LEMMA CopyOf ==
  ASSUME NEW c, "copy" \in DOMAIN c, NEW wide, NEW block, NEW list, NEW n
  PROVE  /\ WithFiles(c, wide, block, list).copy = c.copy
         /\ "copy" \in DOMAIN WithFiles(c, wide, block, list)
         /\ Emptied(n).copy = n /\ "copy" \in DOMAIN Emptied(n)
<1>1. /\ WithFiles(c, wide, block, list).copy = c.copy
      /\ "copy" \in DOMAIN WithFiles(c, wide, block, list)
  BY DEF WithFiles
<1>2. Emptied(n).copy = n /\ "copy" \in DOMAIN Emptied(n)
  BY DEF Emptied
<1>. QED
  BY <1>1, <1>2

\* a call is added to the queue
LEMMA Longer ==
  ASSUME CallsTyped, NEW c \in [task : Task, method : Methods], calls' = Append(calls, c),
         c.task \in Share => Writes(c.method),
         c.task \in Share => \A i \in DOMAIN calls : calls[i].task # c.task
  PROVE  /\ CallsTyped'
         /\ \A i \in DOMAIN calls' :
              \/ i \in DOMAIN calls /\ calls'[i] = calls[i]
              \/ calls'[i] = c
<1>. USE DEF CallsTyped
<1>1. /\ calls' \in Seq([task : Task, method : Methods])
      /\ \A i \in DOMAIN calls' :
           \/ i \in DOMAIN calls /\ calls'[i] = calls[i]
           \/ i = Len(calls) + 1 /\ calls'[i] = c
  <2>1. calls \in Seq([task : Task, method : Methods])
    OBVIOUS
  <2>2. /\ DOMAIN calls = 1 .. Len(calls) /\ Len(calls) \in Nat
        /\ DOMAIN Append(calls, c) = 1 .. Len(Append(calls, c))
    BY <2>1, AppendProperties
  <2>. QED
    BY <2>1, <2>2, AppendProperties
<1>2. \A i, j \in DOMAIN calls' :
        calls'[i].task \in Share /\ calls'[i].task = calls'[j].task => i = j
  BY <1>1
<1>3. \A i \in DOMAIN calls' : calls'[i].task \in Share => Writes(calls'[i].method)
  BY <1>1
<1>. QED
  BY <1>1, <1>2, <1>3

\* a step of the handler of share t, or of something else, that keeps what t knows
LEMMA ShareStep == ShareInv /\ ClipboardTypeOK /\ [ClipboardNext]_clipboardVars => ShareInv'
<1>. SUFFICES ASSUME ShareInv, ClipboardTypeOK, [ClipboardNext]_clipboardVars PROVE ShareInv'
  OBVIOUS
<1>. USE DEF handler, tasks, held
<1>0. /\ clip.copy \in Nat /\ "copy" \in DOMAIN clip /\ CallsTyped
      /\ \A t \in Share : Queued(t) /\ Handled(t) /\ Knows(t)
      /\ Share \subseteq Task /\ Paste \cap Share = {}
      /\ DOMAIN answer = Task /\ DOMAIN toasts = Task /\ DOMAIN mine = Task
      /\ DOMAIN stage = Task
  BY ClipboardAssumption DEF ShareInv, ClipboardTypeOK, Task
<1>1. CASE HandleCall
  <2>1. /\ calls # <<>> /\ calls' = Tail(calls) /\ step = "idle"
        /\ UNCHANGED <<clip, stage, toasts, mine>>
    BY <1>1 DEF HandleCall
  <2>2. CallsTyped' /\ clip'.copy \in Nat /\ "copy" \in DOMAIN clip'
    BY <1>0, <2>1, Shorter
  <2>3. ASSUME NEW t \in Share PROVE (Queued(t) /\ Handled(t) /\ Knows(t))'
    <3>1. CASE Head(calls).task = t
      <4>1. /\ \A i \in DOMAIN calls' : calls'[i].task # t
            /\ Writes(Head(calls).method)
            /\ Waits(t) /\ mine[t] = 0
        <5>1. 1 \in DOMAIN calls /\ Head(calls) = calls[1]
          BY <2>1, <1>0 DEF CallsTyped
        <5>. QED
          BY <1>0, <2>1, <2>3, <3>1, <5>1, Shorter DEF Queued
      <4>2. step' = "open" /\ cur' = Head(calls) /\ answer' = answer
        BY <1>1, <4>1 DEF HandleCall, Available
      <4>3. Handled(t)'
        BY <2>1, <4>1, <4>2 DEF Handled, Waits
      <4>. QED
        BY <1>0, <2>1, <2>3, <4>1, <4>2, <4>3 DEF Queued, Knows, Waits, SaysFailed
    <3>2. CASE Head(calls).task # t
      <4>1. answer'[t] = answer[t] /\ (step' = "idle" \/ cur'.task # t)
        BY <1>0, <1>1, <2>1, <2>3, <3>2 DEF HandleCall, Return
      <4>2. \A i \in DOMAIN calls' : \E j \in DOMAIN calls : calls'[i] = calls[j]
        BY <1>0, <2>1, Shorter
      <4>. QED
        BY <1>0, <2>1, <2>3, <4>1, <4>2 DEF Queued, Handled, Knows, Waits, SaysFailed
    <3>. QED
      BY <3>1, <3>2
  <2>. QED
    BY <2>2, <2>3 DEF ShareInv
<1>2. CASE GetData
  <2>1. /\ calls # <<>> /\ calls' = Tail(calls) /\ step = "idle" /\ step' = "idle"
        /\ UNCHANGED <<clip, stage, toasts, mine>>
    BY <1>2 DEF GetData
  <2>2. CallsTyped' /\ clip'.copy \in Nat /\ "copy" \in DOMAIN clip'
    BY <1>0, <2>1, Shorter
  <2>3. ASSUME NEW t \in Share PROVE (Queued(t) /\ Handled(t) /\ Knows(t))'
    <3>1. Head(calls).task # t
      <4>1. ~Writes(Head(calls).method)
        BY <1>2 DEF GetData, Writes
      <4>. QED
        BY <1>0, <2>1, <2>3, <4>1, Shorter
    <3>2. answer'[t] = answer[t]
      BY <1>0, <1>2, <2>3, <3>1 DEF GetData, Return
    <3>3. \A i \in DOMAIN calls' : \E j \in DOMAIN calls : calls'[i] = calls[j]
      BY <1>0, <2>1, Shorter
    <3>. QED
      BY <1>0, <2>1, <2>3, <3>2, <3>3 DEF Queued, Handled, Knows, Waits, SaysFailed
  <2>. QED
    BY <2>2, <2>3 DEF ShareInv
<1>3. CASE OpenClipboard
  <2>1. UNCHANGED <<clip, calls, stage, toasts, mine>>
    BY <1>3 DEF OpenClipboard
  <2>2. ASSUME NEW t \in Share PROVE (Queued(t) /\ Handled(t) /\ Knows(t))'
    <3>1. CASE step' = "use"
      BY <1>0, <1>3, <2>1, <2>2, <3>1
      DEF OpenClipboard, Idle, Queued, Handled, Knows, Waits, SaysFailed
    <3>2. CASE step' = "idle" /\ cur.task = t
      <4>1. answer' = [answer EXCEPT ![t] = Failed] /\ mine[t] = 0 /\ Waits(t)
        BY <1>0, <1>3, <2>2, <3>2 DEF OpenClipboard, Handled, Return
      <4>2. \A i \in DOMAIN calls : calls[i].task # t
        BY <1>0, <1>3, <2>2, <3>2 DEF OpenClipboard, Queued
      <4>. QED
        BY <1>0, <2>1, <2>2, <3>2, <4>1, <4>2 DEF Queued, Handled, Knows, Waits, SaysFailed, Failed
    <3>3. CASE step' = "idle" /\ cur.task # t
      <4>1. answer'[t] = answer[t]
        BY <1>0, <1>3, <2>2, <3>3 DEF OpenClipboard, Return, Idle
      <4>. QED
        BY <1>0, <2>1, <2>2, <3>3, <4>1 DEF Queued, Handled, Knows, Waits, SaysFailed
    <3>. QED
      BY <1>3, <3>1, <3>2, <3>3 DEF OpenClipboard, Idle
  <2>. QED
    BY <1>0, <2>1, <2>2 DEF ShareInv, CallsTyped
<1>4. CASE ReadImage \/ SaveImage \/ ReadFiles
  <2>1. /\ UNCHANGED <<clip, calls, stage, toasts, mine, answer, cur>> /\ step # "idle"
        /\ step = "encode" \/ ~Writes(cur.method)
    BY <1>4 DEF ReadImage, SaveImage, ReadFiles, NoData, Then, Writes
  <2>2. ASSUME NEW t \in Share PROVE (Queued(t) /\ Handled(t) /\ Knows(t))'
    BY <1>0, <2>1, <2>2 DEF Queued, Handled, Knows, Waits, SaysFailed
  <2>. QED
    BY <1>0, <2>1, <2>2 DEF ShareInv, CallsTyped
<1>5. CASE WriteFiles
  <2>1. /\ UNCHANGED <<calls, stage, toasts, answer, cur>>
        /\ step = "use" /\ step' = "close"
    BY <1>5 DEF WriteFiles, Then
  <2>2. clip'.copy = clip.copy + 1 /\ "copy" \in DOMAIN clip'
    <3>1. \E block, list : clip' = Drop(clip, block, list) \/ clip' = Emptied(clip.copy + 1)
      BY <1>5 DEF WriteFiles, Hold
    <3>. QED
      <4>1. "copy" \in DOMAIN Emptied(clip.copy + 1) /\ Emptied(clip.copy + 1).copy = clip.copy + 1
        BY DEF Emptied
      <4>2. CASE clip' = Emptied(clip.copy + 1)
        BY <4>1, <4>2
      <4>3. ASSUME NEW block, NEW list, clip' = Drop(clip, block, list)
            PROVE  clip'.copy = clip.copy + 1 /\ "copy" \in DOMAIN clip'
        BY <4>1, <4>3 DEF Drop, WithFiles
      <4>. QED
        BY <3>1, <4>2, <4>3
  <2>3. ASSUME NEW t \in Share PROVE (Queued(t) /\ Handled(t) /\ Knows(t))'
    <3>1. CASE cur.task = t
      <4>1. Waits(t) /\ mine[t] = 0 /\ \A i \in DOMAIN calls : calls[i].task # t
        BY <1>0, <2>1, <2>3, <3>1 DEF Handled, Queued
      <4>2. \/ result' = Done /\ mine'[t] = clip.copy + 1
            \/ result' = Failed /\ mine'[t] = 0
        BY <1>0, <1>5, <2>3, <3>1, <4>1 DEF WriteFiles, Then
      <4>3. clip.copy + 1 # 0
        BY <1>0
      <4>. QED
        BY <1>0, <2>1, <2>3, <3>1, <4>1, <4>2, <4>3 DEF Queued, Handled, Knows, Waits, SaysFailed
    <3>2. CASE cur.task # t
      <4>1. mine'[t] = mine[t]
        BY <1>0, <1>5, <2>3, <3>2 DEF WriteFiles
      <4>. QED
        BY <1>0, <2>1, <2>3, <3>2, <4>1 DEF Queued, Handled, Knows, Waits, SaysFailed
    <3>. QED
      BY <3>1, <3>2
  <2>. QED
    BY <1>0, <2>1, <2>2, <2>3 DEF ShareInv, CallsTyped
<1>6. CASE CloseClipboard
  <2>1. /\ UNCHANGED <<clip, calls, stage, toasts, mine>>
        /\ step = "close" /\ step' = "idle" /\ answer' = [answer EXCEPT ![cur.task] = result]
    BY <1>6 DEF CloseClipboard, Idle, Return
  <2>2. ASSUME NEW t \in Share PROVE (Queued(t) /\ Handled(t) /\ Knows(t))'
    <3>1. CASE cur.task = t
      <4>1. answer'[t] = result
        BY <1>0, <2>1, <2>2, <3>1
      <4>2. \/ answer'[t].kind = "clipboard" /\ mine[t] # 0
            \/ answer'[t].kind # "clipboard" /\ mine[t] = 0
        BY <1>0, <2>1, <2>2, <3>1, <4>1 DEF Handled, Done, Failed
      <4>3. Waits(t) /\ \A i \in DOMAIN calls : calls[i].task # t
        BY <1>0, <2>1, <2>2, <3>1 DEF Handled, Queued
      <4>. QED
        BY <1>0, <2>1, <2>2, <3>1, <4>2, <4>3 DEF Queued, Handled, Knows, Waits, SaysFailed
    <3>2. CASE cur.task # t
      BY <1>0, <2>1, <2>2, <3>2 DEF Queued, Handled, Knows, Waits, SaysFailed
    <3>. QED
      BY <3>1, <3>2
  <2>. QED
    BY <1>0, <2>1, <2>2 DEF ShareInv, CallsTyped
<1>7. CASE Others
  <2>1. UNCHANGED <<calls, handler, tasks, answer, mine>>
    BY <1>7 DEF Others, OtherOpens, OtherPuts, OtherCloses
  <2>2. clip'.copy \in Nat /\ "copy" \in DOMAIN clip'
    <3>1. CASE OtherOpens
      BY <1>0, <3>1 DEF OtherOpens, Hold, Emptied
    <3>2. CASE OtherPuts
      <4>1. \/ clip' = [clip EXCEPT !.image = TRUE] \/ clip' = [clip EXCEPT !.text = TRUE]
            \/ \E wide, block, list : clip' = WithFiles(clip, wide, block, list)
        BY <3>2 DEF OtherPuts, Hold
      <4>. QED
        BY <1>0, <4>1, CopyOf
    <3>3. CASE OtherCloses
      BY <1>0, <3>3 DEF OtherCloses
    <3>. QED
      BY <1>7, <3>1, <3>2, <3>3 DEF Others
  <2>3. ASSUME NEW t \in Share PROVE (Queued(t) /\ Handled(t) /\ Knows(t))'
    BY <1>0, <2>1, <2>3 DEF Queued, Handled, Knows, Waits, SaysFailed
  <2>. QED
    BY <1>0, <2>1, <2>2, <2>3 DEF ShareInv, CallsTyped
<1>8. CASE UNCHANGED clipboardVars
  <2>1. UNCHANGED <<clip, calls, handler, tasks, answer, mine>>
    BY <1>8 DEF clipboardVars
  <2>2. ASSUME NEW t \in Share PROVE (Queued(t) /\ Handled(t) /\ Knows(t))'
    BY <1>0, <2>1, <2>2 DEF Queued, Handled, Knows, Waits, SaysFailed
  <2>. QED
    BY <1>0, <2>1, <2>2 DEF ShareInv, CallsTyped
<1>9. ASSUME NEW p \in Task, Start(p) PROVE ShareInv'
  <2>1. PICK m \in Methods : Call(p, m) /\ (p \in Share => Writes(m) /\ Go(p, "share"))
    <3>1. CASE PasteKey(p)
      <4>1. Call(p, "readClipboardImage") /\ p \notin Share
        BY <1>0, <3>1 DEF PasteKey
      <4>2. "readClipboardImage" \in Methods
        BY DEF Methods
      <4>. QED
        BY <4>1, <4>2
    <3>2. ASSUME NEW paths, ShareFiles(p, paths)
          PROVE  \E m \in Methods : Call(p, m) /\ Writes(m) /\ Go(p, "share")
      BY <3>2 DEF ShareFiles, Writes, Call, Go, Methods
    <3>. QED
      BY <1>9, <3>1, <3>2 DEF Start, Call, Go
  <2>2. /\ UNCHANGED <<clip, handler, toasts, mine>> /\ stage[p] = "idle"
        /\ \A t \in Share : t # p => stage'[t] = stage[t] /\ answer'[t] = answer[t]
    BY <1>0, <1>9 DEF Start, PasteKey, ShareFiles, Begin, Call, Go
  <2>. DEFINE c == [task |-> p, method |-> m]
  <2>3. /\ c \in [task : Task, method : Methods] /\ calls' = Append(calls, c)
        /\ c.task \in Share => Writes(c.method)
        /\ c.task \in Share => \A i \in DOMAIN calls : calls[i].task # c.task
    BY <1>0, <2>1, <2>2 DEF Call, Queued, Waits
  <2>. HIDE DEF c
  <2>4. /\ CallsTyped'
        /\ \A i \in DOMAIN calls' :
             (i \in DOMAIN calls /\ calls'[i] = calls[i]) \/ calls'[i] = c
    BY <1>0, <2>3, Longer
  <2>5. c.task = p
    BY DEF c
  <2>6. ASSUME NEW t \in Share PROVE (Queued(t) /\ Handled(t) /\ Knows(t))'
    <3>1. CASE t = p
      <4>1. stage'[t] = "share" /\ answer'[t] = Pending /\ mine[t] = 0 /\ toasts[t] = <<>>
        BY <1>0, <2>1, <2>2, <2>6, <3>1 DEF Call, Go, Knows
      <4>2. step = "idle" \/ cur.task # t
        BY <1>0, <2>2, <2>6, <3>1 DEF Handled, Waits
      <4>. QED
        BY <2>2, <4>1, <4>2 DEF Queued, Handled, Knows, Waits, SaysFailed
    <3>2. CASE t # p
      BY <1>0, <2>2, <2>4, <2>5, <2>6, <3>2 DEF Queued, Handled, Knows, Waits, SaysFailed
    <3>. QED
      BY <3>1, <3>2
  <2>. QED
    BY <1>0, <2>2, <2>4, <2>6 DEF ShareInv
<1>10. ASSUME NEW p \in Task, AfterShare(p) PROVE ShareInv'
  <2>1. /\ UNCHANGED <<clip, calls, handler, mine>>
        /\ stage[p] = "share" /\ answer[p] # Pending
        /\ stage' = [stage EXCEPT ![p] = "done"] /\ answer' = [answer EXCEPT ![p] = Pending]
    BY <1>10 DEF AfterShare, At, Finish, Go
  <2>2. /\ \A t \in Task : t # p => toasts'[t] = toasts[t]
        /\ toasts'[p] = <<ToastOf(p), "copied">> \/ toasts'[p] = <<ToastOf(p)>>
    BY <1>0, <1>10 DEF AfterShare
  <2>3. ASSUME NEW t \in Share PROVE (Queued(t) /\ Handled(t) /\ Knows(t))'
    <3>1. CASE t = p
      <4>0. ToastOf(p) = "failed" <=> mine[t] = 0
        BY <1>0, <2>1, <2>3, <3>1 DEF ToastOf, Knows
      <4>1. SaysFailed(t)' <=> mine[t] = 0
        BY <2>2, <3>1, <4>0 DEF SaysFailed
      <4>2. (\A i \in DOMAIN calls : calls[i].task # t) /\ (step = "idle" \/ cur.task # t)
        BY <1>0, <2>1, <2>3, <3>1 DEF Queued, Handled, Waits
      <4>. QED
        BY <1>0, <2>1, <2>3, <3>1, <4>1, <4>2 DEF Queued, Handled, Knows, Waits, SaysFailed
    <3>2. CASE t # p
      BY <1>0, <2>1, <2>2, <2>3, <3>2 DEF Queued, Handled, Knows, Waits, SaysFailed
    <3>. QED
      BY <3>1, <3>2
  <2>. QED
    BY <1>0, <2>1, <2>3 DEF ShareInv, CallsTyped
<1>11. ASSUME NEW p \in Task, AfterImage(p) \/ AfterFiles(p) \/ AfterText(p) PROVE ShareInv'
  <2>1. UNCHANGED <<clip, handler, toasts, mine>> /\ stage[p] \in {"image", "files", "text"}
    BY <1>11 DEF AfterImage, AfterFiles, AfterText, At
  <2>2. p \notin Share
    BY <1>0, <2>1 DEF Knows
  <2>3. \A t \in Share : stage'[t] = stage[t] /\ answer'[t] = answer[t]
    BY <1>0, <1>11, <2>2 DEF AfterImage, AfterFiles, AfterText, Finish, Ask, Go, Call
  <2>4. CallsTyped' /\ \A i \in DOMAIN calls' :
             (i \in DOMAIN calls /\ calls'[i] = calls[i]) \/ calls'[i].task = p
    <3>1. CASE UNCHANGED calls
      BY <1>0, <3>1 DEF CallsTyped
    <3>2. ASSUME NEW m \in Methods, Call(p, m)
          PROVE  CallsTyped' /\ \A i \in DOMAIN calls' :
             (i \in DOMAIN calls /\ calls'[i] = calls[i]) \/ calls'[i].task = p
      <4>. DEFINE c == [task |-> p, method |-> m]
      <4>1. c \in [task : Task, method : Methods] /\ calls' = Append(calls, c) /\ c.task = p
        BY <1>11, <3>2 DEF Call
      <4>. HIDE DEF c
      <4>2. c.task \notin Share
        BY <2>2, <4>1
      <4>3. CallsTyped' /\ \A i \in DOMAIN calls' :
              (i \in DOMAIN calls /\ calls'[i] = calls[i]) \/ calls'[i] = c
        BY <1>0, <4>1, <4>2, Longer
      <4>. QED
        BY <4>1, <4>3
    <3>. QED
      <4>1. UNCHANGED calls \/ Call(p, "readClipboardFiles") \/ Call(p, "getData")
        BY <1>11 DEF AfterImage, AfterFiles, AfterText, Ask
      <4>2. {"readClipboardFiles", "getData"} \subseteq Methods
        BY DEF Methods
      <4>. QED
        BY <3>1, <3>2, <4>1, <4>2
  <2>5. ASSUME NEW t \in Share PROVE (Queued(t) /\ Handled(t) /\ Knows(t))'
    BY <1>0, <2>1, <2>2, <2>3, <2>4, <2>5 DEF Queued, Handled, Knows, Waits, SaysFailed
  <2>. QED
    BY <1>0, <2>1, <2>4, <2>5 DEF ShareInv
<1>. QED
  BY <1>1, <1>2, <1>3, <1>4, <1>5, <1>6, <1>7, <1>8, <1>9, <1>10, <1>11
  DEF ClipboardNext, Inside, Resume

-----------------------------------------------------------------------------
(* The block of a list of files gives the list again. *)

\* An induction over the natural numbers: of those not in Q, one would be minimal.
LEMMA Counting ==
  ASSUME NEW Q, 0 \in Q, \A n \in Nat : n \in Q => n + 1 \in Q
  PROVE  Nat \subseteq Q
<1>. DEFINE bad  == Nat \ Q
            less == OpToRel(<, Nat)
<1>1. \A n \in Nat : n # 0 => n - 1 \in Nat /\ <<n - 1, n>> \in less /\ (n - 1) + 1 = n
  BY DEF OpToRel
<1>2. IsWellFoundedOn(less, Nat)
  BY NatLessThanWellFounded
<1>. HIDE DEF less
<1>3. ASSUME bad # {} PROVE FALSE
  <2>1. bad \subseteq Nat
    OBVIOUS
  <2>2. PICK n \in bad : \A m \in bad : <<m, n>> \notin less
    <3>. HIDE DEF bad
    <3>. QED
      BY <1>2, <1>3, <2>1, WFMin
  <2>3. n \in Nat /\ n \notin Q /\ n # 0
    BY <2>1
  <2>4. n - 1 \in Nat /\ n - 1 \notin bad /\ (n - 1) + 1 = n
    <3>. HIDE DEF bad
    <3>. QED
      BY <1>1, <2>2, <2>3
  <2>. QED
    BY <2>3, <2>4
<1>. QED
  BY <1>3

\* one turn of the loop that reads a block
Reading(block, l) ==
  LET text == ToUtf8(SubSeq(block, l.at, Len(block)))
  IN IF block[l.at] = 0 THEN l ELSE [at |-> l.at + Len(text) + 1, names |-> Append(l.names, text)]

\* The three loops: a turn, with what they have come to in the turn before.
Turn(loop, x, f, k) ==
  CASE loop = "text"  -> IF k = 0 THEN <<>> ELSE f[k - 1] \o x[k] \o <<0>>
    [] loop = "chars" -> IF k = 0 THEN 2 ELSE f[k - 1] + Len(x[k]) + 1
    [] loop = "names" -> IF k = 0 THEN [at |-> 1, names |-> <<>>] ELSE Reading(x, f[k - 1])

Run(loop, x, n, f) == f = [k \in 0 .. n |-> Turn(loop, x, f, k)]

LEMMA RunIs ==
  ASSUME NEW loop, NEW x, NEW n, NEW f, Run(loop, x, n, f)
  PROVE  \A k \in 0 .. n : f[k] = Turn(loop, x, f, k)
<1>. DEFINE h == [k \in 0 .. n |-> Turn(loop, x, f, k)]
<1>1. f = h
  BY DEF Run
<1>2. \A k \in 0 .. n : h[k] = Turn(loop, x, f, k)
  OBVIOUS
<1>. HIDE DEF h
<1>. QED
  BY <1>1, <1>2

LEMMA Runs ==
  ASSUME NEW loop, NEW x
  PROVE  \A n \in Nat : \E f : Run(loop, x, n, f)
<1>. DEFINE Q == {n \in Nat : \E f : Run(loop, x, n, f)}
<1>0. ASSUME NEW k, NEW f, NEW g, k = 0 \/ f[k - 1] = g[k - 1]
      PROVE  Turn(loop, x, f, k) = Turn(loop, x, g, k)
  BY <1>0 DEF Turn
<1>1. 0 \in Q
  <2>. DEFINE f == [k \in 0 .. 0 |-> Turn(loop, x, <<>>, k)]
  <2>1. \A k \in 0 .. 0 : Turn(loop, x, <<>>, k) = Turn(loop, x, f, k)
    BY <1>0
  <2>2. Run(loop, x, 0, f)
    BY <2>1 DEF Run
  <2>. QED
    BY <2>2
<1>2. ASSUME NEW n \in Nat, n \in Q PROVE n + 1 \in Q
  <2>1. PICK f : Run(loop, x, n, f)
    BY <1>2
  <2>. DEFINE g == [k \in 0 .. n + 1 |-> Turn(loop, x, f, k)]
  <2>2. \A k \in 0 .. n : g[k] = f[k]
    BY <2>1, RunIs
  <2>3. \A k \in 0 .. n + 1 : Turn(loop, x, f, k) = Turn(loop, x, g, k)
    <3>1. \A k \in 0 .. n + 1 : k # 0 => k - 1 \in 0 .. n
      OBVIOUS
    <3>2. \A k \in 0 .. n + 1 : k # 0 => g[k - 1] = f[k - 1]
      BY <2>2, <3>1
    <3>. HIDE DEF g
    <3>. QED
      BY <1>0, <3>2
  <2>4. Run(loop, x, n + 1, g)
    BY <2>3 DEF Run
  <2>. HIDE DEF g
  <2>. QED
    BY <2>4
<1>3. Nat \subseteq Q
  <2>. HIDE DEF Q
  <2>. QED
    BY <1>1, <1>2, Counting
<1>. QED
  BY <1>3

Lines == Seq(Path)
Texts == Seq(Nat)

LEMMA PathIs ==
  \A p \in Path : p \in Texts /\ p \in Seq(Nat \ {0}) /\ Len(p) \in Nat \ {0}
BY EmptySeq DEF Path, Texts

\* What Joined goes through: each text is the one before with a path and its NUL.
Grows(paths, f) ==
  /\ f[0] = <<>>
  /\ \A k \in 1 .. Len(paths) : f[k] = f[k - 1] \o paths[k] \o <<0>>
  /\ \A k \in 0 .. Len(paths) : f[k] \in Texts /\ Len(f[k]) >= k

LEMMA JoinedIs ==
  ASSUME NEW paths \in Lines
  PROVE  \E f : Grows(paths, f) /\ Joined(paths) = f[Len(paths)]
<1>. DEFINE n == Len(paths)
            f == CHOOSE g : g = [k \in 0 .. n |-> IF k = 0 THEN <<>>
                                                  ELSE g[k - 1] \o paths[k] \o <<0>>]
<1>1. n \in Nat /\ \A k \in 1 .. n : paths[k] \in Path
  BY DEF Lines
<1>2. f = [k \in 0 .. n |-> IF k = 0 THEN <<>> ELSE f[k - 1] \o paths[k] \o <<0>>]
  <2>1. PICK g : Run("text", paths, n, g)
    BY <1>1, Runs
  <2>2. g = [k \in 0 .. n |-> IF k = 0 THEN <<>> ELSE g[k - 1] \o paths[k] \o <<0>>]
    BY <2>1 DEF Run, Turn
  <2>. QED
    BY <2>2
<1>3. Joined(paths) = f[n]
  BY DEF Joined
<1>. HIDE DEF f, n
<1>4. \A k \in 0 .. n : f[k] = IF k = 0 THEN <<>> ELSE f[k - 1] \o paths[k] \o <<0>>
  <2>. DEFINE h == [k \in 0 .. n |-> IF k = 0 THEN <<>> ELSE f[k - 1] \o paths[k] \o <<0>>]
  <2>1. f = h
    BY <1>2
  <2>2. \A k \in 0 .. n : h[k] = IF k = 0 THEN <<>> ELSE f[k - 1] \o paths[k] \o <<0>>
    OBVIOUS
  <2>. HIDE DEF h
  <2>. QED
    BY <2>1, <2>2
<1>. DEFINE Q == {k \in Nat : k <= n => f[k] \in Texts /\ Len(f[k]) >= k}
<1>5. 0 \in Q
  <2>1. 0 \in 0 .. n
    BY <1>1
  <2>2. f[0] = <<>>
    BY <1>4, <2>1
  <2>3. <<>> \in Texts /\ Len(<<>>) = 0
    BY EmptySeq DEF Texts
  <2>. QED
    BY <2>2, <2>3
<1>6. ASSUME NEW k \in Nat, k \in Q PROVE k + 1 \in Q
  <2>. SUFFICES ASSUME k + 1 <= n PROVE f[k + 1] \in Texts /\ Len(f[k + 1]) >= k + 1
    OBVIOUS
  <2>1. f[k] \in Texts /\ Len(f[k]) >= k /\ k + 1 \in 0 .. n /\ k + 1 \in 1 .. n /\ (k + 1) - 1 = k
    BY <1>1, <1>6
  <2>. HIDE DEF Q
  <2>. DEFINE s == f[k]
              t == f[k + 1]
              p == paths[k + 1]
  <2>2. p \in Path
    BY <1>1, <2>1
  <2>3. t = s \o p \o <<0>>
    <3>1. t = IF k + 1 = 0 THEN <<>> ELSE f[(k + 1) - 1] \o paths[k + 1] \o <<0>>
      BY <1>4, <2>1, Zenon
    <3>2. k + 1 # 0
      OBVIOUS
    <3>. QED
      BY <2>1, <3>1, <3>2, Zenon
  <2>4. s \in Texts /\ Len(s) >= k
    BY <2>1
  <2>. HIDE DEF s, t, p
  <2>5. /\ p \in Texts /\ Len(p) \in Nat /\ Len(s) \in Nat
        /\ <<0>> \in Texts /\ Len(<<0>>) = 1
    BY <2>2, <2>4, PathIs DEF Texts
  <2>6. s \o p \in Texts /\ Len(s \o p) = Len(s) + Len(p)
    BY <2>4, <2>5, ConcatProperties DEF Texts
  <2>7. t \in Texts /\ Len(t) = Len(s) + Len(p) + 1
    BY <2>3, <2>5, <2>6, ConcatProperties DEF Texts
  <2>8. t \in Texts /\ Len(t) >= k + 1
    BY <2>4, <2>5, <2>7
  <2>. QED
    BY <2>8 DEF t
<1>7. Nat \subseteq Q
  <2>. HIDE DEF Q
  <2>. QED
    BY <1>5, <1>6, Counting
<1>8. \A k \in 0 .. n : f[k] \in Texts /\ Len(f[k]) >= k
  BY <1>1, <1>7
<1>9. Grows(paths, f)
  <2>1. ASSUME NEW k \in 1 .. n PROVE f[k] = f[k - 1] \o paths[k] \o <<0>>
    <3>1. k \in 0 .. n /\ k # 0
      BY <1>1
    <3>. QED
      BY <1>4, <3>1
  <2>2. f[0] = <<>>
    <3>1. 0 \in 0 .. n
      BY <1>1
    <3>. QED
      BY <1>4, <3>1
  <2>. QED
    BY <1>8, <2>1, <2>2 DEF Grows, n
<1>. QED
  BY <1>3, <1>9 DEF n

\* t is s with p and a NUL behind it.
Behind(s, p, t) ==
  /\ Len(t) = Len(s) + Len(p) + 1
  /\ \A i \in 1 .. Len(s) : t[i] = s[i]
  /\ \A i \in 1 .. Len(p) : t[Len(s) + i] = p[i]
  /\ t[Len(t)] = 0

LEMMA Added ==
  ASSUME NEW s \in Texts, NEW p \in Texts
  PROVE  Behind(s, p, s \o p \o <<0>>)
<1>. DEFINE u == s \o p
            t == u \o <<0>>
<1>1. <<0>> \in Texts /\ Len(<<0>>) = 1 /\ <<0>>[1] = 0
  BY DEF Texts
<1>2. Len(s) \in Nat /\ Len(p) \in Nat
  BY LenProperties DEF Texts
<1>3. /\ u \in Texts /\ Len(u) = Len(s) + Len(p)
      /\ \A i \in 1 .. Len(s) + Len(p) : u[i] = IF i <= Len(s) THEN s[i] ELSE p[i - Len(s)]
  BY ConcatProperties DEF Texts
<1>. HIDE DEF u
<1>4. /\ Len(t) = Len(u) + 1
      /\ \A i \in 1 .. Len(u) + 1 : t[i] = IF i <= Len(u) THEN u[i] ELSE <<0>>[i - Len(u)]
  <2>1. u \in Seq(Nat) /\ <<0>> \in Seq(Nat)
    BY <1>1, <1>3 DEF Texts
  <2>2. /\ Len(u \o <<0>>) = Len(u) + Len(<<0>>)
        /\ \A i \in 1 .. Len(u) + Len(<<0>>) :
             (u \o <<0>>)[i] = IF i <= Len(u) THEN u[i] ELSE <<0>>[i - Len(u)]
    BY <2>1, ConcatProperties
  <2>. QED
    BY <1>1, <2>2
<1>. HIDE DEF t
<1>5. \A i \in 1 .. Len(s) : t[i] = s[i]
  BY <1>2, <1>3, <1>4
<1>6. \A i \in 1 .. Len(p) : t[Len(s) + i] = p[i]
  <2>. SUFFICES ASSUME NEW i \in 1 .. Len(p) PROVE t[Len(s) + i] = p[i]
    OBVIOUS
  <2>1. Len(s) + i \in 1 .. Len(s) + Len(p) /\ ~(Len(s) + i <= Len(s)) /\ (Len(s) + i) - Len(s) = i
    BY <1>2
  <2>. QED
    BY <1>2, <1>3, <1>4, <2>1
<1>7. t[Len(t)] = 0
  <2>1. Len(t) \in 1 .. Len(u) + 1 /\ ~(Len(t) <= Len(u)) /\ Len(t) - Len(u) = 1
    BY <1>2, <1>3, <1>4
  <2>. QED
    BY <1>1, <1>4, <2>1
<1>8. Behind(s, p, t)
  BY <1>2, <1>3, <1>4, <1>5, <1>6, <1>7 DEF Behind
<1>. QED
  BY <1>8 DEF t, u

LEMMA TurnAdds ==
  ASSUME NEW paths \in Lines, NEW f, Grows(paths, f)
  PROVE  \A m \in 1 .. Len(paths) : Behind(f[m - 1], paths[m], f[m])
<1>. SUFFICES ASSUME NEW m \in 1 .. Len(paths) PROVE Behind(f[m - 1], paths[m], f[m])
  OBVIOUS
<1>1. m - 1 \in 0 .. Len(paths) /\ paths[m] \in Path
  BY DEF Lines
<1>2. f[m] = f[m - 1] \o paths[m] \o <<0>> /\ f[m - 1] \in Texts
  BY <1>1 DEF Grows
<1>3. paths[m] \in Texts
  BY <1>1, PathIs
<1>. QED
  BY <1>2, <1>3, Added, Zenon

\* What is written stays.
LEMMA Stays ==
  ASSUME NEW paths \in Lines, NEW f, Grows(paths, f), NEW k \in 0 .. Len(paths)
  PROVE  \A m \in k .. Len(paths) : /\ Len(f[k]) <= Len(f[m])
                                    /\ \A i \in 1 .. Len(f[k]) : f[m][i] = f[k][i]
<1>0. \A m \in 1 .. Len(paths) : Behind(f[m - 1], paths[m], f[m])
  BY TurnAdds
<1>. DEFINE n == Len(paths)
            Q == {j \in Nat : k + j <= n => /\ Len(f[k]) <= Len(f[k + j])
                                            /\ \A i \in 1 .. Len(f[k]) : f[k + j][i] = f[k][i]}
<1>1. n \in Nat /\ k \in Nat
  BY DEF Lines
<1>2. \A j \in 0 .. n : Len(f[j]) \in Nat
  BY LenProperties DEF Grows, Texts
<1>. HIDE DEF n
<1>3. 0 \in Q
  BY <1>1, <1>2 DEF n
<1>4. ASSUME NEW j \in Nat, j \in Q PROVE j + 1 \in Q
  <2>. SUFFICES ASSUME k + (j + 1) <= n
                PROVE  /\ Len(f[k]) <= Len(f[k + (j + 1)])
                       /\ \A i \in 1 .. Len(f[k]) : f[k + (j + 1)][i] = f[k][i]
    OBVIOUS
  <2>. DEFINE m == k + (j + 1)
  <2>1. m \in 1 .. n /\ m - 1 = k + j /\ k + j \in 0 .. n /\ k + j <= n
    BY <1>1
  <2>2. Len(f[k]) <= Len(f[m - 1]) /\ \A i \in 1 .. Len(f[k]) : f[m - 1][i] = f[k][i]
    BY <1>4, <2>1
  <2>. HIDE DEF Q
  <2>. HIDE DEF m
  <2>3. Behind(f[m - 1], paths[m], f[m])
    <3>1. m \in 1 .. Len(paths)
      BY <2>1 DEF n
    <3>. QED
      BY <1>0, <3>1
  <2>4. Len(paths[m]) \in Nat /\ Len(f[m - 1]) \in Nat /\ Len(f[k]) \in Nat
    BY <1>1, <1>2, <2>1, PathIs DEF Lines, n
  <2>. DEFINE a == f[k]
              b == f[m - 1]
              c == f[m]
              p == paths[m]
  <2>5. /\ Len(a) <= Len(b) /\ (\A i \in 1 .. Len(a) : b[i] = a[i]) /\ Behind(b, p, c)
        /\ Len(p) \in Nat /\ Len(b) \in Nat /\ Len(a) \in Nat
    BY <2>2, <2>3, <2>4
  <2>. HIDE DEF a, b, c, p
  <2>6. Len(a) <= Len(c) /\ \A i \in 1 .. Len(a) : c[i] = a[i]
    BY <2>5 DEF Behind
  <2>. QED
    BY <2>6 DEF m, a, c
<1>5. Nat \subseteq Q
  <2>. HIDE DEF Q
  <2>. QED
    BY <1>3, <1>4, Counting
<1>6. ASSUME NEW m \in k .. n
      PROVE  Len(f[k]) <= Len(f[m]) /\ \A i \in 1 .. Len(f[k]) : f[m][i] = f[k][i]
  <2>1. m - k \in Nat /\ k + (m - k) = m /\ m <= n
    BY <1>1
  <2>2. m - k \in Q
    BY <1>5, <2>1
  <2>. QED
    BY <2>1, <2>2
<1>. QED
  BY <1>6 DEF n

\* What is allocated is what is written and two characters more.
LEMMA CharsIs ==
  ASSUME NEW paths \in Lines
  PROVE  Chars(paths) = Len(Joined(paths)) + 2
<1>. DEFINE n == Len(paths)
            c == CHOOSE g : g = [k \in 0 .. n |-> IF k = 0 THEN 2
                                                  ELSE g[k - 1] + Len(paths[k]) + 1]
<1>1. n \in Nat /\ \A k \in 1 .. n : paths[k] \in Path
  BY DEF Lines
<1>2. c = [k \in 0 .. n |-> IF k = 0 THEN 2 ELSE c[k - 1] + Len(paths[k]) + 1]
  <2>1. PICK g : Run("chars", paths, n, g)
    BY <1>1, Runs
  <2>2. g = [k \in 0 .. n |-> IF k = 0 THEN 2 ELSE g[k - 1] + Len(paths[k]) + 1]
    BY <2>1 DEF Run, Turn
  <2>. QED
    BY <2>2
<1>3. Chars(paths) = c[n]
  BY DEF Chars
<1>. HIDE DEF c, n
<1>4. \A k \in 0 .. n : c[k] = IF k = 0 THEN 2 ELSE c[k - 1] + Len(paths[k]) + 1
  <2>. DEFINE h == [k \in 0 .. n |-> IF k = 0 THEN 2 ELSE c[k - 1] + Len(paths[k]) + 1]
  <2>1. c = h
    BY <1>2
  <2>2. \A k \in 0 .. n : h[k] = IF k = 0 THEN 2 ELSE c[k - 1] + Len(paths[k]) + 1
    OBVIOUS
  <2>. HIDE DEF h
  <2>. QED
    BY <2>1, <2>2
<1>5. PICK f : Grows(paths, f) /\ Joined(paths) = f[n]
  BY JoinedIs DEF n
<1>6. /\ f[0] = <<>> /\ \A k \in 0 .. n : Len(f[k]) \in Nat
      /\ \A k \in 1 .. n : Behind(f[k - 1], paths[k], f[k])
  BY <1>5, TurnAdds, LenProperties DEF Grows, Texts, n
<1>. DEFINE Q == {k \in Nat : k <= n => c[k] = Len(f[k]) + 2}
<1>7. 0 \in Q
  <2>1. 0 \in 0 .. n /\ Len(<<>>) = 0
    BY <1>1, EmptySeq
  <2>. QED
    BY <1>4, <1>6, <2>1
<1>8. ASSUME NEW k \in Nat, k \in Q PROVE k + 1 \in Q
  <2>. SUFFICES ASSUME k + 1 <= n PROVE c[k + 1] = Len(f[k + 1]) + 2
    OBVIOUS
  <2>1. c[k] = Len(f[k]) + 2 /\ k \in 0 .. n /\ k + 1 \in 0 .. n /\ k + 1 \in 1 .. n
        /\ (k + 1) - 1 = k /\ k + 1 # 0
    BY <1>1, <1>8
  <2>. HIDE DEF Q
  <2>. DEFINE s == f[k]
              t == f[k + 1]
              p == paths[k + 1]
              x == c[k]
              y == c[k + 1]
  <2>2. x = Len(s) + 2 /\ Len(s) \in Nat
    BY <1>6, <2>1
  <2>3. y = x + Len(p) + 1
    <3>1. y = IF k + 1 = 0 THEN 2 ELSE c[(k + 1) - 1] + Len(p) + 1
      BY <1>4, <2>1, Zenon
    <3>. QED
      BY <2>1, <3>1, Zenon
  <2>4. Behind(s, p, t)
    <3>1. Behind(f[(k + 1) - 1], p, t)
      BY <1>6, <2>1, Zenon
    <3>. QED
      BY <2>1, <3>1, Zenon
  <2>5. Len(p) \in Nat
    BY <1>1, <2>1, PathIs
  <2>. HIDE DEF s, t, p, x, y
  <2>6. y = Len(t) + 2
    BY <2>2, <2>3, <2>4, <2>5 DEF Behind
  <2>. QED
    BY <2>6 DEF y, t
<1>9. Nat \subseteq Q
  <2>. HIDE DEF Q
  <2>. QED
    BY <1>7, <1>8, Counting
<1>. QED
  BY <1>1, <1>3, <1>5, <1>9

\* A C string in a longer text: up to the first NUL.
LEMMA StringAt ==
  ASSUME NEW s, NEW m \in Nat, NEW n \in Nat, NEW p \in Seq(Nat \ {0}), Len(p) < n,
         \A i \in 1 .. n : s[m + i] \in Nat,
         \A i \in 1 .. Len(p) : s[m + i] = p[i],
         s[m + Len(p) + 1] = 0
  PROVE  UpToNul(SubSeq(s, m + 1, m + n)) = p
<1>. DEFINE t == SubSeq(s, m + 1, m + n)
            l == Len(p)
            nuls == {i \in DOMAIN t : t[i] = 0}
<1>1. l \in Nat /\ p \in Seq(Nat) /\ \A i \in 1 .. l : p[i] \in Nat \ {0}
  BY LenProperties
<1>2. /\ t \in Seq(Nat) /\ Len(t) = n
      /\ \A i \in 1 .. n : t[i] = s[m + i]
  <2>1. \A i \in m + 1 .. m + n : s[i] \in Nat
    <3>. SUFFICES ASSUME NEW i \in m + 1 .. m + n PROVE s[i] \in Nat
      OBVIOUS
    <3>1. i - m \in 1 .. n /\ m + (i - m) = i
      OBVIOUS
    <3>. QED
      BY <3>1
  <2>2. /\ t \in Seq(Nat)
        /\ Len(t) = IF m + 1 <= m + n THEN (m + n) - (m + 1) + 1 ELSE 0
        /\ \A i \in 1 .. (m + n) - (m + 1) + 1 : t[i] = s[(m + 1) + i - 1]
    BY <2>1, SubSeqProperties
  <2>. HIDE DEF t
  <2>3. Len(t) = n /\ (m + n) - (m + 1) + 1 = n
    BY <2>2
  <2>4. \A i \in 1 .. n : (m + 1) + i - 1 = m + i
    OBVIOUS
  <2>. QED
    BY <2>2, <2>3, <2>4
<1>. HIDE DEF t, l
<1>3. DOMAIN t = 1 .. n /\ l < n
  BY <1>2, LenProperties DEF l
<1>4. t[l + 1] = 0 /\ \A i \in 1 .. l : t[i] = p[i]
  <2>1. l + 1 \in 1 .. n /\ m + (l + 1) = m + l + 1
    BY <1>1, <1>3
  <2>2. \A i \in 1 .. l : i \in 1 .. n
    BY <1>1, <1>3
  <2>. QED
    BY <1>2, <2>1, <2>2 DEF l
<1>5. l + 1 \in nuls /\ \A i \in nuls : l + 1 <= i
  <2>1. l + 1 \in nuls
    BY <1>1, <1>3, <1>4
  <2>2. ASSUME NEW i \in nuls, ~(l + 1 <= i) PROVE FALSE
    <3>1. i \in 1 .. l /\ t[i] = 0
      BY <1>1, <1>3, <2>2
    <3>. QED
      BY <1>1, <1>4, <3>1
  <2>. QED
    BY <2>1, <2>2
<1>6. Min(nuls) = l + 1
  <2>. DEFINE min == CHOOSE x \in nuls : \A y \in nuls : x <= y
  <2>1. nuls \subseteq Int /\ Min(nuls) = min
    BY <1>3 DEF Min
  <2>. HIDE DEF nuls
  <2>2. min \in nuls /\ \A y \in nuls : min <= y
    BY <1>5
  <2>. HIDE DEF min
  <2>3. min <= l + 1 /\ l + 1 <= min /\ min \in Int
    BY <1>5, <2>1, <2>2
  <2>. QED
    BY <1>1, <2>1, <2>3
<1>7. UpToNul(t) = SubSeq(t, 1, l)
  <2>1. nuls # {}
    BY <1>5
  <2>2. UpToNul(t) = SubSeq(t, 1, Min(nuls) - 1)
    BY <2>1 DEF UpToNul
  <2>. HIDE DEF nuls
  <2>3. Min(nuls) - 1 = l
    BY <1>1, <1>6
  <2>. QED
    BY <2>2, <2>3
<1>8. SubSeq(t, 1, l) = p
  <2>1. \A i \in 1 .. l : t[i] \in Nat
    BY <1>1, <1>4
  <2>2. /\ SubSeq(t, 1, l) \in Seq(Nat)
        /\ Len(SubSeq(t, 1, l)) = IF 1 <= l THEN l - 1 + 1 ELSE 0
        /\ \A i \in 1 .. l - 1 + 1 : SubSeq(t, 1, l)[i] = t[1 + i - 1]
    BY <1>1, <2>1, SubSeqProperties
  <2>3. Len(SubSeq(t, 1, l)) = l /\ \A i \in 1 .. l : SubSeq(t, 1, l)[i] = p[i]
    BY <1>1, <1>4, <2>2
  <2>. QED
    BY <1>1, <2>2, <2>3, SeqEqual DEF l
<1>. QED
  BY <1>7, <1>8 DEF t

\* A path has no NUL in it.
LEMMA NoNul == \A p \in Path : UpToNul(p) = p
BY DEF UpToNul, Path

LEMMA OneMore ==
  ASSUME NEW paths \in Lines, NEW k \in 1 .. Len(paths)
  PROVE  Append(SubSeq(paths, 1, k - 1), paths[k]) = SubSeq(paths, 1, k)
<1>1. paths \in Seq(Path) /\ Len(paths) \in Nat /\ k \in Nat /\ \A i \in 1 .. Len(paths) : paths[i] \in Path
  BY DEF Lines
<1>2. \A i \in 1 .. k : paths[i] \in Path
  BY <1>1
<1>. DEFINE a == SubSeq(paths, 1, k - 1)
            b == SubSeq(paths, 1, k)
<1>3. a \in Seq(Path) /\ Len(a) = k - 1 /\ \A i \in 1 .. k - 1 : a[i] = paths[i]
  <2>1. /\ a \in Seq(Path)
        /\ Len(a) = IF 1 <= k - 1 THEN (k - 1) - 1 + 1 ELSE 0
        /\ \A i \in 1 .. (k - 1) - 1 + 1 : a[i] = paths[1 + i - 1]
    BY <1>1, SubSeqProperties
  <2>. HIDE DEF a
  <2>. QED
    BY <1>1, <2>1
<1>4. b \in Seq(Path) /\ Len(b) = k /\ \A i \in 1 .. k : b[i] = paths[i]
  <2>1. /\ b \in Seq(Path)
        /\ Len(b) = IF 1 <= k THEN k - 1 + 1 ELSE 0
        /\ \A i \in 1 .. k - 1 + 1 : b[i] = paths[1 + i - 1]
    BY <1>1, SubSeqProperties
  <2>. HIDE DEF b
  <2>. QED
    BY <1>1, <2>1
<1>. DEFINE p == paths[k]
            c == Append(a, p)
<1>. HIDE DEF a, b
<1>5. p \in Path
  BY <1>1
<1>6. c \in Seq(Path) /\ Len(c) = k /\ \A i \in 1 .. k : c[i] = IF i <= k - 1 THEN a[i] ELSE p
  <2>. HIDE DEF p
  <2>. QED
    BY <1>1, <1>3, <1>5, AppendProperties
<1>. HIDE DEF c
<1>7. \A i \in 1 .. k : c[i] = b[i]
  <2>. SUFFICES ASSUME NEW i \in 1 .. k PROVE c[i] = b[i]
    OBVIOUS
  <2>1. CASE i <= k - 1
    <3>1. i \in 1 .. k - 1
      BY <1>1, <2>1
    <3>. QED
      BY <1>3, <1>4, <1>6, <2>1, <3>1
  <2>2. CASE i = k
    BY <1>1, <1>4, <1>6, <2>2
  <2>. QED
    BY <1>1, <2>1, <2>2
<1>8. c = b
  BY <1>4, <1>6, <1>7, SeqEqual
<1>. QED
  BY <1>8 DEF c, p, a, b

\* The block holds the text, and a NUL behind it.
Holds(block, text) ==
  /\ block \in Texts /\ Len(text) < Len(block)
  /\ \A i \in 1 .. Len(text) : block[i] = text[i]
  /\ block[Len(text) + 1] = 0

\* where the loop is after k turns
After(paths, f, k) == [at |-> Len(f[k]) + 1, names |-> SubSeq(paths, 1, k)]

LEMMA TurnReads ==
  ASSUME NEW paths \in Lines, NEW f, Grows(paths, f), NEW k \in 1 .. Len(paths),
         NEW block, Holds(block, f[Len(paths)])
  PROVE  Reading(block, After(paths, f, k - 1)) = After(paths, f, k)
<1>. DEFINE s == f[k - 1]
            t == f[k]
            p == paths[k]
            n == Len(block)
            r == n - Len(s)
<1>1. Behind(s, p, t) /\ k \in 0 .. Len(paths) /\ k - 1 \in 0 .. Len(paths) /\ Len(paths) \in k .. Len(paths)
  BY TurnAdds DEF Lines
<1>2. p \in Path
  BY DEF Lines
<1>3. Len(t) < n /\ \A i \in 1 .. Len(t) : block[i] = t[i]
  <2>1. Len(f[k]) <= Len(f[Len(paths)]) /\ \A i \in 1 .. Len(f[k]) : f[Len(paths)][i] = f[k][i]
    BY <1>1, Stays
  <2>2. Len(f[k]) \in Nat /\ Len(f[Len(paths)]) \in Nat
    BY <1>1, LenProperties DEF Grows, Texts
  <2>. DEFINE text == f[Len(paths)]
  <2>3. Holds(block, text) /\ Len(t) <= Len(text) /\ (\A i \in 1 .. Len(t) : text[i] = t[i])
        /\ Len(text) \in Nat /\ Len(t) \in Nat
    BY <2>1, <2>2
  <2>4. Len(block) \in Nat
    BY LenProperties DEF Holds, Texts
  <2>. HIDE DEF text, t
  <2>. QED
    BY <2>3, <2>4 DEF Holds
<1>4. s \in Texts /\ block \in Texts /\ Len(s) \in Nat /\ n \in Nat
  BY <1>1, LenProperties DEF Grows, Holds, Texts
<1>5. p \in Seq(Nat \ {0}) /\ Len(p) \in Nat \ {0} /\ p[1] # 0
  BY <1>2, PathIs
<1>6. SubSeq(paths, 1, k) = Append(SubSeq(paths, 1, k - 1), p)
  BY OneMore
<1>7. ToUtf8(SubSeq(block, Len(s) + 1, n)) = p
  <2>. HIDE DEF s, t, p, n
  <2>1. /\ r \in Nat /\ Len(p) < r /\ Len(s) + r = n
        /\ \A i \in 1 .. Len(p) : Len(s) + i \in 1 .. Len(t)
        /\ Len(s) + Len(p) + 1 \in 1 .. Len(t)
        /\ \A i \in 1 .. r : Len(s) + i \in 1 .. n
    BY <1>1, <1>3, <1>4, <1>5 DEF Behind
  <2>2. \A i \in 1 .. n : block[i] \in Nat
    BY <1>4 DEF Texts, n
  <2>3. \A i \in 1 .. r : block[Len(s) + i] \in Nat
    BY <2>1, <2>2
  <2>4. \A i \in 1 .. Len(p) : block[Len(s) + i] = p[i]
    BY <1>1, <1>3, <2>1 DEF Behind
  <2>5. block[Len(s) + Len(p) + 1] = 0
    BY <1>1, <1>3, <2>1 DEF Behind
  <2>. HIDE DEF r
  <2>6. UpToNul(SubSeq(block, Len(s) + 1, Len(s) + r)) = p
    BY <1>4, <1>5, <2>1, <2>3, <2>4, <2>5, StringAt
  <2>. QED
    BY <2>1, <2>6 DEF ToUtf8
<1>8. block[Len(s) + 1] # 0
  <2>. HIDE DEF s, t, p, n
  <2>1. Len(s) + 1 \in 1 .. Len(t) /\ 1 \in 1 .. Len(p)
    BY <1>1, <1>4, <1>5 DEF Behind
  <2>. QED
    BY <1>1, <1>3, <1>5, <2>1 DEF Behind
<1>. DEFINE l == After(paths, f, k - 1)
<1>9. l.at = Len(s) + 1 /\ l.names = SubSeq(paths, 1, k - 1)
  BY DEF After
<1>10. Len(s) + 1 + Len(p) = Len(t)
  <2>. HIDE DEF s, t, p
  <2>. QED
    BY <1>1, <1>4, <1>5 DEF Behind
<1>11. Reading(block, l) = [at |-> l.at + Len(p) + 1, names |-> Append(l.names, p)]
  <2>. HIDE DEF l, s, t, p
  <2>. QED
    BY <1>7, <1>8, <1>9 DEF Reading
<1>12. l.at + Len(p) + 1 = Len(t) + 1
  <2>. HIDE DEF l, s, t, p
  <2>. QED
    BY <1>4, <1>5, <1>9, <1>10
<1>. QED
  BY <1>6, <1>9, <1>11, <1>12 DEF After

LEMMA NamesIs ==
  ASSUME NEW paths \in Lines, NEW f, Grows(paths, f),
         NEW block, Holds(block, f[Len(paths)])
  PROVE  Names(block) = paths
<1>. DEFINE n == Len(paths)
            m == Len(block)
            From(i) == ToUtf8(SubSeq(block, i, Len(block)))
            g == CHOOSE h : h = [k \in 0 .. m |->
                   IF k = 0 THEN [at |-> 1, names |-> <<>>]
                   ELSE LET l == h[k - 1]
                        IN IF block[l.at] = 0 THEN l
                           ELSE [at |-> l.at + Len(From(l.at)) + 1, names |-> Append(l.names, From(l.at))]]
<1>1. n \in Nat /\ m \in Nat /\ n <= Len(f[n]) /\ Len(f[n]) < m /\ Len(f[n]) \in Nat
      /\ block[Len(f[n]) + 1] = 0
  BY LenProperties DEF Lines, Grows, Holds, Texts
<1>2. g = [k \in 0 .. m |-> Turn("names", block, g, k)]
  <2>1. PICK h : Run("names", block, m, h)
    BY <1>1, Runs
  <2>2. h = [k \in 0 .. m |->
                   IF k = 0 THEN [at |-> 1, names |-> <<>>]
                   ELSE LET l == h[k - 1]
                        IN IF block[l.at] = 0 THEN l
                           ELSE [at |-> l.at + Len(From(l.at)) + 1, names |-> Append(l.names, From(l.at))]]
    BY <2>1 DEF Run, Turn, Reading
  <2>3. g = [k \in 0 .. m |->
                   IF k = 0 THEN [at |-> 1, names |-> <<>>]
                   ELSE LET l == g[k - 1]
                        IN IF block[l.at] = 0 THEN l
                           ELSE [at |-> l.at + Len(From(l.at)) + 1, names |-> Append(l.names, From(l.at))]]
    BY <2>2
  <2>. HIDE DEF g
  <2>. QED
    BY <2>3 DEF Turn, Reading
<1>3. Names(block) = g[m].names
  BY DEF Names
<1>. HIDE DEF g, n, m
<1>4. \A k \in 0 .. m : g[k] = IF k = 0 THEN [at |-> 1, names |-> <<>>] ELSE Reading(block, g[k - 1])
  <2>1. Run("names", block, m, g)
    BY <1>2 DEF Run
  <2>2. \A k \in 0 .. m : g[k] = Turn("names", block, g, k)
    BY <2>1, RunIs
  <2>. QED
    BY <2>2 DEF Turn
<1>. DEFINE Q == {k \in Nat : k <= m => g[k] = After(paths, f, IF k <= n THEN k ELSE n)}
<1>5. 0 \in Q
  <2>1. 0 \in 0 .. m /\ 0 <= n
    BY <1>1
  <2>2. g[0] = [at |-> 1, names |-> <<>>]
    BY <1>4, <2>1
  <2>3. Len(f[0]) + 1 = 1 /\ SubSeq(paths, 1, 0) = <<>>
    <3>1. f[0] = <<>> /\ Len(<<>>) = 0
      BY EmptySeq DEF Grows
    <3>2. paths \in Seq(Path)
      BY DEF Lines
    <3>3. SubSeq(paths, 1, 0) = <<>>
      BY <3>2, SubSeqProperties, EmptySeq
    <3>. QED
      BY <3>1, <3>3
  <2>. QED
    BY <2>1, <2>2, <2>3 DEF After
<1>6. ASSUME NEW k \in Nat, k \in Q PROVE k + 1 \in Q
  <2>. SUFFICES ASSUME k + 1 <= m
                PROVE  g[k + 1] = After(paths, f, IF k + 1 <= n THEN k + 1 ELSE n)
    OBVIOUS
  <2>1. g[k] = After(paths, f, IF k <= n THEN k ELSE n) /\ k + 1 \in 0 .. m
        /\ (k + 1) - 1 = k /\ k + 1 # 0
    BY <1>1, <1>6
  <2>. HIDE DEF Q
  <2>2. g[k + 1] = Reading(block, g[k])
    <3>1. g[k + 1] = IF k + 1 = 0 THEN [at |-> 1, names |-> <<>>] ELSE Reading(block, g[(k + 1) - 1])
      BY <1>4, <2>1, Zenon
    <3>. QED
      BY <2>1, <3>1, Zenon
  <2>3. CASE k + 1 <= n
    <3>1. k <= n /\ k + 1 \in 1 .. Len(paths)
      BY <1>1, <2>3 DEF n
    <3>2. Reading(block, After(paths, f, (k + 1) - 1)) = After(paths, f, k + 1)
      BY <3>1, TurnReads
    <3>. QED
      BY <2>1, <2>2, <2>3, <3>1, <3>2, Zenon
  <2>4. CASE ~(k + 1 <= n)
    <3>1. g[k] = After(paths, f, n)
      <4>1. k <= n => k = n
        BY <1>1, <2>4
      <4>. QED
        BY <2>1, <4>1
    <3>2. Reading(block, After(paths, f, n)) = After(paths, f, n)
      BY <1>1 DEF Reading, After
    <3>. QED
      BY <2>2, <2>4, <3>1, <3>2
  <2>. QED
    BY <2>3, <2>4
<1>7. Nat \subseteq Q
  <2>. HIDE DEF Q
  <2>. QED
    BY <1>5, <1>6, Counting
<1>8. g[m] = After(paths, f, n)
  <2>1. m \in Q
    BY <1>1, <1>7
  <2>2. m <= n => m = n
    BY <1>1
  <2>. QED
    BY <1>1, <2>1, <2>2
<1>9. SubSeq(paths, 1, n) = paths
  <2>1. paths \in Seq(Path)
    BY DEF Lines
  <2>2. /\ SubSeq(paths, 1, n) \in Seq(Path) /\ Len(SubSeq(paths, 1, n)) = n
        /\ \A i \in 1 .. n : SubSeq(paths, 1, n)[i] = paths[i]
    <3>1. \A i \in 1 .. n : paths[i] \in Path
      BY <2>1 DEF n
    <3>2. /\ SubSeq(paths, 1, n) \in Seq(Path)
          /\ Len(SubSeq(paths, 1, n)) = IF 1 <= n THEN n - 1 + 1 ELSE 0
          /\ \A i \in 1 .. n - 1 + 1 : SubSeq(paths, 1, n)[i] = paths[1 + i - 1]
      BY <1>1, <3>1, SubSeqProperties
    <3>. QED
      BY <1>1, <3>2
  <2>. QED
    BY <2>1, <2>2, SeqEqual DEF n
<1>. QED
  BY <1>3, <1>8, <1>9 DEF After

\* What CopyFilesToClipboard writes, ClipboardFiles reads: the same paths in the same order.
LEMMA ManyRead ==
  ASSUME NEW paths \in Lines
  PROVE  Names(ManyFiles(paths)) = paths /\ ManyFiles(paths) # <<>>
<1>1. PICK f : Grows(paths, f) /\ Joined(paths) = f[Len(paths)]
  BY JoinedIs
<1>. DEFINE text == Joined(paths)
            block == ManyFiles(paths)
<1>2. text \in Texts /\ Len(text) \in Nat /\ DOMAIN text = 1 .. Len(text)
  <2>1. Len(paths) \in 0 .. Len(paths)
    BY DEF Lines
  <2>. QED
    BY <1>1, <2>1, LenProperties DEF Grows, Texts
<1>3. Chars(paths) = Len(text) + 2
  BY CharsIs
<1>4. block = [i \in 1 .. Len(text) + 2 |-> IF i \in DOMAIN text THEN text[i] ELSE 0]
  BY <1>3 DEF ManyFiles
<1>. HIDE DEF text, block
<1>5. block \in Texts /\ Len(block) = Len(text) + 2
  <2>1. \A i \in DOMAIN text : text[i] \in Nat
    BY <1>2 DEF Texts
  <2>2. block \in [1 .. Len(text) + 2 -> Nat]
    BY <1>4, <2>1
  <2>. QED
    BY <1>2, <2>2, LenProperties DEF Texts
<1>6. Holds(block, text)
  BY <1>2, <1>4, <1>5 DEF Holds
<1>7. Names(block) = paths
  BY <1>1, <1>6, NamesIs DEF text
<1>8. block # <<>>
  BY <1>2, <1>5
<1>. QED
  BY <1>7, <1>8 DEF block

\* Also what CopyFileToClipboard writes for one.
LEMMA OneRead ==
  ASSUME NEW path \in Path
  PROVE  Names(OneFile(path)) = <<path>> /\ OneFile(path) # <<>>
<1>. DEFINE paths == <<path>>
            block == OneFile(path)
<1>1. paths \in Lines /\ Len(paths) = 1 /\ paths[1] = path
  BY DEF Lines
<1>. HIDE DEF paths
<1>2. PICK f : Grows(paths, f) /\ Joined(paths) = f[Len(paths)]
  BY <1>1, JoinedIs
<1>3. path \in Texts /\ Len(path) \in Nat
  BY PathIs
<1>4. Behind(<<>>, path, f[1])
  <2>1. 1 \in 1 .. Len(paths) /\ 1 - 1 = 0
    BY <1>1
  <2>2. Behind(f[1 - 1], paths[1], f[1])
    BY <1>1, <1>2, <2>1, TurnAdds
  <2>. QED
    BY <1>1, <1>2, <2>1, <2>2 DEF Grows
<1>5. /\ block \in Texts /\ Len(block) = Len(path) + 2
      /\ \A i \in 1 .. Len(path) : block[i] = path[i]
      /\ block[Len(path) + 1] = 0 /\ block[Len(path) + 2] = 0
  <2>1. <<0, 0>> \in Seq(Nat) /\ Len(<<0, 0>>) = 2 /\ <<0, 0>>[1] = 0 /\ <<0, 0>>[2] = 0
    OBVIOUS
  <2>2. /\ path \o <<0, 0>> \in Seq(Nat) /\ Len(path \o <<0, 0>>) = Len(path) + Len(<<0, 0>>)
        /\ \A i \in 1 .. Len(path) + Len(<<0, 0>>) :
             (path \o <<0, 0>>)[i] = IF i <= Len(path) THEN path[i] ELSE <<0, 0>>[i - Len(path)]
    BY <1>3, <2>1, ConcatProperties DEF Texts
  <2>3. block = path \o <<0, 0>>
    BY DEF OneFile
  <2>. HIDE DEF block
  <2>. QED
    BY <1>3, <2>1, <2>2, <2>3 DEF Texts
<1>. HIDE DEF block
<1>6. Holds(block, f[Len(paths)])
  <2>1. Len(<<>>) = 0
    BY EmptySeq
  <2>. DEFINE text == f[1]
  <2>2. Behind(<<>>, path, text)
    BY <1>4
  <2>. HIDE DEF text
  <2>3. /\ Len(text) = Len(path) + 1 /\ text[Len(path) + 1] = 0
        /\ \A i \in 1 .. Len(path) : text[i] = path[i]
    BY <1>3, <2>1, <2>2 DEF Behind
  <2>4. Holds(block, text)
    BY <1>3, <1>5, <2>3 DEF Holds
  <2>. QED
    BY <1>1, <2>4 DEF text
<1>7. Names(block) = paths
  BY <1>1, <1>2, <1>6, NamesIs
<1>8. block # <<>>
  BY <1>3, <1>5
<1>. QED
  BY <1>7, <1>8 DEF paths, block

-----------------------------------------------------------------------------
(* Each share has its list, and CopyFileToClipboard is called for a single file only. *)

Single(c) == c.method = "shareFile" => Len(chosen[c.task]) = 1

ChosenInv ==
  /\ \A t \in Share : stage[t] # "idle" => chosen[t] \in Lists
  /\ \A i \in DOMAIN calls : Single(calls[i])
  /\ step # "idle" => cur.task \in Task /\ Single(cur)

LEMMA ChosenInit == ClipboardInit => ChosenInv
  BY ClipboardAssumption DEF ClipboardInit, ChosenInv, Task

LEMMA ChosenStep ==
  ASSUME ShareInv, ClipboardTypeOK, ChosenInv, [ClipboardNext]_clipboardVars
  PROVE  ChosenInv'
<1>. USE DEF handler, tasks, held
<1>0. /\ \A t \in Share : Queued(t) /\ Handled(t) /\ t \in Task
      /\ DOMAIN chosen = Task /\ DOMAIN stage = Task /\ Paste \cap Share = {}
      /\ CallsTyped
  BY ClipboardAssumption DEF ShareInv, ClipboardTypeOK, Task
<1>00. \A i \in DOMAIN calls : calls[i].task \in Task
  <2>1. calls \in Seq([task : Task, method : Methods])
    BY <1>0 DEF CallsTyped
  <2>2. \A i \in DOMAIN calls : calls[i] \in [task : Task, method : Methods]
    <3>. DEFINE S == [task : Task, method : Methods]
    <3>1. calls \in Seq(S)
      BY <2>1
    <3>. HIDE DEF S
    <3>2. \A i \in DOMAIN calls : calls[i] \in S
      BY <3>1, ElementOfSeq, LenProperties
    <3>. QED
      BY <3>2 DEF S
  <2>. QED
    BY <2>2
<1>1. CASE HandleCall \/ GetData
  <2>1. /\ calls # <<>> /\ calls' = Tail(calls) /\ UNCHANGED <<stage, chosen>>
        /\ step' # "idle" => cur' = Head(calls)
    BY <1>1 DEF HandleCall, GetData
  <2>2. /\ \A i \in DOMAIN calls' : i + 1 \in DOMAIN calls /\ calls'[i] = calls[i + 1]
        /\ 1 \in DOMAIN calls /\ Head(calls) = calls[1]
    <3>1. 1 \in DOMAIN calls /\ Head(calls) = calls[1]
      BY <1>0, <2>1 DEF CallsTyped
    <3>. QED
      BY <1>0, <2>1, <3>1, Shorter
  <2>3. Head(calls).task \in Task
    BY <1>00, <2>2
  <2>. QED
    BY <2>1, <2>2, <2>3 DEF ChosenInv, Single
<1>2. CASE UNCHANGED <<stage, chosen, calls>> /\ (step' = "idle" \/ (step # "idle" /\ cur' = cur))
  BY <1>2 DEF ChosenInv, Single
<1>3. CASE OpenClipboard \/ ReadImage \/ SaveImage \/ ReadFiles \/ WriteFiles \/ CloseClipboard
  BY <1>2, <1>3 DEF OpenClipboard, ReadImage, SaveImage, ReadFiles, WriteFiles, CloseClipboard,
                    NoData, Then, Idle
<1>4. CASE Others
  BY <1>4 DEF Others, OtherOpens, OtherPuts, OtherCloses, ChosenInv, Single
<1>5. CASE UNCHANGED clipboardVars
  BY <1>5 DEF clipboardVars, ChosenInv, Single
<1>6. ASSUME NEW p \in Task, NEW m \in Methods, Call(p, m),
             UNCHANGED <<step, cur>>,
             \A t \in Share : t # p => stage'[t] = stage[t],
             \A t \in Task : t # p => chosen'[t] = chosen[t],
             p \in Share => stage[p] = "idle" /\ chosen'[p] \in Lists,
             p \notin Share => chosen'[p] = chosen[p],
             m = "shareFile" => Len(chosen'[p]) = 1
      PROVE  ChosenInv'
  <2>. DEFINE c == [task |-> p, method |-> m]
  <2>1. c \in [task : Task, method : Methods] /\ calls' = Append(calls, c)
    BY <1>6 DEF Call
  <2>2. c.task = p /\ c.method = m
    OBVIOUS
  <2>. HIDE DEF c
  <2>3. \A i \in DOMAIN calls' : (i \in DOMAIN calls /\ calls'[i] = calls[i]) \/ calls'[i] = c
    BY <1>0, <2>1, AppendProperties DEF CallsTyped
  <2>4. Single(c)'
    BY <1>6, <2>2 DEF Single
  <2>5. \A i \in DOMAIN calls :
          calls[i].method = "shareFile" => Len(chosen'[calls[i].task]) = 1
    <3>. SUFFICES ASSUME NEW i \in DOMAIN calls, calls[i].method = "shareFile"
                  PROVE  Len(chosen'[calls[i].task]) = 1
      OBVIOUS
    <3>1. Single(calls[i])
      BY DEF ChosenInv
    <3>2. calls[i].task \in Task
      BY <1>00
    <3>3. p \in Share => calls[i].task # p
      BY <1>0, <1>6 DEF Queued, Waits
    <3>4. chosen'[calls[i].task] = chosen[calls[i].task]
      BY <1>6, <3>2, <3>3
    <3>. QED
      BY <3>1, <3>4 DEF Single
  <2>6. step' # "idle" => cur'.task \in Task /\ Single(cur)'
    <3>. SUFFICES ASSUME step # "idle", cur.method = "shareFile"
                  PROVE  Len(chosen'[cur.task]) = 1
      BY <1>6 DEF ChosenInv, Single
    <3>1. Len(chosen[cur.task]) = 1
      BY DEF ChosenInv, Single
    <3>2. cur.task \in Task
      BY DEF ChosenInv
    <3>3. p \in Share => cur.task # p
      BY <1>0, <1>6 DEF Handled, Waits
    <3>. QED
      BY <1>6, <3>1, <3>2, <3>3
  <2>7. \A i \in DOMAIN calls' : Single(calls[i])'
    BY <2>3, <2>4, <2>5 DEF Single
  <2>. QED
    BY <1>0, <1>6, <2>6, <2>7 DEF ChosenInv
<1>7. ASSUME NEW p \in Task, Start(p) PROVE ChosenInv'
  <2>1. CASE PasteKey(p)
    BY <1>0, <1>6, <2>1 DEF PasteKey, Begin, Go, Methods
  <2>2. ASSUME NEW paths \in Lists, ShareFiles(p, paths) PROVE ChosenInv'
    <3>. DEFINE m == IF Len(paths) = 1 THEN "shareFile" ELSE "shareFiles"
    <3>1. /\ m \in Methods /\ Call(p, m) /\ p \in Share /\ stage[p] = "idle"
          /\ UNCHANGED <<step, cur>> /\ chosen'[p] = paths
          /\ \A t \in Share : t # p => stage'[t] = stage[t]
          /\ \A t \in Task : t # p => chosen'[t] = chosen[t]
          /\ m = "shareFile" => Len(paths) = 1
      BY <1>0, <2>2 DEF ShareFiles, Begin, Go, Methods
    <3>. HIDE DEF m
    <3>. QED
      BY <1>6, <3>1
  <2>. QED
    BY <1>7, <2>1, <2>2 DEF Start
<1>8. ASSUME NEW p \in Task, Resume(p) PROVE ChosenInv'
  <2>1. CASE AfterShare(p)
    <3>1. stage[p] = "share" /\ UNCHANGED <<chosen, calls, step, cur>>
          /\ \A t \in Share : stage'[t] = stage[t] \/ t = p
      BY <1>0, <2>1 DEF AfterShare, At, Finish, Go
    <3>. QED
      BY <3>1 DEF ChosenInv, Single
  <2>2. CASE AfterImage(p) \/ AfterFiles(p) \/ AfterText(p)
    <3>1. /\ UNCHANGED <<chosen, step, cur>> /\ stage[p] # "idle"
          /\ \A t \in Share : t # p => stage'[t] = stage[t]
      BY <1>0, <2>2 DEF AfterImage, AfterFiles, AfterText, At, Finish, Go, Ask
    <3>2. p \notin Share
      BY <2>2 DEF AfterImage, AfterFiles, AfterText, At, ShareInv, Knows
    <3>3. UNCHANGED calls \/ Call(p, "readClipboardFiles") \/ Call(p, "getData")
      BY <2>2 DEF AfterImage, AfterFiles, AfterText, Ask
    <3>4. CASE UNCHANGED calls
      BY <3>1, <3>2, <3>4 DEF ChosenInv, Single
    <3>. QED
      BY <1>6, <3>1, <3>2, <3>3, <3>4 DEF Methods
  <2>. QED
    BY <1>8, <2>1, <2>2 DEF Resume
<1>. QED
  BY <1>1, <1>3, <1>4, <1>5, <1>7, <1>8 DEF ClipboardNext, Inside

-----------------------------------------------------------------------------
(* What a share put on the clipboard can be read, alone, until somebody empties it. *)

Alone(t) ==
  /\ mine[t] \in 0 .. clip.copy
  /\ mine[t] # 0 /\ mine[t] = clip.copy =>
       opened # "writer" /\ ListOf(clip) = chosen[t] /\ ~clip.image /\ ~clip.text

AloneInv == \A t \in Share : Alone(t)

\* What BlockOf makes of the list of a share is read as that list.
LEMMA BlockRead ==
  ASSUME NEW list \in Lists, Writes(cur.method), cur.method = "shareFile" => Len(list) = 1
  PROVE  Names(BlockOf(list)) = list /\ BlockOf(list) # <<>>
<1>. DEFINE block == BlockOf(list)
<1>1. list \in Lines /\ list # <<>> /\ \A i \in DOMAIN list : list[i] \in Path
  BY ClipboardAssumption DEF Lines
<1>2. \A p \in Path : FromUtf8(p) = p
  BY NoNul DEF FromUtf8
<1>3. CASE cur.method = "shareFile"
  <2>1. list[1] \in Path /\ list = <<list[1]>>
    BY <1>1, <1>3 DEF Lines
  <2>. QED
    BY <1>2, <1>3, <2>1, OneRead DEF BlockOf
<1>4. CASE cur.method # "shareFile"
  <2>1. list = [i \in DOMAIN list |-> FromUtf8(list[i])]
    <3>1. list = [i \in DOMAIN list |-> list[i]]
      BY <1>1 DEF Lines
    <3>. QED
      BY <1>1, <1>2, <3>1
  <2>2. block = ManyFiles(list)
    BY <1>4, <2>1 DEF BlockOf
  <2>. HIDE DEF block
  <2>3. Names(block) = list /\ block # <<>>
    BY <1>1, <2>2, ManyRead
  <2>. QED
    BY <2>3 DEF block
<1>. QED
  BY <1>3, <1>4

LEMMA DropRead ==
  ASSUME NEW list \in Lists, NEW c, Writes(cur.method), cur.method = "shareFile" => Len(list) = 1
  PROVE  ListOf(Drop(c, BlockOf(list), list)) = list
<1>. DEFINE block == BlockOf(list)
            d == Drop(c, block, list)
<1>1. Names(block) = list /\ block # <<>>
  BY BlockRead
<1>. HIDE DEF block
<1>2. d.block = block /\ d.fWide = TRUE
  BY DEF Drop, WithFiles, Emptied
<1>. HIDE DEF d
<1>3. ListOf(d) = list
  BY <1>1, <1>2 DEF ListOf, HasFiles
<1>. QED
  BY <1>3 DEF d, block

LEMMA AloneInit == ClipboardInit => AloneInv
  BY ClipboardAssumption DEF ClipboardInit, Emptied, AloneInv, Alone, Task

LEMMA AloneStep ==
  ASSUME ShareInv, ClipboardTypeOK, Balanced, ChosenInv, AloneInv, [ClipboardNext]_clipboardVars
  PROVE  AloneInv'
<1>. USE DEF handler, tasks, held
<1>. SUFFICES ASSUME NEW t \in Share PROVE Alone(t)'
  BY DEF AloneInv
<1>0. /\ clip.copy \in Nat /\ Alone(t) /\ Handled(t) /\ Knows(t) /\ t \in Task
      /\ DOMAIN mine = Task /\ DOMAIN chosen = Task
  BY ClipboardAssumption DEF ShareInv, AloneInv, ClipboardTypeOK, Task
<1>1. CASE UNCHANGED <<clip, chosen, mine>> /\ (opened' # "writer" \/ opened' = opened)
  BY <1>0, <1>1 DEF Alone
<1>2. CASE HandleCall \/ GetData \/ OpenClipboard \/ ReadImage \/ SaveImage \/ ReadFiles
             \/ CloseClipboard
  BY <1>1, <1>2 DEF HandleCall, GetData, OpenClipboard, ReadImage, SaveImage, ReadFiles,
                    CloseClipboard
<1>3. CASE WriteFiles
  <2>1. opened = "app" /\ opened' = opened /\ UNCHANGED chosen
    BY <1>3 DEF WriteFiles, Balanced
  <2>2. ASSUME clip' = Drop(clip, BlockOf(chosen[cur.task]), chosen[cur.task]),
               mine' = [mine EXCEPT ![cur.task] = clip.copy + 1]
        PROVE  Alone(t)'
    <3>1. clip'.copy = clip.copy + 1 /\ ~clip'.image /\ ~clip'.text
      BY <2>2 DEF Drop, WithFiles, Emptied
    <3>2. CASE cur.task = t
      <4>1. chosen[t] \in Lists /\ Single(cur) /\ Writes(cur.method)
        BY <1>0, <1>3, <3>2 DEF WriteFiles, Handled, Waits, ChosenInv
      <4>2. ListOf(clip') = chosen[t]
        BY <2>2, <3>2, <4>1, DropRead DEF Single
      <4>. QED
        BY <1>0, <2>1, <2>2, <3>1, <3>2, <4>2 DEF Alone
    <3>3. CASE cur.task # t
      BY <1>0, <2>2, <3>1, <3>3 DEF Alone
    <3>. QED
      BY <3>2, <3>3
  <2>3. CASE UNCHANGED mine /\ clip' = Emptied(clip.copy + 1)
    <3>1. clip'.copy = clip.copy + 1
      BY <2>3 DEF Emptied
    <3>. QED
      BY <1>0, <2>1, <2>3, <3>1 DEF Alone
  <2>. QED
    BY <1>3, <2>2, <2>3 DEF WriteFiles, Hold
<1>4. CASE OtherOpens
  <2>1. CASE UNCHANGED clip /\ opened' = "viewer"
    BY <1>1, <1>4, <2>1 DEF OtherOpens
  <2>2. CASE clip' = Emptied(clip.copy + 1)
    <3>1. clip'.copy = clip.copy + 1
      BY <2>2 DEF Emptied
    <3>. QED
      BY <1>0, <1>4, <3>1 DEF OtherOpens, Alone
  <2>. QED
    BY <1>4, <2>1, <2>2 DEF OtherOpens, Hold
<1>5. CASE OtherPuts
  <2>1. opened = "writer" /\ opened' = opened /\ UNCHANGED <<mine, chosen>>
    BY <1>5 DEF OtherPuts
  <2>2. clip'.copy = clip.copy
    <3>1. \/ clip' = [clip EXCEPT !.image = TRUE] \/ clip' = [clip EXCEPT !.text = TRUE]
          \/ \E wide, block, list : clip' = WithFiles(clip, wide, block, list)
      BY <1>5 DEF OtherPuts, Hold
    <3>. QED
      BY <3>1, CopyOf DEF ShareInv
  <2>. QED
    BY <1>0, <2>1, <2>2 DEF Alone
<1>6. CASE OtherCloses
  BY <1>1, <1>6 DEF OtherCloses
<1>7. ASSUME NEW p \in Task, Resume(p) PROVE Alone(t)'
  BY <1>1, <1>7 DEF Resume, AfterImage, AfterFiles, AfterText, AfterShare
<1>8. ASSUME NEW p \in Task, Start(p) PROVE Alone(t)'
  <2>1. UNCHANGED <<clip, mine, opened>> /\ stage[p] = "idle"
    BY <1>8 DEF Start, PasteKey, ShareFiles, Begin
  <2>2. CASE p = t
    BY <1>0, <2>1, <2>2 DEF Alone, Knows
  <2>3. CASE p # t
    <3>1. chosen'[t] = chosen[t]
      BY <1>0, <1>8, <2>3 DEF Start, PasteKey, ShareFiles
    <3>. QED
      BY <1>0, <2>1, <3>1 DEF Alone
  <2>. QED
    BY <2>2, <2>3
<1>9. CASE UNCHANGED clipboardVars
  BY <1>1, <1>9 DEF clipboardVars
<1>. QED
  BY <1>2, <1>3, <1>4, <1>5, <1>6, <1>7, <1>8, <1>9 DEF ClipboardNext, Inside, Others

-----------------------------------------------------------------------------
(* What a paste is answered. *)

LEMMA NoneExists == Exist(<<>>) = <<>>
<1>. DEFINE f == [k \in 0 .. 0 |-> <<>>]
            g == CHOOSE h : h = [k \in 0 .. 0 |->
                   IF k = 0 THEN <<>>
                   ELSE IF <<>>[k] \in Existing THEN Append(h[k - 1], <<>>[k]) ELSE h[k - 1]]
<1>1. Len(<<>>) = 0
  BY EmptySeq
<1>2. f = [k \in 0 .. 0 |->
             IF k = 0 THEN <<>>
             ELSE IF <<>>[k] \in Existing THEN Append(f[k - 1], <<>>[k]) ELSE f[k - 1]]
  <2>1. \A k \in 0 .. 0 : k = 0
    OBVIOUS
  <2>. QED
    BY <2>1
<1>3. g = [k \in 0 .. 0 |->
             IF k = 0 THEN <<>>
             ELSE IF <<>>[k] \in Existing THEN Append(g[k - 1], <<>>[k]) ELSE g[k - 1]]
  <2>. HIDE DEF f
  <2>. QED
    BY <1>2
<1>4. Exist(<<>>) = g[0]
  BY <1>1 DEF Exist
<1>. HIDE DEF g
<1>5. g[0] = <<>>
  <2>. DEFINE h == [k \in 0 .. 0 |->
             IF k = 0 THEN <<>>
             ELSE IF <<>>[k] \in Existing THEN Append(g[k - 1], <<>>[k]) ELSE g[k - 1]]
  <2>1. h[0] = <<>>
    OBVIOUS
  <2>. HIDE DEF h
  <2>2. g = h
    BY <1>3 DEF h
  <2>. QED
    BY <2>1, <2>2
<1>. QED
  BY <1>4, <1>5

\* a content of the clipboard whose list can be read as it was written
Legible(c) ==
  /\ DOMAIN c = {"copy", "image", "text", "fWide", "block", "list"}
  /\ HasFiles(c) /\ c.fWide => Names(c.block) = c.list
  /\ ~HasFiles(c) => c.list = <<>>

LEMMA EmptyLegible == \A n : Legible(Emptied(n))
  BY DEF Legible, Emptied, HasFiles

LEMMA FormLegible ==
  ASSUME NEW c, Legible(c)
  PROVE  Legible([c EXCEPT !.image = TRUE]) /\ Legible([c EXCEPT !.text = TRUE])
BY DEF Legible, HasFiles

LEMMA FilesLegible ==
  ASSUME NEW c, Legible(c), NEW wide, NEW list, NEW block, Names(block) = list, block # <<>>
  PROVE  Legible(WithFiles(c, wide, block, list))
BY DEF Legible, HasFiles, WithFiles

LEMMA LegibleList ==
  ASSUME NEW c, Legible(c)
  PROVE  /\ Exist(ListOf(c)) # <<>> => c.fWide /\ ListOf(c) = c.list
         /\ c.fWide /\ Exist(c.list) # <<>> => HasFiles(c) /\ ListOf(c) = c.list
BY NoneExists DEF Legible, ListOf

\* the call that paste t waits for
Asks(t, method) ==
  <<stage[t], method>> \in {<<"image", "readClipboardImage">>, <<"files", "readClipboardFiles">>,
                            <<"text", "getData">>}

Asked(t) ==
  /\ stage[t] # "share"
  /\ \A i \in DOMAIN calls :
       calls[i].task = t =>
         Asks(t, calls[i].method) /\ answer[t] = Pending /\ (step = "idle" \/ cur.task # t)
  /\ \A i, j \in DOMAIN calls : calls[i].task = t /\ calls[j].task = t => i = j
  /\ step # "idle" /\ cur.task = t =>
       Asks(t, cur.method) /\ answer[t] = Pending /\ cur.method # "getData"

Seen(t) ==
  /\ Active(t) => clip \in since[t]
  /\ \A c \in since[t] : Legible(c)

\* r is nothing but what was on the clipboard since t began
Source(t, r) ==
  \/ r \in {Nothing, Failed, Done, Pending}
  \/ \E c \in since[t] : \/ c.image /\ r = Image(c)
                         \/ r = Files(ListOf(c))
                         \/ c.text /\ r = Text(c)

Sourced(t) ==
  /\ Active(t) => Source(t, answer[t])
  /\ step \in {"encode", "close"} /\ cur.task = t => Source(t, result)

\* what the call of stage s answers if nothing disturbs it
Exactly(s, r) ==
  /\ s = "image" => r = IF clip.image THEN Image(clip) ELSE Nothing
  /\ s = "files" => r = Files(ListOf(clip)) \/ (r = Nothing /\ ~HasFiles(clip))
  /\ s = "text"  => r = IF clip.text THEN Text(clip) ELSE Nothing

Straight(t) ==
  Active(t) /\ smooth[t] /\ since[t] = {clip} =>
    /\ answer[t] = Pending \/ Exactly(stage[t], answer[t])
    /\ step \in {"encode", "close"} /\ cur.task = t => Exactly(stage[t], result)
    /\ stage[t] # "image" => ~clip.image
    /\ stage[t] = "text" => ~(clip.fWide /\ Exist(clip.list) # <<>>)

Pasting(t) == Asked(t) /\ Seen(t) /\ Sourced(t) /\ Straight(t)

PasteInv == Legible(clip) /\ \A t \in Paste : Pasting(t)

LEMMA PasteInit == ClipboardInit => PasteInv
<1>. SUFFICES ASSUME ClipboardInit PROVE PasteInv
  OBVIOUS
<1>1. Legible(clip)
  <2>1. Legible(Emptied(0))
    BY EmptyLegible
  <2>2. clip = [[Emptied(0) EXCEPT !.image = TRUE] EXCEPT !.text = TRUE]
    BY DEF ClipboardInit
  <2>. QED
    BY <2>1, <2>2, FormLegible
<1>2. ASSUME NEW t \in Paste PROVE Pasting(t)
  BY <1>2 DEF ClipboardInit, Pasting, Asked, Seen, Sourced, Straight, Active, Task
<1>. QED
  BY <1>1, <1>2 DEF PasteInv

\* paste t, when something else goes on
LEMMA PasteSame ==
  ASSUME NEW t \in Paste, Pasting(t),
         stage'[t] = stage[t], answer'[t] = answer[t], smooth'[t] = smooth[t],
         \A i \in DOMAIN calls' : calls'[i].task = t => \E j \in DOMAIN calls : calls'[i] = calls[j],
         \A i, j \in DOMAIN calls' : calls'[i].task = t /\ calls'[j].task = t => i = j,
         step' # "idle" /\ cur'.task = t =>
           /\ step # "idle" /\ cur' = cur /\ result' = result
           /\ step' \in {"encode", "close"} => step \in {"encode", "close"},
         \/ since'[t] = since[t] /\ clip' = clip
         \/ Legible(clip') /\ since'[t] = IF Active(t) THEN since[t] \cup {clip'} ELSE {}
  PROVE  Pasting(t)'
<1>1. Asked(t)'
  BY DEF Pasting, Asked, Asks
<1>2. Seen(t)'
  BY DEF Pasting, Seen, Active
<1>3. Active(t)' = Active(t) /\ (Active(t) => since[t] \subseteq since'[t])
  BY DEF Active
<1>4. Sourced(t)'
  <2>1. ASSUME NEW r, Source(t, r), Active(t) PROVE Source(t, r)'
    BY <1>3, <2>1 DEF Source
  <2>2. step # "idle" /\ cur.task = t => Active(t)
    BY DEF Pasting, Asked, Asks, Active
  <2>3. Active(t)' => Source(t, answer[t])'
    BY <1>3, <2>1 DEF Pasting, Sourced
  <2>4. step' \in {"encode", "close"} /\ cur'.task = t => Source(t, result)'
    BY <2>1, <2>2 DEF Pasting, Sourced
  <2>. QED
    BY <2>3, <2>4 DEF Sourced
<1>5. Straight(t)'
  <2>. SUFFICES ASSUME Active(t)', smooth'[t], since'[t] = {clip'}
                PROVE  /\ answer'[t] = Pending \/ Exactly(stage[t], answer[t])'
                       /\ step' \in {"encode", "close"} /\ cur'.task = t => Exactly(stage[t], result)'
                       /\ stage'[t] # "image" => ~clip'.image
                       /\ stage'[t] = "text" => ~(clip'.fWide /\ Exist(clip'.list) # <<>>)
    BY DEF Straight
  <2>1. clip' = clip /\ since[t] = {clip} /\ Active(t)
    BY <1>3 DEF Pasting, Seen
  <2>. QED
    BY <2>1 DEF Pasting, Straight, Exactly
<1>. QED
  BY <1>1, <1>2, <1>4, <1>5 DEF Pasting

\* The handler of a call of paste t answers it with r.
LEMMA Answered ==
  ASSUME NEW t \in Paste, Pasting(t), Active(t), NEW r, DOMAIN answer = Task, t \in Task,
         answer' = [answer EXCEPT ![t] = r],
         UNCHANGED <<clip, since, stage>>, step' = "idle",
         \A i \in DOMAIN calls' : calls'[i].task # t,
         Source(t, r), smooth'[t] => smooth[t] /\ (since[t] = {clip} => Exactly(stage[t], r))
  PROVE  Pasting(t)'
<1>1. answer'[t] = r
  OBVIOUS
<1>2. Asked(t)' /\ Seen(t)'
  BY DEF Pasting, Asked, Seen, Active
<1>3. Sourced(t)'
  BY <1>1 DEF Sourced, Source, Active
<1>4. Straight(t)'
  BY <1>1 DEF Pasting, Straight, Exactly, Active
<1>. QED
  BY <1>2, <1>3, <1>4 DEF Pasting

\* The handler comes to the result r for paste t.
LEMMA Resulted ==
  ASSUME NEW t \in Paste, Pasting(t), step # "idle", cur.task = t, NEW r, result' = r,
         UNCHANGED <<clip, since, stage, calls, answer, cur>>,
         step' # "idle", step' \in {"encode", "close"} => Source(t, r),
         smooth'[t] => /\ smooth[t]
                       /\ step' \in {"encode", "close"} /\ since[t] = {clip} => Exactly(stage[t], r)
  PROVE  Pasting(t)'
<1>1. Asked(t)' /\ Seen(t)'
  BY DEF Pasting, Asked, Asks, Seen, Active
<1>2. Sourced(t)'
  BY DEF Pasting, Sourced, Source, Active
<1>3. Straight(t)'
  BY DEF Pasting, Straight, Exactly, Active
<1>. QED
  BY <1>1, <1>2, <1>3 DEF Pasting

LEMMA PasteStep ==
  ASSUME ClipboardTypeOK, ShareInv, ChosenInv, PasteInv, [ClipboardNext]_clipboardVars
  PROVE  PasteInv'
<1>. USE DEF handler, tasks, held
<1>0. /\ \A t \in Paste : Pasting(t) /\ t \in Task
      /\ Legible(clip) /\ Paste \cap Share = {} /\ Task = Paste \cup Share
      /\ DOMAIN answer = Task /\ DOMAIN stage = Task /\ DOMAIN smooth = Paste
      /\ DOMAIN since = Paste /\ \A t \in Paste : smooth[t] \in BOOLEAN
      /\ CallsTyped
  BY ClipboardAssumption DEF ShareInv, ClipboardTypeOK, PasteInv, Task
<1>00. \A t \in Paste : \A i, j \in DOMAIN calls : calls[i].task = t /\ calls[j].task = t => i = j
  BY <1>0 DEF Pasting, Asked
<1>1. CASE HandleCall \/ GetData
  <2>1. /\ calls # <<>> /\ calls' = Tail(calls) /\ step = "idle"
        /\ UNCHANGED <<clip, since, stage>>
        /\ 1 \in DOMAIN calls /\ Head(calls) = calls[1]
    BY <1>0, <1>1 DEF HandleCall, GetData, CallsTyped
  <2>2. \A i \in DOMAIN calls' : i + 1 \in DOMAIN calls /\ calls'[i] = calls[i + 1]
    BY <1>0, <2>1, Shorter
  <2>3. DOMAIN calls \subseteq Nat \ {0} /\ DOMAIN calls' \subseteq Nat \ {0}
    <3>1. calls \in Seq([task : Task, method : Methods])
      BY <1>0 DEF CallsTyped
    <3>2. calls' \in Seq([task : Task, method : Methods])
      BY <2>1, <3>1
    <3>. QED
      BY <3>1, <3>2, LenProperties
  <2>4. ASSUME NEW t \in Paste PROVE Pasting(t)'
    <3>1. \A i, j \in DOMAIN calls' : calls'[i].task = t /\ calls'[j].task = t => i = j
      <4>. SUFFICES ASSUME NEW i \in DOMAIN calls', NEW j \in DOMAIN calls',
                           calls'[i].task = t, calls'[j].task = t
                    PROVE  i = j
        OBVIOUS
      <4>1. i + 1 = j + 1
        BY <1>00, <2>2, <2>4
      <4>. QED
        BY <2>3, <4>1
    <3>2. CASE Head(calls).task # t
      <4>1. /\ answer'[t] = answer[t] /\ smooth'[t] = smooth[t]
            /\ step' # "idle" => cur' = Head(calls)
        BY <1>0, <1>1, <2>4, <3>2 DEF HandleCall, GetData, Return, Rough
      <4>2. \A i \in DOMAIN calls' : \E j \in DOMAIN calls : calls'[i] = calls[j]
        BY <2>2
      <4>. QED
        BY <1>0, <2>1, <2>4, <3>1, <3>2, <4>1, <4>2, PasteSame
    <3>3. CASE Head(calls).task = t
      <4>1. \A i \in DOMAIN calls' : calls'[i].task # t
        <5>. SUFFICES ASSUME NEW i \in DOMAIN calls', calls'[i].task = t PROVE FALSE
          OBVIOUS
        <5>1. i + 1 = 1
          BY <1>00, <2>1, <2>2, <2>4, <3>3
        <5>. QED
          BY <2>3, <5>1
      <4>2. /\ Asks(t, Head(calls).method) /\ answer[t] = Pending /\ Active(t)
            /\ clip \in since[t]
        BY <1>0, <2>1, <2>4, <3>3 DEF Pasting, Asked, Asks, Seen, Active
      <4>3. CASE GetData
        <5>1. stage[t] = "text" /\ step' = "idle"
          BY <4>2, <4>3 DEF GetData, Asks
        <5>2. CASE Return(t, IF clip.text THEN Text(clip) ELSE Nothing) /\ UNCHANGED smooth
          <6>. DEFINE r == IF clip.text THEN Text(clip) ELSE Nothing
          <6>1. Source(t, r) /\ Exactly(stage[t], r) /\ answer' = [answer EXCEPT ![t] = r]
            BY <4>2, <5>1, <5>2 DEF Source, Exactly, Return
          <6>. HIDE DEF r
          <6>. QED
            BY <1>0, <2>1, <2>4, <4>1, <4>2, <5>1, <5>2, <6>1, Answered
        <5>3. CASE Return(t, Failed) /\ Rough(t)
          <6>1. Source(t, Failed) /\ answer' = [answer EXCEPT ![t] = Failed] /\ ~smooth'[t]
            BY <1>0, <2>4, <5>3 DEF Source, Return, Rough
          <6>. QED
            BY <1>0, <2>1, <2>4, <4>1, <4>2, <5>1, <6>1, Answered
        <5>. QED
          BY <3>3, <4>3, <5>2, <5>3 DEF GetData
      <4>4. CASE HandleCall
        <5>1. /\ ~Writes(Head(calls).method) /\ UNCHANGED smooth
              /\ Head(calls).method # "getData"
          BY <4>2, <4>4 DEF Asks, Writes, HandleCall
        <5>2. CASE ~Available(Head(calls).method)
          <6>1. Exactly(stage[t], Nothing) /\ Source(t, Nothing)
            BY <4>2, <5>1, <5>2 DEF Asks, Available, Exactly, Source
          <6>2. answer' = [answer EXCEPT ![t] = Nothing] /\ step' = "idle"
            BY <2>1, <3>3, <4>4, <5>2 DEF HandleCall, Return
          <6>. QED
            BY <1>0, <2>1, <2>4, <4>1, <4>2, <5>1, <6>1, <6>2, Answered
        <5>3. CASE Available(Head(calls).method)
          <6>1. step' = "open" /\ cur' = Head(calls) /\ UNCHANGED <<result, answer>>
            BY <4>4, <5>3 DEF HandleCall
          <6>2. Seen(t)'
            BY <1>0, <2>1, <2>4 DEF Pasting, Seen, Active
          <6>3. Asked(t)'
            <7>1. Asks(t, cur.method)' /\ stage'[t] # "share"
              BY <2>1, <4>2, <6>1 DEF Asks
            <7>. QED
              BY <4>1, <4>2, <5>1, <6>1, <7>1 DEF Asked
          <6>4. Sourced(t)'
            BY <2>1, <4>2, <6>1 DEF Sourced, Source
          <6>5. Straight(t)'
            BY <1>0, <2>1, <2>4, <4>2, <5>1, <6>1 DEF Straight, Pasting, Exactly, Active
          <6>. QED
            BY <6>2, <6>3, <6>4, <6>5 DEF Pasting
        <5>. QED
          BY <5>2, <5>3
      <4>. QED
        BY <1>1, <4>3, <4>4
    <3>. QED
      BY <3>2, <3>3
  <2>. QED
    BY <1>0, <2>1, <2>4 DEF PasteInv
<1>2. CASE OpenClipboard \/ ReadImage \/ SaveImage \/ ReadFiles \/ CloseClipboard
  <2>1. /\ step # "idle" /\ UNCHANGED <<clip, since, stage, calls>>
        /\ step' # "idle" => UNCHANGED <<cur, answer>>
        /\ step' = "idle" => \E r : Return(cur.task, r)
    BY <1>2 DEF OpenClipboard, ReadImage, SaveImage, ReadFiles, CloseClipboard, NoData, Then, Idle
  <2>2. ASSUME NEW t \in Paste, cur.task # t PROVE Pasting(t)'
    <3>1. answer'[t] = answer[t]
      BY <1>0, <2>1, <2>2 DEF Return
    <3>2. smooth'[t] = smooth[t]
      BY <1>0, <1>2, <2>2 DEF OpenClipboard, ReadImage, SaveImage, ReadFiles, CloseClipboard, Rough
    <3>. QED
      BY <1>0, <1>00, <2>1, <2>2, <3>1, <3>2, PasteSame
  <2>3. ASSUME NEW t \in Paste, cur.task = t PROVE Pasting(t)'
    <3>1. /\ Asks(t, cur.method) /\ answer[t] = Pending /\ Active(t) /\ clip \in since[t]
          /\ cur.method # "getData" /\ ~Writes(cur.method)
          /\ \A i \in DOMAIN calls : calls[i].task # t
          /\ step \in {"encode", "close"} => Source(t, result)
      BY <1>0, <2>1, <2>3 DEF Pasting, Asked, Asks, Seen, Active, Writes, Sourced
    <3>2. CASE OpenClipboard
      <4>1. CASE step' = "use"
        <5>1. UNCHANGED <<cur, result, answer, smooth>>
          BY <3>2, <4>1 DEF OpenClipboard, Idle
        <5>. QED
          BY <1>0, <2>1, <2>3, <3>1, <4>1, <5>1, Resulted
      <4>2. CASE step' = "idle"
        <5>1. answer' = [answer EXCEPT ![t] = Nothing] /\ ~smooth'[t]
          BY <1>0, <2>3, <3>1, <3>2, <4>2 DEF OpenClipboard, Return, Rough
        <5>2. Source(t, Nothing)
          BY DEF Source
        <5>. QED
          BY <1>0, <2>1, <2>3, <3>1, <4>2, <5>1, <5>2, Answered
      <4>. QED
        BY <3>2, <4>1, <4>2 DEF OpenClipboard, Idle
    <3>3. CASE ReadImage \/ SaveImage \/ ReadFiles
      <4>1. UNCHANGED <<cur, answer>> /\ step' \in {"encode", "close"}
        BY <3>3 DEF ReadImage, SaveImage, ReadFiles, NoData, Then
      <4>2. Source(t, Nothing)
        BY DEF Source
      <4>3. CASE ReadImage
        <5>1. stage[t] = "image"
          BY <3>1, <4>3 DEF ReadImage, Asks
        <5>2. CASE clip.image /\ result' = Image(clip) /\ UNCHANGED smooth
          <6>1. Source(t, Image(clip)) /\ Exactly(stage[t], Image(clip))
            BY <3>1, <5>1, <5>2 DEF Source, Exactly
          <6>. QED
            BY <1>0, <2>1, <2>3, <4>1, <5>2, <6>1, Resulted
        <5>3. CASE ~clip.image /\ result' = Nothing /\ UNCHANGED smooth
          <6>1. Exactly(stage[t], Nothing)
            BY <5>1, <5>3 DEF Exactly
          <6>. QED
            BY <1>0, <2>1, <2>3, <4>1, <4>2, <5>3, <6>1, Resulted
        <5>4. CASE result' = Nothing /\ Rough(t)
          <6>1. ~smooth'[t]
            BY <1>0, <2>3, <5>4 DEF Rough
          <6>. QED
            BY <1>0, <2>1, <2>3, <4>1, <4>2, <5>4, <6>1, Resulted
        <5>. QED
          BY <2>3, <4>3, <5>2, <5>3, <5>4 DEF ReadImage, NoData, Then
      <4>4. CASE SaveImage
        <5>1. CASE result' = result /\ UNCHANGED smooth
          <6>1. smooth[t] /\ since[t] = {clip} => Exactly(stage[t], result)
            BY <1>0, <2>3, <3>1, <4>4 DEF SaveImage, Pasting, Straight
          <6>2. Source(t, result)
            BY <3>1, <4>4 DEF SaveImage
          <6>. QED
            BY <1>0, <2>1, <2>3, <4>1, <5>1, <6>1, <6>2, Resulted
        <5>2. CASE result' = Nothing /\ Rough(t)
          <6>1. ~smooth'[t]
            BY <1>0, <2>3, <5>2 DEF Rough
          <6>. QED
            BY <1>0, <2>1, <2>3, <4>1, <4>2, <5>2, <6>1, Resulted
        <5>. QED
          BY <2>3, <4>4, <5>1, <5>2 DEF SaveImage, Then
      <4>5. CASE ReadFiles
        <5>1. stage[t] = "files"
          BY <3>1, <4>5 DEF ReadFiles, Asks
        <5>2. CASE result' = Files(ListOf(clip)) /\ UNCHANGED smooth
          <6>1. Source(t, Files(ListOf(clip))) /\ Exactly(stage[t], Files(ListOf(clip)))
            BY <3>1, <5>1 DEF Source, Exactly
          <6>. QED
            BY <1>0, <2>1, <2>3, <4>1, <5>2, <6>1, Resulted
        <5>3. CASE result' = Nothing /\ Rough(t)
          <6>1. ~smooth'[t]
            BY <1>0, <2>3, <5>3 DEF Rough
          <6>. QED
            BY <1>0, <2>1, <2>3, <4>1, <4>2, <5>3, <6>1, Resulted
        <5>. QED
          BY <2>3, <4>5, <5>2, <5>3 DEF ReadFiles, NoData, Then
      <4>. QED
        BY <3>3, <4>3, <4>4, <4>5
    <3>4. CASE CloseClipboard
      <4>1. /\ step = "close" /\ step' = "idle" /\ answer' = [answer EXCEPT ![t] = result]
            /\ UNCHANGED smooth
        BY <2>3, <3>4 DEF CloseClipboard, Return, Idle
      <4>2. smooth[t] /\ since[t] = {clip} => Exactly(stage[t], result)
        BY <1>0, <2>3, <3>1, <4>1 DEF Pasting, Straight
      <4>. QED
        BY <1>0, <2>1, <2>3, <3>1, <4>1, <4>2, Answered
    <3>. QED
      BY <1>2, <3>2, <3>3, <3>4
  <2>. QED
    BY <1>0, <2>1, <2>2, <2>3 DEF PasteInv
<1>3. CASE WriteFiles
  <2>1. /\ step = "use" /\ Writes(cur.method) /\ step' = "close"
        /\ UNCHANGED <<calls, stage, cur, answer>>
    BY <1>3 DEF WriteFiles, Then
  <2>2. \A t \in Paste : cur.task # t
    BY <1>0, <2>1 DEF Pasting, Asked, Asks, Writes
  <2>3. cur.task \in Share /\ chosen[cur.task] \in Lists /\ Single(cur)
    BY <1>0, <2>1, <2>2 DEF ChosenInv, ShareInv, Handled, Waits
  <2>4. Legible(clip') /\ \A t \in Paste : since'[t] = IF Active(t) THEN since[t] \cup {clip'} ELSE {}
    <3>1. CASE Hold(Drop(clip, BlockOf(chosen[cur.task]), chosen[cur.task]))
      <4>1. Legible(Drop(clip, BlockOf(chosen[cur.task]), chosen[cur.task]))
        BY <2>1, <2>3, BlockRead, EmptyLegible, FilesLegible DEF Single, Drop
      <4>. QED
        BY <3>1, <4>1 DEF Hold
    <3>2. CASE Hold(Emptied(clip.copy + 1))
      BY <3>2, EmptyLegible DEF Hold
    <3>. QED
      BY <1>3, <3>1, <3>2 DEF WriteFiles
  <2>5. \A t \in Paste : smooth'[t] = smooth[t]
    BY <1>0, <1>3, <2>2 DEF WriteFiles, Rough
  <2>6. ASSUME NEW t \in Paste PROVE Pasting(t)'
    <3>1. /\ Pasting(t) /\ cur'.task # t
          /\ stage'[t] = stage[t] /\ answer'[t] = answer[t] /\ smooth'[t] = smooth[t]
          /\ Legible(clip') /\ since'[t] = IF Active(t) THEN since[t] \cup {clip'} ELSE {}
          /\ \A i, j \in DOMAIN calls' : calls'[i].task = t /\ calls'[j].task = t => i = j
          /\ \A i \in DOMAIN calls' : \E j \in DOMAIN calls : calls'[i] = calls[j]
      BY <1>0, <1>00, <2>1, <2>2, <2>4, <2>5, <2>6
    <3>. QED
      BY <2>6, <3>1, PasteSame
  <2>. QED
    BY <2>4, <2>6 DEF PasteInv
<1>4. CASE Others
  <2>1. UNCHANGED <<calls, handler, stage, answer, smooth>>
    BY <1>4 DEF Others, OtherOpens, OtherPuts, OtherCloses
  <2>2. \/ UNCHANGED <<clip, since>>
        \/ Legible(clip') /\ \A t \in Paste : since'[t] = IF Active(t) THEN since[t] \cup {clip'} ELSE {}
    <3>1. ASSUME NEW c, Legible(c), Hold(c)
          PROVE  Legible(clip') /\ \A t \in Paste : since'[t] = IF Active(t) THEN since[t] \cup {clip'} ELSE {}
      BY <3>1 DEF Hold
    <3>2. CASE OtherOpens
      BY <3>1, <3>2, EmptyLegible DEF OtherOpens
    <3>3. CASE OtherPuts
      <4>1. ASSUME NEW paths \in OtherLists, NEW wide
            PROVE  Legible(WithFiles(clip, wide, ManyFiles(paths), paths))
        <5>1. paths \in Lines
          BY ClipboardAssumption DEF Lines
        <5>. QED
          BY <1>0, <5>1, ManyRead, FilesLegible
      <4>. QED
        BY <1>0, <3>1, <3>3, <4>1, FormLegible DEF OtherPuts
    <3>4. CASE OtherCloses
      BY <3>4 DEF OtherCloses
    <3>. QED
      BY <1>4, <3>2, <3>3, <3>4 DEF Others
  <2>3. ASSUME NEW t \in Paste PROVE Pasting(t)'
    BY <1>0, <1>00, <2>1, <2>2, <2>3, PasteSame
  <2>. QED
    BY <1>0, <2>2, <2>3 DEF PasteInv
<1>5. CASE UNCHANGED clipboardVars
  <2>1. UNCHANGED <<clip, since, calls, handler, stage, answer, smooth>>
    BY <1>5 DEF clipboardVars
  <2>2. ASSUME NEW t \in Paste PROVE Pasting(t)'
    BY <1>0, <1>00, <2>1, <2>2, PasteSame
  <2>. QED
    BY <1>0, <2>1, <2>2 DEF PasteInv
<1>6. ASSUME NEW p \in Task, NEW t \in Paste, t # p,
             UNCHANGED <<clip, step, cur, result>>,
             calls' = calls \/ \E m : Call(p, m),
             stage'[t] = stage[t], answer'[t] = answer[t], smooth'[t] = smooth[t],
             since'[t] = since[t]
      PROVE  Pasting(t)'
  <2>1. CASE calls' = calls
    BY <1>0, <1>00, <1>6, <2>1, PasteSame
  <2>2. ASSUME NEW m, Call(p, m) PROVE Pasting(t)'
    <3>. DEFINE c == [task |-> p, method |-> m]
    <3>1. calls' = Append(calls, c) /\ c.task = p
      BY <2>2 DEF Call
    <3>. HIDE DEF c
    <3>2. \A i \in DOMAIN calls' : (i \in DOMAIN calls /\ calls'[i] = calls[i]) \/ calls'[i] = c
      BY <1>0, <3>1, AppendProperties DEF CallsTyped
    <3>3. /\ \A i \in DOMAIN calls' : calls'[i].task = t => i \in DOMAIN calls /\ calls'[i] = calls[i]
          /\ \A i, j \in DOMAIN calls' : calls'[i].task = t /\ calls'[j].task = t => i = j
      BY <1>00, <1>6, <3>1, <3>2
    <3>. QED
      BY <1>0, <1>6, <3>3, PasteSame
  <2>. QED
    BY <1>6, <2>1, <2>2
<1>7. ASSUME NEW t \in Paste, NEW m, Call(t, m), Asks(t, m)',
             \A i \in DOMAIN calls : calls[i].task # t,
             step = "idle" \/ cur.task # t,
             UNCHANGED <<clip, step, cur, result>>,
             clip \in since'[t], \A c \in since'[t] : Legible(c),
             smooth'[t] /\ since'[t] = {clip} =>
               /\ stage'[t] # "image" => ~clip.image
               /\ stage'[t] = "text" => ~(clip.fWide /\ Exist(clip.list) # <<>>)
      PROVE  Pasting(t)'
  <2>. DEFINE c == [task |-> t, method |-> m]
  <2>1. calls' = Append(calls, c) /\ c.task = t /\ c.method = m /\ answer'[t] = Pending
    BY <1>0, <1>7 DEF Call
  <2>. HIDE DEF c
  <2>2. /\ \A i \in DOMAIN calls' : (i \in DOMAIN calls /\ calls'[i] = calls[i])
                                    \/ (i = Len(calls) + 1 /\ calls'[i] = c)
    BY <1>0, <2>1, AppendProperties, LenProperties DEF CallsTyped
  <2>3. Asked(t)'
    <3>1. \A i \in DOMAIN calls' : calls'[i].task = t => i = Len(calls) + 1 /\ calls'[i].method = m
      BY <1>7, <2>1, <2>2
    <3>2. stage'[t] # "share"
      BY <1>7 DEF Asks
    <3>. QED
      BY <1>7, <2>1, <3>1, <3>2 DEF Asked, Asks
  <2>4. Seen(t)'
    BY <1>7 DEF Seen
  <2>5. Sourced(t)'
    BY <1>7, <2>1 DEF Sourced, Source
  <2>6. Straight(t)'
    BY <1>7, <2>1 DEF Straight
  <2>. QED
    BY <2>3, <2>4, <2>5, <2>6 DEF Pasting
<1>8. ASSUME NEW p \in Task, Start(p) PROVE PasteInv'
  <2>1. /\ stage[p] = "idle" /\ UNCHANGED <<clip, handler, smooth>>
        /\ since' = [x \in Paste |-> IF x = p THEN {clip} ELSE since[x]]
        /\ \E m : Call(p, m)
    BY <1>8 DEF Start, PasteKey, ShareFiles, Begin
  <2>2. \A t \in Task : t # p => stage'[t] = stage[t] /\ answer'[t] = answer[t]
    BY <1>0, <1>8 DEF Start, PasteKey, ShareFiles, Call, Go
  <2>3. ASSUME NEW t \in Paste PROVE Pasting(t)'
    <3>1. CASE t # p
      <4>1. since'[t] = since[t]
        BY <2>1, <2>3, <3>1
      <4>. QED
        BY <1>0, <1>6, <2>1, <2>2, <2>3, <3>1, <4>1
    <3>2. CASE t = p
      <4>1. PasteKey(t)
        BY <1>0, <1>8, <2>3, <3>2 DEF Start, ShareFiles
      <4>2. /\ Call(t, "readClipboardImage") /\ stage'[t] = "image"
            /\ since'[t] = {clip}
        BY <1>0, <2>1, <2>3, <3>2, <4>1 DEF PasteKey, Go
      <4>3. /\ \A i \in DOMAIN calls : calls[i].task # t
            /\ step = "idle" \/ cur.task # t
        BY <1>0, <2>1, <2>3, <3>2 DEF Pasting, Asked, Asks
      <4>4. Asks(t, "readClipboardImage")'
        BY <4>2 DEF Asks
      <4>. QED
        BY <1>0, <1>7, <2>1, <2>3, <4>2, <4>3, <4>4
    <3>. QED
      BY <3>1, <3>2
  <2>. QED
    BY <1>0, <2>1, <2>3 DEF PasteInv
<1>9. ASSUME NEW p \in Task, Resume(p) PROVE PasteInv'
  <2>1. /\ answer[p] # Pending /\ stage[p] \in {"image", "files", "text", "share"}
        /\ UNCHANGED <<clip, handler>>
    BY <1>9 DEF Resume, AfterImage, AfterFiles, AfterText, AfterShare, At
  <2>2. \/ Finish(p) /\ calls' = calls
        \/ \E m, s : Ask(p, m, s)
    BY <1>9 DEF Resume, AfterImage, AfterFiles, AfterText, AfterShare
  <2>3. ASSUME NEW t \in Paste, t # p PROVE Pasting(t)'
    <3>1. /\ stage'[t] = stage[t] /\ answer'[t] = answer[t] /\ smooth'[t] = smooth[t]
          /\ since'[t] = since[t]
      <4>1. CASE Finish(p)
        BY <1>0, <2>3, <4>1 DEF Finish, Go
      <4>2. ASSUME NEW m, NEW s, Ask(p, m, s)
            PROVE  /\ stage'[t] = stage[t] /\ answer'[t] = answer[t] /\ smooth'[t] = smooth[t]
                   /\ since'[t] = since[t]
        BY <1>0, <2>3, <4>2 DEF Ask, Go, Call
      <4>. QED
        BY <2>2, <4>1, <4>2
    <3>2. calls' = calls \/ \E m : Call(p, m)
      BY <2>2 DEF Ask
    <3>. QED
      BY <1>0, <1>6, <2>1, <2>3, <3>1, <3>2
  <2>4. ASSUME p \in Paste PROVE Pasting(p)'
    <3>1. /\ \A i \in DOMAIN calls : calls[i].task # p
          /\ step = "idle" \/ cur.task # p
          /\ Active(p) /\ clip \in since[p] /\ \A c \in since[p] : Legible(c)
          /\ Straight(p)
      BY <1>0, <2>1, <2>4 DEF Pasting, Asked, Seen, Active
    <3>2. CASE Finish(p) /\ calls' = calls
      <4>1. stage'[p] = "done" /\ answer'[p] = Pending /\ since'[p] = {}
        BY <1>0, <2>4, <3>2 DEF Finish, Go
      <4>. QED
        BY <2>1, <3>1, <3>2, <4>1 DEF Pasting, Asked, Seen, Sourced, Straight, Active
    <3>3. ASSUME NEW m, NEW s, Ask(p, m, s), <<s, m>> \in {<<"files", "readClipboardFiles">>, <<"text", "getData">>},
                 smooth[p] /\ since[p] = {clip} =>
                   ~clip.image /\ (s = "text" => ~(clip.fWide /\ Exist(clip.list) # <<>>))
          PROVE  Pasting(p)'
      <4>1. /\ Call(p, m) /\ stage'[p] = s /\ UNCHANGED <<since, smooth>>
        BY <1>0, <2>4, <3>3 DEF Ask, Go
      <4>2. Asks(p, m)'
        BY <3>3, <4>1 DEF Asks
      <4>. QED
        BY <1>7, <2>1, <2>4, <3>1, <3>3, <4>1, <4>2
    <3>4. CASE AfterImage(p)
      <4>1. stage[p] = "image"
        BY <3>4 DEF AfterImage, At
      <4>2. smooth[p] /\ since[p] = {clip} /\ answer[p].kind # "image" => ~clip.image
        BY <2>1, <3>1, <4>1 DEF Straight, Exactly, Image
      <4>. QED
        BY <3>2, <3>3, <3>4, <4>2 DEF AfterImage
    <3>5. CASE AfterFiles(p)
      <4>1. stage[p] = "files"
        BY <3>5 DEF AfterFiles, At
      <4>. DEFINE exist == IF answer[p].kind = "files" THEN Exist(answer[p].names) ELSE <<>>
      <4>2. smooth[p] /\ since[p] = {clip} /\ exist = <<>> =>
              ~clip.image /\ ~(clip.fWide /\ Exist(clip.list) # <<>>)
        <5>. SUFFICES ASSUME smooth[p], since[p] = {clip}, exist = <<>>
                      PROVE  ~clip.image /\ ~(clip.fWide /\ Exist(clip.list) # <<>>)
          OBVIOUS
        <5>1. ~clip.image /\ (answer[p] = Files(ListOf(clip)) \/ (answer[p] = Nothing /\ ~HasFiles(clip)))
          BY <2>1, <3>1, <4>1 DEF Straight, Exactly
        <5>2. answer[p] = Files(ListOf(clip)) => Exist(ListOf(clip)) = <<>>
          BY DEF Files
        <5>. QED
          BY <1>0, <5>1, <5>2, LegibleList
      <4>3. (Finish(p) /\ calls' = calls) \/ (exist = <<>> /\ Ask(p, "getData", "text"))
        BY <3>5 DEF AfterFiles
      <4>. HIDE DEF exist
      <4>. QED
        BY <3>2, <3>3, <4>2, <4>3
    <3>. QED
      BY <1>9, <3>2, <3>4, <3>5 DEF Resume, AfterText, AfterShare
  <2>5. \A t \in Paste : Pasting(t)'
    BY <2>3, <2>4
  <2>. QED
    BY <1>0, <2>1, <2>5 DEF PasteInv
<1>. QED
  BY <1>1, <1>2, <1>3, <1>4, <1>5, <1>8, <1>9 DEF ClipboardNext, Inside

LEMMA SourceKind ==
  ASSUME NEW t, NEW r, Source(t, r)
  PROVE  /\ r.kind = "image" => \E c \in since[t] : c.image /\ r = Image(c)
         /\ r.kind = "files" => \E c \in since[t] : r = Files(ListOf(c))
         /\ r.kind = "text" => \E c \in since[t] : c.text /\ r = Text(c)
<1>1. CASE r \in {Nothing, Failed, Done, Pending}
  BY <1>1 DEF Nothing, Failed, Done, Pending
<1>2. ASSUME NEW c \in since[t], c.image /\ r = Image(c)
      PROVE  r.kind = "image"
  BY <1>2 DEF Image
<1>3. ASSUME NEW c \in since[t], r = Files(ListOf(c))
      PROVE  r.kind = "files"
  BY <1>3 DEF Files
<1>4. ASSUME NEW c \in since[t], c.text /\ r = Text(c)
      PROVE  r.kind = "text"
  BY <1>4 DEF Text
<1>. QED
  BY <1>1, <1>2, <1>3, <1>4 DEF Source

\* How a paste ends: with what it was answered.
LEMMA PasteEnds ==
  ASSUME ClipboardTypeOK, ChosenInv, ShareInv, PasteInv, ClipboardNext, NEW t \in Paste, Ends(t)
  PROVE  /\ got'[t] # Nothing =>
              \E c \in since[t] :
                \/ c.image /\ got'[t] = Image(c)
                \/ got'[t] = Files(Exist(c.list))
                \/ c.text /\ got'[t] = Text(c)
         /\ \A c \in since[t] : smooth[t] /\ since[t] = {c} => got'[t] = Best(c)
<1>0. /\ Pasting(t) /\ Legible(clip) /\ t \in Task /\ DOMAIN got = Task /\ DOMAIN stage = Task
      /\ stage[t] # "share" /\ stage[t] # "done" /\ stage'[t] = "done"
  BY ClipboardAssumption DEF PasteInv, ClipboardTypeOK, Task, Ends, Pasting, Asked
<1>1. AfterImage(t) \/ AfterFiles(t) \/ AfterText(t)
  <2>1. ASSUME UNCHANGED stage PROVE FALSE
    BY <1>0, <2>1
  <2>2. ASSUME NEW p \in Task, Start(p) PROVE FALSE
    BY <1>0, <2>2 DEF Start, PasteKey, ShareFiles, Go
  <2>3. ASSUME NEW p \in Task, Resume(p), p # t PROVE FALSE
    BY <1>0, <2>3 DEF Resume, AfterImage, AfterFiles, AfterText, AfterShare, Finish, Ask, Go
  <2>4. ~AfterShare(t)
    BY <1>0 DEF AfterShare, At
  <2>5. \E p \in Task : Start(p) \/ Resume(p)
    BY <2>1 DEF ClipboardNext, HandleCall, GetData, Inside, OpenClipboard, ReadImage, SaveImage,
                ReadFiles, WriteFiles, CloseClipboard, Others, OtherOpens, OtherPuts,
                OtherCloses, tasks
  <2>. QED
    BY <2>2, <2>3, <2>4, <2>5 DEF Resume
<1>2. /\ Active(t) /\ answer[t] # Pending /\ Source(t, answer[t])
      /\ \A c \in since[t] : Legible(c)
      /\ \A c : since[t] = {c} => c = clip
      /\ smooth[t] /\ since[t] = {clip} =>
           /\ Exactly(stage[t], answer[t])
           /\ stage[t] # "image" => ~clip.image
           /\ stage[t] = "text" => ~(clip.fWide /\ Exist(clip.list) # <<>>)
  <2>1. answer[t] # Pending /\ Active(t)
    BY <1>1 DEF AfterImage, AfterFiles, AfterText, At, Active
  <2>. QED
    BY <1>0, <2>1 DEF Pasting, Seen, Sourced, Straight
<1>3. CASE AfterImage(t)
  <2>1. stage[t] = "image" /\ answer[t].kind = "image" /\ got'[t] = answer[t]
    BY <1>0, <1>3 DEF AfterImage, At, Ask, Go
  <2>2. \E c \in since[t] : c.image /\ answer[t] = Image(c)
    BY <1>2, <2>1, SourceKind
  <2>3. smooth[t] /\ since[t] = {clip} => got'[t] = Best(clip)
    BY <1>2, <2>1 DEF Exactly, Best, Nothing
  <2>. QED
    BY <1>2, <2>1, <2>2, <2>3
<1>4. CASE AfterFiles(t)
  <2>. DEFINE exist == IF answer[t].kind = "files" THEN Exist(answer[t].names) ELSE <<>>
  <2>1. stage[t] = "files" /\ exist # <<>> /\ got'[t] = Files(exist)
    BY <1>0, <1>4 DEF AfterFiles, At, Ask, Go
  <2>2. answer[t].kind = "files" /\ exist = Exist(answer[t].names)
    BY <2>1
  <2>. HIDE DEF exist
  <2>3. \E c \in since[t] : answer[t] = Files(ListOf(c))
    BY <1>2, <2>2, SourceKind
  <2>4. \E c \in since[t] : exist = Exist(c.list)
    <3>1. PICK c \in since[t] : answer[t] = Files(ListOf(c))
      BY <2>3
    <3>2. exist = Exist(ListOf(c))
      BY <2>2, <3>1 DEF Files
    <3>. QED
      BY <1>2, <2>1, <3>2, LegibleList
  <2>5. smooth[t] /\ since[t] = {clip} => got'[t] = Best(clip)
    <3>. SUFFICES ASSUME smooth[t], since[t] = {clip} PROVE got'[t] = Best(clip)
      OBVIOUS
    <3>1. ~clip.image /\ answer[t] = Files(ListOf(clip))
      BY <1>2, <2>1, <2>2 DEF Exactly, Nothing
    <3>2. exist = Exist(ListOf(clip))
      BY <2>2, <3>1 DEF Files
    <3>3. clip.fWide /\ exist = Exist(clip.list)
      BY <1>0, <2>1, <3>2, LegibleList
    <3>. QED
      BY <2>1, <3>1, <3>3 DEF Best
  <2>. QED
    BY <1>2, <2>1, <2>4, <2>5
<1>5. CASE AfterText(t)
  <2>1. stage[t] = "text" /\ got'[t] = IF answer[t].kind = "text" THEN answer[t] ELSE Nothing
    BY <1>0, <1>5 DEF AfterText, At
  <2>2. got'[t] # Nothing => \E c \in since[t] : c.text /\ got'[t] = Text(c)
    BY <1>2, <2>1, SourceKind
  <2>3. smooth[t] /\ since[t] = {clip} => got'[t] = Best(clip)
    BY <1>2, <2>1 DEF Exactly, Best, Nothing, Text
  <2>. QED
    BY <1>2, <2>2, <2>3
<1>. QED
  BY <1>1, <1>3, <1>4, <1>5

-----------------------------------------------------------------------------
(* Together. *)

CopyInv == ClipboardTypeOK /\ Balanced /\ ShareInv /\ ChosenInv /\ AloneInv /\ PasteInv

LEMMA CopyInvStep == CopyInv /\ [ClipboardNext]_clipboardVars => CopyInv'
<1>. SUFFICES ASSUME CopyInv, [ClipboardNext]_clipboardVars PROVE CopyInv'
  OBVIOUS
<1>1. ClipboardTypeOK' /\ Balanced'
  BY ClipboardTypeStep, BalancedStep DEF CopyInv, ClipboardTypeOK
<1>2. ShareInv' /\ ChosenInv' /\ AloneInv' /\ PasteInv'
  BY ShareStep, ChosenStep, AloneStep, PasteStep DEF CopyInv
<1>. QED
  BY <1>1, <1>2 DEF CopyInv

LEMMA CopyInvInit == ClipboardInit => CopyInv
<1>. SUFFICES ASSUME ClipboardInit PROVE CopyInv
  OBVIOUS
<1>1. ClipboardTypeOK /\ Balanced
  BY ClipboardAssumption DEF ClipboardInit, ClipboardTypeOK, Balanced
<1>. QED
  BY <1>1, ShareInit, ChosenInit, AloneInit, PasteInit DEF CopyInv

LEMMA CopyInvAlways == ClipboardSpec => []CopyInv
  BY CopyInvInit, CopyInvStep, PTL DEF ClipboardSpec

\* A share that failed is told as failed by one of its toasts, and one that has put its list on
\* the clipboard by none.
THEOREM NoSilentFailure == SafeSpec => []FailureTold
<1>1. CopyInv => FailureTold
  BY DEF CopyInv, ShareInv, Knows, FailureTold
<1>. QED
  BY <1>1, CopyInvAlways, ImplementsClipboard, PTL

\* And until the clipboard is emptied again what is read from it is that list, in its order, and
\* nothing else is on it, with whatever other processes do.
THEOREM Shared == SafeSpec => []ShareTold
<1>1. CopyInv => ShareTold
  BY DEF CopyInv, ShareInv, Knows, FailureTold, AloneInv, Alone, ShareTold
<1>. QED
  BY <1>1, CopyInvAlways, ImplementsClipboard, PTL

\* What a paste sends, offers or inserts was on the clipboard after the key was pressed, whoever
\* writes to it between the three calls.
THEOREM Faithful == SafeSpec => PasteFaithful
<1>1. CopyInv /\ [ClipboardNext]_clipboardVars =>
        [\A t \in Paste : Ends(t) /\ got'[t] # Nothing =>
                      \E c \in since[t] :
                        \/ c.image /\ got'[t] = Image(c)
                        \/ got'[t] = Files(Exist(c.list))
                        \/ c.text /\ got'[t] = Text(c)]_clipboardVars
  BY PasteEnds DEF CopyInv
<1>. QED
  BY <1>1, CopyInvAlways, ImplementsClipboard, PTL DEF ClipboardSpec, PasteFaithful

\* A paste that nothing disturbs takes the first of the three forms there are.
THEOREM FirstForm == SafeSpec => PasteFirst
<1>1. CopyInv /\ [ClipboardNext]_clipboardVars =>
        [\A t \in Paste : \A c \in since[t] :
           Ends(t) /\ smooth[t] /\ since[t] = {c} => got'[t] = Best(c)]_clipboardVars
  BY PasteEnds DEF CopyInv
<1>. QED
  BY <1>1, CopyInvAlways, ImplementsClipboard, PTL DEF ClipboardSpec, PasteFirst
=============================================================================
