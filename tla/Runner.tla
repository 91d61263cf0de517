------------------------------- MODULE Runner -------------------------------
(***************************************************************************)
(* The desktop app on Windows: its window (Window) and the clipboard       *)
(* behind its channel (Clipboard) on one thread.                           *)
(*                                                                         *)
(* Method calls of Dart are tasks of the same loop that dispatches the     *)
(* messages: a call is handled to its end before the next message.  The    *)
(* channel is there from OnCreate to OnDestroy; when the window is closed  *)
(* the engine goes, and with it the Dart code and the calls on their way.  *)
(***************************************************************************)
EXTENDS Window, Clipboard

\* bounds: what happens in one behaviour, [themes, news, others, tasks] (see limit)
CONSTANT Limits

ASSUME RunnerAssumption ==
  \A l \in Limits :
    /\ l.themes \subseteq Themes /\ l.news \in 0 .. MaxNews
    /\ l.others \in 0 .. MaxOthers /\ l.tasks \subseteq Task

\* the bounds of this behaviour: the themes at the start, how often the looks change, how
\* often other processes open the clipboard, and the tasks
VARIABLE limit

vars == <<windowVars, clipboardVars, limit>>

\* the thread is not inside a call
Free == step = "idle"

Thread  == (Proceed \/ Dispatch) /\ Free /\ UNCHANGED clipboardVars
Beside  == Outside /\ UNCHANGED clipboardVars
Calls   == (HandleCall \/ GetData) /\ Dispatching /\ channel /\ UNCHANGED windowVars
Handler == Inside /\ UNCHANGED windowVars
Foreign == Others /\ UNCHANGED windowVars

\* Dart code runs as long as the engine does; the user sees it when the window is shown.
Dart(t) == controller = "running" /\ Resume(t) /\ UNCHANGED windowVars
User(t) == shown /\ controller = "running" /\ Start(t) /\ UNCHANGED windowVars

Init == WindowInit /\ ClipboardInit /\ limit \in Limits /\ theme \in limit.themes
Next ==
  /\ \/ Thread \/ Beside \/ Calls \/ Handler \/ Foreign
     \/ \E t \in Task : Dart(t)
     \/ \E t \in limit.tasks : User(t)
  /\ news' <= limit.news /\ others' <= limit.others
  /\ UNCHANGED limit

\* what the thread finds to do without a message from outside
Work == (Proceed \/ FrameCallback) /\ Free /\ UNCHANGED clipboardVars

\* The thread goes on, with whatever is posted to it, and so do the engine and the Dart code;
\* users, settings and other processes do what they like.
Fairness ==
  /\ WF_vars((Work \/ Calls \/ Handler) /\ UNCHANGED limit)
  /\ WF_vars(DrawFrame /\ UNCHANGED <<clipboardVars, limit>>)
  /\ WF_vars(\E t \in Task : Dart(t) /\ UNCHANGED limit)

SafeSpec == Init /\ [][Next]_vars
Spec     == SafeSpec /\ Fairness

-----------------------------------------------------------------------------
(* Properties. *)

TypeOK == WindowTypeOK /\ ClipboardTypeOK

\* Every way out of a call closes the clipboard that it opened, or no process could copy any
\* more, and ends the COM it began, and no other.  A call is handled under a window and its
\* engine, and the process that is gone has left the clipboard to the others.
CallsAreClean ==
  /\ opened = "app" <=> step \in {"use", "encode", "close"}
  /\ nested = IF step = "encode" THEN 1 ELSE 0
  /\ step # "idle" => handle /\ channel /\ controller = "running" /\ com

\* In the end the window is shown or closed, though the engine may have drawn its first frame
\* before anybody listened; every paste and share has ended or the engine has, and no process
\* that sits on the clipboard can hold that up; and a failed start or a closed window ends
\* the process.
Settles ==
  []<>(/\ at = "loop" /\ handle => shown
       /\ controller = "running" => \A t \in Task : ~Active(t)
       /\ at # "return" /\ (at = "loop" => window))
=============================================================================
