------------------------------- MODULE Window -------------------------------
(***************************************************************************)
(* The window of the desktop app: app/windows/runner/main.cpp,             *)
(* win32_window.cpp and flutter_window.cpp.                                *)
(*                                                                         *)
(* One thread runs wWinMain.  It makes the window, starts the engine in    *)
(* it, and then dispatches messages until the window was destroyed.  Two   *)
(* others work beside it: the engine draws frames, and the system changes  *)
(* settings and then sends a message.  Destroy() runs in three places: on  *)
(* WM_DESTROY, in the destructor, and nested in the DestroyWindow that the *)
(* destructor calls; FlutterWindow::OnDestroy runs in the first one only.  *)
(***************************************************************************)
EXTENDS Integers

CONSTANTS
  Sizes,   \* sizes the client area can have
  First,   \* the one the window is made with
  Themes,  \* the values AppsUseLightTheme has in the registry: "light", "dark", "missing"
  MaxNews  \* bound: so often the user resizes, or the system changes its theme

ASSUME WindowAssumption ==
  /\ First \in Sizes /\ 0 \notin Sizes
  /\ Themes # {} /\ Themes \subseteq {"light", "dark", "missing"}
  /\ MaxNews \in Nat

NoSize == 0

VARIABLES
  at,          \* where wWinMain is
  com,         \* COM is initialised on the thread
  count,       \* g_active_window_count
  registered,  \* class_registered_
  class,       \* the system knows the window class
  window,      \* the system's window exists
  handle,      \* window_handle_ is set
  quitOnClose, \* quit_on_close_
  quit,        \* WM_QUIT is posted
  controller,  \* flutter_controller_: "none", "broken" or "running"
  channel,     \* share_channel_ is set
  size,        \* the client area
  child,       \* child_content_: its size, or NoSize
  theme,       \* the theme of the system
  dark,        \* the frame of the window is dark
  themeSent,   \* WM_DWMCOLORIZATIONCOLORCHANGED is on its way
  due,         \* the engine will draw a frame
  drawn,       \* the engine has drawn its first frame
  callback,    \* of SetNextFrameCallback: "none", "set", "posted" or "done"
  shown,       \* the window was shown
  news

system    == <<window, class>>
engine    == <<controller, channel, due, drawn, callback>>
look      == <<size, child, theme, dark, themeSent, news>>
windowVars == <<at, com, count, registered, handle, quitOnClose, quit, shown, system, engine, look>>

WindowTypeOK ==
  /\ at \in {"main", "create", "theme", "controller", "content", "redraw", "loop",
             "destroy", "return", "base", "gone"}
  /\ {com, registered, class, window, handle, quitOnClose, quit} \subseteq BOOLEAN
  /\ {channel, dark, themeSent, due, drawn, shown} \subseteq BOOLEAN
  /\ count \in {0, 1} /\ news \in 0 .. MaxNews
  /\ controller \in {"none", "broken", "running"}
  /\ callback \in {"none", "set", "posted", "done"}
  /\ size \in Sizes \cup {NoSize} /\ child \in Sizes \cup {NoSize}
  /\ theme \in Themes

WindowInit ==
  /\ at = "main" /\ com = FALSE /\ count = 0
  /\ registered = FALSE /\ class = FALSE /\ window = FALSE /\ handle = FALSE
  /\ quitOnClose = FALSE /\ quit = FALSE /\ shown = FALSE
  /\ controller = "none" /\ channel = FALSE
  /\ size = NoSize /\ child = NoSize
  /\ theme \in Themes /\ dark = FALSE /\ themeSent = FALSE /\ news = 0
  /\ due = FALSE /\ drawn = FALSE /\ callback = "none"

-----------------------------------------------------------------------------
(* wWinMain until the loop. *)

\* CoInitializeEx, and the constructor
StartUp ==
  /\ at = "main"
  /\ com' = TRUE /\ count' = count + 1
  /\ at' = "create"
  /\ UNCHANGED <<registered, handle, quitOnClose, quit, shown, system, engine, look>>

\* GetWindowClass
GetWindowClass == registered' = TRUE /\ class' = TRUE

\* UnregisterWindowClass, while a window exists or not: the system refuses it if one does
UnregisterWindowClass(exists) == registered' = FALSE /\ class' = (class /\ exists)

\* Win32Window::Create, its first half.  Nothing is there that Destroy could destroy.  In
\* CreateWindow WM_NCCREATE sets the handle.
CreateWindow ==
  /\ at = "create"
  /\ GetWindowClass
  /\ \/ /\ window' = TRUE /\ handle' = TRUE /\ size' = First
        /\ at' = "theme"
     \/ at' = "return" /\ UNCHANGED <<window, handle, size>>
  /\ UNCHANGED <<com, count, quitOnClose, quit, shown, engine,
                 child, theme, dark, themeSent, news>>

\* UpdateTheme: if there is no value, the frame stays as it is
UpdateTheme == dark' = IF theme = "missing" THEN dark ELSE theme = "dark"

\* Mutant: the theme is read when it changes only
NoTheme == UNCHANGED dark

\* the theme in Create
FirstTheme == UpdateTheme

\* the second half of Create
Dress ==
  /\ at = "theme"
  /\ FirstTheme
  /\ at' = "controller"
  /\ UNCHANGED <<com, count, registered, handle, quitOnClose, quit, shown, system, engine,
                 size, child, theme, themeSent, news>>

\* Mutant: main does not ask whether the window was made
AfterFailureLoop == "loop"

\* Create returns false
AfterFailure == "return"

\* OnCreate: the controller starts the engine, which draws its first frame at some time
MakeController ==
  /\ at = "controller"
  /\ \/ /\ controller' = "running" /\ due' = TRUE
        /\ at' = "content"
     \/ controller' = "broken" /\ at' = AfterFailure /\ UNCHANGED due
  /\ UNCHANGED <<com, count, registered, handle, quitOnClose, quit, shown, system,
                 channel, drawn, callback, look>>

\* SetChildContent: the content fills the client area
SetChildContent == child' = size

\* RegisterPlugins, RegisterShareChannel, SetChildContent, SetNextFrameCallback
SetContent ==
  /\ at = "content"
  /\ channel' = TRUE /\ callback' = "set"
  /\ SetChildContent
  /\ at' = "redraw"
  /\ UNCHANGED <<com, count, registered, handle, quitOnClose, quit, shown, system,
                 controller, due, drawn, size, theme, dark, themeSent, news>>

\* Mutant: no redraw
NoRedraw == UNCHANGED due

\* FlutterViewController::ForceRedraw: nothing happens before the first frame
ForceRedraw == due' = (due \/ drawn)

\* OnCreate and Create return true, and SetQuitOnClose
EnterLoop ==
  /\ at = "redraw"
  /\ ForceRedraw
  /\ quitOnClose' = TRUE
  /\ at' = "loop"
  /\ UNCHANGED <<com, count, registered, handle, quit, shown, system,
                 controller, channel, drawn, callback, look>>

-----------------------------------------------------------------------------
(* The loop: each message or task is handled to its end. *)

Dispatching == at = "loop" /\ window

News == news < MaxNews /\ news' = news + 1

\* WM_SIZE: so it does later
Placed(s) == IF child = NoSize THEN NoSize ELSE s

\* The user moves an edge, or WM_DPICHANGED calls SetWindowPos: WM_SIZE is sent at once.
Resize ==
  /\ Dispatching /\ News
  /\ \E s \in Sizes \ {size} : size' = s /\ child' = Placed(s)
  /\ UNCHANGED <<at, com, count, registered, handle, quitOnClose, quit, shown, system,
                 engine, theme, dark, themeSent>>

\* WM_DWMCOLORIZATIONCOLORCHANGED
ThemeMessage ==
  /\ Dispatching /\ themeSent
  /\ themeSent' = FALSE
  /\ UpdateTheme
  /\ UNCHANGED <<at, com, count, registered, handle, quitOnClose, quit, shown, system,
                 engine, size, child, theme, news>>

Show == shown' = handle

\* the callback of the first frame, a task of the engine
FrameCallback ==
  /\ Dispatching /\ callback = "posted"
  /\ callback' = "done"
  /\ Show
  /\ UNCHANGED <<at, com, count, registered, handle, quitOnClose, quit, system,
                 controller, channel, due, drawn, look>>

\* WM_CLOSE that the engine lets pass: DestroyWindow sends WM_DESTROY.  Destroy calls
\* OnDestroy, which drops the channel first
Close ==
  /\ Dispatching
  /\ handle' = FALSE
  /\ channel' = FALSE
  /\ at' = "destroy"
  /\ UNCHANGED <<com, count, registered, quitOnClose, quit, shown, system,
                 controller, due, drawn, callback, look>>

\* Mutant: the controller is left for the destructor
KeepController == UNCHANGED <<controller, due, callback>>

\* the controller goes, and the engine with it
DropController == controller' = "none" /\ due' = FALSE /\ callback' = "none"

\* PostQuitMessage
PostQuit == quit' = (quit \/ quitOnClose)

\* the rest of WM_DESTROY: the window is counted, so that its class stays
Destroyed ==
  /\ at = "destroy"
  /\ DropController
  /\ PostQuit
  /\ window' = FALSE
  /\ at' = "loop"
  /\ UNCHANGED <<com, count, registered, class, handle, quitOnClose, shown, channel, drawn, look>>

\* GetMessage returns 0, CoUninitialize
LeaveLoop ==
  /\ at = "loop" /\ quit
  /\ com' = FALSE
  /\ at' = "return"
  /\ UNCHANGED <<count, registered, handle, quitOnClose, quit, shown, system, engine, look>>

-----------------------------------------------------------------------------
(* The end of wWinMain. *)

\* Mutant: WM_DESTROY counts it down, too
CountedTwice == count - 2

\* ~Win32Window counts the window no more before it calls Destroy
CountDown == count - 1

\* ~FlutterWindow: its members go, the channel before the controller
Destruct ==
  /\ at = "return"
  /\ channel' = FALSE
  /\ DropController
  /\ count' = CountDown
  /\ at' = "base"
  /\ UNCHANGED <<com, registered, handle, quitOnClose, quit, shown, system, drawn, look>>

\* Destroy in ~Win32Window, when there still is a window: DestroyWindow, and in it
\* WM_DESTROY with a second Destroy, that tries to unregister the class too early
DestroyNested ==
  /\ at = "base" /\ handle
  /\ handle' = FALSE /\ window' = FALSE
  /\ IF count = 0 THEN UnregisterWindowClass(window) ELSE UNCHANGED <<registered, class>>
  /\ PostQuit
  /\ UNCHANGED <<at, com, count, quitOnClose, shown, engine, look>>

\* the end of that Destroy: the class goes with the last window
DestroyOuter ==
  /\ at = "base" /\ ~handle
  /\ IF count = 0 THEN UnregisterWindowClass(window) ELSE UNCHANGED <<registered, class>>
  /\ at' = "gone"
  /\ UNCHANGED <<com, count, handle, quitOnClose, quit, shown, window, engine, look>>

-----------------------------------------------------------------------------
(* Beside the thread. *)

\* The engine draws a frame; if a callback is set, it is posted to the thread.
DrawFrame ==
  /\ controller = "running" /\ due
  /\ due' = FALSE /\ drawn' = TRUE
  /\ callback' = IF callback = "set" THEN "posted" ELSE callback
  /\ UNCHANGED <<at, com, count, registered, handle, quitOnClose, quit, shown, system,
                 controller, channel, look>>

\* The app has something new to draw (left out when nothing waits for a frame any more).
Animate ==
  /\ controller = "running" /\ drawn /\ ~due /\ callback \in {"none", "set"}
  /\ due' = TRUE
  /\ UNCHANGED <<at, com, count, registered, handle, quitOnClose, quit, shown, system,
                 controller, channel, drawn, callback, look>>

\* The user chooses another theme: the windows there are get a message.
ChangeTheme ==
  /\ News
  /\ theme' \in Themes \ {theme}
  /\ themeSent' = window
  /\ UNCHANGED <<at, com, count, registered, handle, quitOnClose, quit, shown, system,
                 engine, size, child, dark>>

-----------------------------------------------------------------------------
\* what the thread does of itself, what a message makes it do, and what others do
Proceed ==
  \/ StartUp \/ CreateWindow \/ Dress \/ MakeController \/ SetContent \/ EnterLoop
  \/ Destroyed \/ LeaveLoop \/ Destruct \/ DestroyNested \/ DestroyOuter
Dispatch == Resize \/ ThemeMessage \/ FrameCallback \/ Close
Outside  == DrawFrame \/ Animate \/ ChangeTheme

WindowNext == Proceed \/ Dispatch \/ Outside
WindowSpec == WindowInit /\ [][WindowNext]_windowVars

-----------------------------------------------------------------------------
(* Properties. *)

\* The channel's handler holds a pointer to the window and uses the engine's messenger: it
\* is never there without the engine (RegisterShareChannel, OnDestroy).  Plug-ins use COM: the
\* engine is gone when wWinMain ends it, before the destructor runs.  Destroy runs up to twice
\* for one window, once nested: its class is known as long as there is a window, and when
\* wWinMain has returned neither is there, and the registrar agrees, on every path out.
EndsInOrder ==
  /\ channel => controller = "running"
  /\ controller # "none" => com
  /\ window => class
  /\ at = "gone" => ~window /\ ~class /\ ~registered

\* A message that reaches a window in the loop finds the engine: WM_FONTCHANGE uses the
\* controller without asking, and Create can have failed.
LoopHasEngine == Dispatching => handle /\ channel /\ controller = "running"

\* The content fills the window and the frame has the colour of the theme, or a message
\* that corrects it is on its way, whatever changed while the window was being made.  (A
\* value that is missing leaves the colour as it was, though the comment in
\* win32_window.cpp says it means light.)
LooksRight ==
  /\ Dispatching => child = size
  /\ Dispatching /\ ~themeSent /\ theme # "missing" => dark = (theme = "dark")
=============================================================================
