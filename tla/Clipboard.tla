----------------------------- MODULE Clipboard -----------------------------
(***************************************************************************)
(* Copying to and pasting from the clipboard of Windows:                   *)
(* app/windows/runner/share_channel.cpp, and what calls it in              *)
(* app/lib/share_out.dart and chat_page.dart.                              *)
(*                                                                         *)
(* A press of Ctrl+V asks for an image, then for files, then for text, one *)
(* call after the other; a share is one call.  The thread of the window    *)
(* handles the calls in their order, each to its end.  The clipboard       *)
(* belongs to everybody: whoever has opened it keeps the others out, but   *)
(* anybody can ask at any time which formats it has.  Other processes      *)
(* empty it, fill it form by form, or only look at it.                     *)
(*                                                                         *)
(* A character is a number, 0 is NUL.  An image or a text is named by the  *)
(* copy it is from.                                                        *)
(***************************************************************************)
EXTENDS Integers, FiniteSets, SequencesExt

CONSTANTS
  Paste, Share, \* presses of Ctrl+V, and shares of files
  Lists,        \* the lists of paths a user can choose to share
  OtherLists,   \* lists of paths that other processes copy
  Existing,     \* the paths of files that exist
  MaxOthers     \* bound: so often other processes open the clipboard

Task == Paste \cup Share
Path == Seq(Nat \ {0}) \ {<<>>}

ASSUME ClipboardAssumption ==
  /\ Paste \cap Share = {}
  /\ Lists \subseteq Seq(Path) \ {<<>>}
  /\ OtherLists \subseteq Seq(Path) \ {<<>>}
  /\ MaxOthers \in Nat

Nothing == [kind |-> "nothing"]
Image(c) == [kind |-> "image", copy |-> c.copy]
Files(names) == [kind |-> "files", names |-> names]
Text(c) == [kind |-> "text", copy |-> c.copy]
Failed  == [kind |-> "failed"]
Done    == [kind |-> "clipboard"]
Pending == [kind |-> "pending"]

VARIABLES
  clip,    \* what the clipboard holds (see Emptied)
  opened,  \* who has it open: "nobody", "app", "viewer", "writer"
  calls,   \* method calls on their way to the thread, of [task, method]
  step,    \* where the handler is: "idle", "open", "use", "encode", "close"
  cur,     \* the call that is handled
  result,  \* what it will return
  nested,  \* CoInitializeEx without its CoUninitialize
  stage,   \* stage[t]: where task t is
  answer,  \* answer[t]: what its call returned, or Pending
  got,     \* got[t]: what a paste sends, offers to send, or inserts
  chosen,  \* chosen[t]: the paths share t copies
  toasts,  \* toasts[t]: what a share tells the user
  since,   \* since[t]: what the clipboard held since paste t began, until it is done
  smooth,  \* smooth[t]: till then no call of t met an open clipboard or a failure
  mine,    \* mine[t]: the number of the copy that share t made
  others

handler       == <<step, cur, result, nested>>
tasks         == <<stage, got, chosen, toasts>>
held          == <<clip, since>>
clipboardVars == <<held, opened, calls, handler, tasks, answer, smooth, mine, others>>

-----------------------------------------------------------------------------
(* CF_HDROP: one block of characters. *)

\* a C string ends at its NUL
UpToNul(s) ==
  LET nuls == {i \in DOMAIN s : s[i] = 0}
  IN IF nuls = {} THEN s ELSE SubSeq(s, 1, Min(nuls) - 1)

FromUtf8(s) == UpToNul(s)
ToUtf8(s)   == UpToNul(s)

\* Mutant: without the NUL of each path
JoinedBare(paths) == FlattenSeq(paths)

\* each path with its NUL, one behind the other
Joined(paths) ==
  LET upTo[k \in 0 .. Len(paths)] == IF k = 0 THEN <<>> ELSE upTo[k - 1] \o paths[k] \o <<0>>
  IN upTo[Len(paths)]

\* CopyFilesToClipboard allocates so many characters, all NUL at first
Chars(paths) ==
  LET upTo[k \in 0 .. Len(paths)] == IF k = 0 THEN 2 ELSE upTo[k - 1] + Len(paths[k]) + 1
  IN upTo[Len(paths)]

ManyFiles(paths) ==
  LET text == Joined(paths)
  IN [i \in 1 .. Chars(paths) |-> IF i \in DOMAIN text THEN text[i] ELSE 0]

\* CopyFileToClipboard
OneFile(path) == path \o <<0, 0>>

\* ClipboardFiles: one string after the other, up to the first empty one
Names(block) ==
  LET From(at) == ToUtf8(SubSeq(block, at, Len(block)))
      loop[k \in 0 .. Len(block)] ==
        IF k = 0 THEN [at |-> 1, names |-> <<>>]
        ELSE LET l == loop[k - 1]
             IN IF block[l.at] = 0 THEN l
                ELSE [at    |-> l.at + Len(From(l.at)) + 1,
                      names |-> Append(l.names, From(l.at))]
  IN loop[Len(block)].names

-----------------------------------------------------------------------------
(* What the clipboard holds. *)

\* after EmptyClipboard; list is what whoever made the block wanted to put into it
Emptied(n) ==
  [copy |-> n, image |-> FALSE, text |-> FALSE, fWide |-> FALSE, block |-> <<>>, list |-> <<>>]

WithFiles(c, wide, block, list) == [c EXCEPT !.fWide = wide, !.block = block, !.list = list]

HasFiles(c) == c.block # <<>>

\* what ClipboardFiles makes of it: nothing of a list in the ANSI code page
ListOf(c) == IF HasFiles(c) /\ c.fWide THEN Names(c.block) ELSE <<>>

Active(t) == stage[t] \notin {"idle", "done"}

Hold(c) ==
  /\ clip' = c
  /\ since' = [t \in Paste |-> IF Active(t) THEN since[t] \cup {c} ELSE {}]

Rough(t) == smooth' = [x \in Paste |-> smooth[x] /\ x # t]

-----------------------------------------------------------------------------
(* The tasks of the app, in Dart.  Each runs until it waits for a call. *)

Call(t, method) ==
  /\ calls' = Append(calls, [task |-> t, method |-> method])
  /\ answer' = [answer EXCEPT ![t] = Pending]

At(t, s) == stage[t] = s /\ answer[t] # Pending
Go(t, s) == stage' = [stage EXCEPT ![t] = s]

Finish(t) ==
  /\ Go(t, "done")
  /\ answer' = [answer EXCEPT ![t] = Pending]
  /\ since' = [x \in Paste |-> IF x = t THEN {} ELSE since[x]]
  /\ smooth' = [x \in Paste |-> smooth[x] \/ x = t]

Ask(t, method, s) == Call(t, method) /\ Go(t, s) /\ UNCHANGED <<since, smooth>>

Begin(t) ==
  /\ stage[t] = "idle"
  /\ since' = [x \in Paste |-> IF x = t THEN {clip} ELSE since[x]]
  /\ UNCHANGED <<clip, opened, handler, got, toasts, smooth, mine, others>>

\* _handlePasteKey
PasteKey(t) ==
  /\ t \in Paste
  /\ Begin(t)
  /\ Call(t, "readClipboardImage")
  /\ Go(t, "image")
  /\ UNCHANGED chosen

\* shareFiles, shareFile
ShareFiles(t, paths) ==
  /\ t \in Share
  /\ Begin(t)
  /\ chosen' = [chosen EXCEPT ![t] = paths]
  /\ Call(t, IF Len(paths) = 1 THEN "shareFile" ELSE "shareFiles")
  /\ Go(t, "share")

\* an image is sent at once; else it goes on with files
AfterImage(t) ==
  /\ At(t, "image")
  /\ \/ /\ answer[t].kind = "image"
        /\ got' = [got EXCEPT ![t] = answer[t]]
        /\ Finish(t)
        /\ UNCHANGED calls
     \/ /\ answer[t].kind # "image"
        /\ Ask(t, "readClipboardFiles", "files")
        /\ UNCHANGED got
  /\ UNCHANGED <<clip, opened, handler, chosen, toasts, mine, others>>

Exist(names) ==
  LET upTo[k \in 0 .. Len(names)] ==
        IF k = 0 THEN <<>>
        ELSE IF names[k] \in Existing THEN Append(upTo[k - 1], names[k]) ELSE upTo[k - 1]
  IN upTo[Len(names)]

\* Files that exist are offered in a dialog (_confirmPasteFiles); else it goes on with text.
AfterFiles(t) ==
  /\ At(t, "files")
  /\ LET exist == IF answer[t].kind = "files" THEN Exist(answer[t].names) ELSE <<>>
     IN \/ /\ exist # <<>>
           /\ got' = [got EXCEPT ![t] = Files(exist)]
           /\ Finish(t)
           /\ UNCHANGED calls
        \/ /\ exist = <<>>
           /\ Ask(t, "getData", "text")
           /\ UNCHANGED got
  /\ UNCHANGED <<clip, opened, handler, chosen, toasts, mine, others>>

\* Text is inserted; where Clipboard.getData throws, nothing is.
AfterText(t) ==
  /\ At(t, "text")
  /\ got' = [got EXCEPT ![t] = IF answer[t].kind = "text" THEN answer[t] ELSE Nothing]
  /\ Finish(t)
  /\ UNCHANGED <<clip, opened, calls, handler, chosen, toasts, mine, others>>

\* the result as ShareOut tells it
ToastOf(t) == IF answer[t].kind = "clipboard" THEN "copied" ELSE "failed"

\* After that _shareSelection, which alone shares several files, says "copied" in any case.
AfterShare(t) ==
  /\ At(t, "share")
  /\ \/ toasts' = [toasts EXCEPT ![t] = <<ToastOf(t), "copied">>]
     \/ Len(chosen[t]) = 1 /\ toasts' = [toasts EXCEPT ![t] = <<ToastOf(t)>>]
  /\ Finish(t)
  /\ UNCHANGED <<clip, opened, calls, handler, got, chosen, mine, others>>

Resume(t) == AfterImage(t) \/ AfterFiles(t) \/ AfterText(t) \/ AfterShare(t)

-----------------------------------------------------------------------------
(* The handler of the channel, on the thread of the window. *)

Return(t, r) == answer' = [answer EXCEPT ![t] = r]
Idle == step' = "idle" /\ cur' = Nothing /\ result' = Nothing /\ UNCHANGED nested

Writes(method) == method \in {"shareFile", "shareFiles"}

\* IsClipboardFormatAvailable does not need the clipboard to be open
Available(method) ==
  \/ Writes(method)
  \/ method = "readClipboardImage" /\ clip.image
  \/ method = "readClipboardFiles" /\ HasFiles(clip)

\* The next call: what reads looks for its format first.
HandleCall ==
  /\ step = "idle" /\ calls # <<>>
  /\ LET c == Head(calls)
     IN /\ c.method # "getData"
        /\ \/ /\ Available(c.method)
              /\ step' = "open" /\ cur' = c
              /\ UNCHANGED <<result, nested, answer>>
           \/ /\ ~Available(c.method)
              /\ Return(c.task, Nothing)
              /\ UNCHANGED handler
  /\ calls' = Tail(calls)
  /\ UNCHANGED <<held, opened, tasks, smooth, mine, others>>

\* Clipboard.getData of the engine, on the same thread
GetData ==
  /\ step = "idle" /\ calls # <<>>
  /\ LET t == Head(calls).task
     IN /\ Head(calls).method = "getData"
        /\ \/ /\ opened = "nobody"
              /\ Return(t, IF clip.text THEN Text(clip) ELSE Nothing)
              /\ UNCHANGED smooth
           \/ /\ opened # "nobody"
              /\ Return(t, Failed)
              /\ Rough(t)
  /\ calls' = Tail(calls)
  /\ UNCHANGED <<held, opened, handler, tasks, mine, others>>

\* OpenClipboard fails if anybody has it open: the call fails, it is not tried again
OpenClipboard ==
  /\ step = "open"
  /\ \/ /\ opened = "nobody"
        /\ opened' = "app"
        /\ step' = "use"
        /\ UNCHANGED <<cur, result, nested, answer, smooth>>
     \/ /\ opened # "nobody"
        /\ Return(cur.task, IF Writes(cur.method) THEN Failed ELSE Nothing)
        /\ Rough(cur.task)
        /\ Idle
        /\ UNCHANGED opened
  /\ UNCHANGED <<held, calls, tasks, mine, others>>

Then(s, r) == step' = s /\ result' = r /\ UNCHANGED cur

\* Mutant: leaves without CloseClipboard
LeaveOpen == step' = "idle" /\ result' = Nothing /\ cur' = Nothing

\* Mutant: the handle is not checked
NoCheck == Then("close", Image(clip))

\* no data, or a handle that cannot be locked
NoData == Then("close", Nothing)

\* ClipboardImageToFile until the bitmap is there: the format can be gone, or something fails
ReadImage ==
  /\ step = "use" /\ cur.method = "readClipboardImage"
  /\ \/ /\ clip.image
        /\ Then("encode", Image(clip)) /\ nested' = nested + 1
        /\ UNCHANGED smooth
     \/ ~clip.image /\ NoData /\ UNCHANGED <<nested, smooth>>
     \/ NoData /\ Rough(cur.task) /\ UNCHANGED nested
  /\ UNCHANGED <<held, opened, calls, tasks, answer, mine, others>>

\* CoUninitialize in SaveHbitmapToPng
EndNested == nested' = nested - 1

\* SaveHbitmapToPng, or a BMP file in its place, or neither of them
SaveImage ==
  /\ step = "encode"
  /\ \/ Then("close", result) /\ UNCHANGED smooth
     \/ Then("close", Nothing) /\ Rough(cur.task)
  /\ EndNested
  /\ UNCHANGED <<held, opened, calls, tasks, answer, mine, others>>

\* ClipboardFiles
ReadFiles ==
  /\ step = "use" /\ cur.method = "readClipboardFiles"
  /\ \/ Then("close", Files(ListOf(clip))) /\ UNCHANGED smooth
     \/ NoData /\ Rough(cur.task)
  /\ UNCHANGED <<held, opened, calls, tasks, nested, answer, mine, others>>

\* Mutant: what was there stays beside the list
DropBeside(c, block, list) == WithFiles([c EXCEPT !.copy = @ + 1], TRUE, block, list)

\* the content after EmptyClipboard and SetClipboardData
Drop(c, block, list) == WithFiles(Emptied(c.copy + 1), TRUE, block, list)

BlockOf(paths) ==
  IF cur.method = "shareFile" THEN OneFile(FromUtf8(paths[1]))
  ELSE ManyFiles([i \in DOMAIN paths |-> FromUtf8(paths[i])])

\* CopyFileToClipboard, CopyFilesToClipboard: what was there is lost, also if GlobalAlloc or
\* SetClipboardData fails then
WriteFiles ==
  /\ step = "use" /\ Writes(cur.method)
  /\ LET t == cur.task
     IN \/ /\ Hold(Drop(clip, BlockOf(chosen[t]), chosen[t]))
           /\ Then("close", Done)
           /\ mine' = [mine EXCEPT ![t] = clip.copy + 1]
           /\ UNCHANGED smooth
        \/ /\ Hold(Emptied(clip.copy + 1))
           /\ Then("close", Failed)
           /\ Rough(t)
           /\ UNCHANGED mine
  /\ UNCHANGED <<opened, calls, tasks, nested, answer, others>>

\* CloseClipboard, and the answer
CloseClipboard ==
  /\ step = "close"
  /\ opened' = "nobody"
  /\ Return(cur.task, result)
  /\ Idle
  /\ UNCHANGED <<held, calls, tasks, smooth, mine, others>>

-----------------------------------------------------------------------------
(* Other processes. *)

OtherOpens ==
  /\ opened = "nobody" /\ others < MaxOthers
  /\ others' = others + 1
  /\ \/ opened' = "viewer" /\ UNCHANGED held
     \/ opened' = "writer" /\ Hold(Emptied(clip.copy + 1))
  /\ UNCHANGED <<calls, handler, tasks, answer, smooth, mine>>

OtherPuts ==
  /\ opened = "writer"
  /\ \/ ~clip.image /\ Hold([clip EXCEPT !.image = TRUE])
     \/ ~clip.text /\ Hold([clip EXCEPT !.text = TRUE])
     \/ /\ ~HasFiles(clip)
        /\ \E paths \in OtherLists, wide \in BOOLEAN :
             Hold(WithFiles(clip, wide, ManyFiles(paths), paths))
  /\ UNCHANGED <<opened, calls, handler, tasks, answer, smooth, mine, others>>

OtherCloses ==
  /\ opened \in {"viewer", "writer"}
  /\ opened' = "nobody"
  /\ UNCHANGED <<held, calls, handler, tasks, answer, smooth, mine, others>>

-----------------------------------------------------------------------------
\* At first somebody has copied an image, that has a text beside it.
ClipboardInit ==
  /\ clip = [Emptied(0) EXCEPT !.image = TRUE, !.text = TRUE]
  /\ opened = "nobody" /\ others = 0
  /\ calls = <<>> /\ step = "idle" /\ cur = Nothing /\ result = Nothing /\ nested = 0
  /\ stage = [t \in Task |-> "idle"] /\ answer = [t \in Task |-> Pending]
  /\ got = [t \in Task |-> Nothing] /\ toasts = [t \in Task |-> <<>>]
  /\ chosen = [t \in Task |-> <<>>]
  /\ since = [t \in Paste |-> {}] /\ smooth = [t \in Paste |-> TRUE]
  /\ mine = [t \in Task |-> 0]

\* a call that is handled, which is where the thread is; and what else happens
Inside == OpenClipboard \/ ReadImage \/ SaveImage \/ ReadFiles \/ WriteFiles \/ CloseClipboard
Others == OtherOpens \/ OtherPuts \/ OtherCloses
Start(t) == PasteKey(t) \/ \E paths \in Lists : ShareFiles(t, paths)

ClipboardNext ==
  \/ HandleCall \/ GetData \/ Inside \/ Others
  \/ \E t \in Task : Start(t) \/ Resume(t)

ClipboardSpec == ClipboardInit /\ [][ClipboardNext]_clipboardVars

-----------------------------------------------------------------------------
(* Properties. *)

ClipboardTypeOK ==
  /\ opened \in {"nobody", "app", "viewer", "writer"} /\ others \in 0 .. MaxOthers
  /\ step \in {"idle", "open", "use", "encode", "close"} /\ nested \in Nat
  /\ stage \in [Task -> {"idle", "image", "files", "text", "share", "done"}]
  /\ smooth \in [Paste -> BOOLEAN]
  /\ DOMAIN answer = Task /\ DOMAIN got = Task /\ DOMAIN toasts = Task /\ DOMAIN chosen = Task
  /\ DOMAIN since = Paste /\ DOMAIN mine = Task

\* the step in which paste t ends
Ends(t) == stage[t] # "done" /\ stage'[t] = "done"

\* What a paste sends, offers or inserts was on the clipboard after the key was pressed, with
\* the very names that somebody copied, whatever other processes and shares do between the
\* three calls.
PasteFaithful ==
  [][\A t \in Paste : Ends(t) /\ got'[t] # Nothing =>
       \E c \in since[t] :
         \/ c.image /\ got'[t] = Image(c)
         \/ got'[t] = Files(Exist(c.list))
         \/ c.text /\ got'[t] = Text(c)]_clipboardVars

\* the first of the three forms in the order of _handlePasteKey
Best(c) ==
  IF c.image THEN Image(c)
  ELSE IF c.fWide /\ Exist(c.list) # <<>> THEN Files(Exist(c.list))
  ELSE IF c.text THEN Text(c) ELSE Nothing

\* If the clipboard kept its content and was open for every call, the paste is of the form
\* that comes first: an image before its text, as the comment in _handlePasteKey wants.
PasteFirst ==
  [][\A t \in Paste : \A c \in since[t] :
       Ends(t) /\ smooth[t] /\ since[t] = {c} => got'[t] = Best(c)]_clipboardVars

SaysFailed(t) == \E i \in DOMAIN toasts[t] : toasts[t][i] = "failed"

\* A share that failed is always told as failed, and one that has put its list never is.  That
\* is all a user can go by: of what failed _shareSelection says "copied" after that all the same.
FailureTold == \A t \in Share : toasts[t] # <<>> => (SaysFailed(t) <=> mine[t] = 0)

\* No share fails silently; and until the clipboard is emptied again it holds the list of the
\* share that has put it there, all of it, and nothing else.
ShareTold ==
  /\ FailureTold
  /\ \A t \in Share : mine[t] # 0 /\ mine[t] = clip.copy =>
       ListOf(clip) = chosen[t] /\ ~clip.image /\ ~clip.text
=============================================================================
