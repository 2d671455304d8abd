---------------------------- MODULE EditSession ----------------------------
(***************************************************************************)
(* Editing a file in the browser.  The page (scripts/load-editor.js) loads *)
(* the file, hands its text to the editor in an iframe                     *)
(* (scripts/text-editor.js or scripts/document-editor.js) and saves what   *)
(* the editor gives it; page and editor talk by messages only, which       *)
(* arrive in order.  scripts/etag.js keeps the version the page has of the *)
(* file, server/chain/UnmodifiedSinceHandler.java compares it when a save  *)
(* arrives.  Others change the file meanwhile.                             *)
(*                                                                         *)
(* A text is a number, 0 the empty one; a version of the file is a number, *)
(* the one that tag knows is 0 when it knows none.                         *)
(***************************************************************************)
EXTENDS Integers, Sequences

CONSTANTS Texts,        \* the texts there can be, 0 among them
          Others,       \* those the file has at first, or others give it
          Editors,      \* "text", "document": the editors to look at
          TypesEarly,   \* whether a user types before the text has settled
          MaxVersions, MaxTyped, MaxSaves   \* bounds

ASSUME SessionAssumption ==
  /\ Texts \subseteq Nat /\ 0 \in Texts /\ Others \subseteq Texts
  /\ Editors \subseteq {"text", "document"} /\ TypesEarly \in BOOLEAN
  /\ MaxVersions \in Nat \ {0} /\ MaxTyped \in Nat /\ MaxSaves \in Nat

VARIABLES
  \* the server: the file's version and text, and what this page wrote of it
  version, stored,
  mine,          \* the versions that are this page's
  \* the page
  page,          \* "open", "warned": a dialog asks the user, or "left"
  tag,           \* the ETag in the sessionStorage
  load,          \* the GET of loadText
  saving, sourceCallbacks,
  puts,          \* the requests of saveFile, in the order they were sent
  \* the editor
  editor, value, saved,
  settling,      \* the timer of setXhtml: its text and its loops
  \* the messages under way
  toEditor, toPage,
  \* what has happened
  base,          \* the version whose text the editor was given last
  typed,         \* how often the user has typed
  saves,         \* how often the user has saved
  dropped,       \* a save was: it found another one, or the page was gone
  quiet          \* the page was left without a warning

file == <<version, stored, mine>>
saver == <<tag, saving, puts, dropped>>
pane == <<editor, value, saved, base>>
editing == <<pane, settling>>
user == <<typed, saves>>
vars == <<file, page, saver, load, sourceCallbacks, editing, toEditor,
          toPage, user, quiet>>

null == -1
NoTimer == [text |-> null, loops |-> 0]
Sends == 1..Len(puts)

Init ==
  /\ version = 1 /\ stored \in Others /\ mine = {}
  /\ page = "open"
  /\ tag \in {0, 1}        \* the tab may have shown the file before
  /\ load = [at |-> "server", version |-> 0, text |-> 0]
  /\ saving = "none" /\ sourceCallbacks = <<>>
  /\ puts = <<>> /\ dropped = FALSE
  /\ editor \in Editors /\ value = 0 /\ saved = null
  /\ settling = NoTimer /\ base = 0
  /\ toEditor = <<>> /\ toPage = <<>>
  /\ typed = 0 /\ saves = 0 /\ quiet = FALSE

-----------------------------------------------------------------------------
(* The server.                                                             *)

\* seeded fault: any version the file has had will do
unmodifiedSinceEver(put) == put.match \in 0..version

\* unmodifiedSince: the save names no version, or the file's
unmodifiedSince(put) == put.match \in {0, version}

\* the GET of loadText is answered with the file and its ETag, or it fails
serveLoad ==
  /\ load.at = "server" /\ page # "left"
  /\ \/ load' = [at |-> "ok", version |-> version, text |-> stored]
     \/ load' = [load EXCEPT !.at = "failed"]
  /\ UNCHANGED <<file, page, saver, sourceCallbacks, editing,
                 toEditor, toPage, user, quiet>>

\* a save is compared with the file, at the start of its transaction ...
execute(n) ==
  /\ puts[n].at = "server"
  /\ puts' = [puts EXCEPT ![n].at =
                IF unmodifiedSince(puts[n]) THEN "accepted" ELSE "refused"]
  /\ UNCHANGED <<file, page, tag, saving, dropped, load, sourceCallbacks,
                 editing, toEditor, toPage, user, quiet>>

\* ... and is written at its end, unless that fails.  Two that were compared
\* with the same version may both be written: what prevents it is in the
\* store.  The answer is 204; its ETag is the version the save has made, or
\* still the one it has replaced: the properties of the resource have both
\* until the transaction is committed.
write(n) ==
  /\ puts[n].at = "accepted"
  /\ \/ /\ version < MaxVersions /\ version' = version + 1
        /\ stored' = puts[n].text /\ mine' = mine \cup {version + 1}
        /\ \E t \in {version, version + 1} :
             puts' = [puts EXCEPT ![n] = [@ EXCEPT !.at = "204", !.etag = t,
                                                   !.made = version + 1]]
     \/ puts' = [puts EXCEPT ![n].at = "refused"] /\ UNCHANGED file
  /\ UNCHANGED <<page, tag, saving, dropped, load, sourceCallbacks,
                 editing, toEditor, toPage, user, quiet>>

\* somebody else changes the file
otherWrites ==
  /\ version < MaxVersions /\ version' = version + 1
  /\ stored' \in Others /\ UNCHANGED mine
  /\ UNCHANGED <<page, saver, load, sourceCallbacks, editing, toEditor,
                 toPage, user, quiet>>

-----------------------------------------------------------------------------
(* The page.                                                               *)

\* The page, and the editor in it, are left: the editor's onbeforeunload asks
\* the user when it finds a change.  The document editor looks for one only
\* when CKEditor, which compares with the empty document it began with, has
\* one, and fails before it could ask when it has recorded no text yet.
Warns == IF editor = "text" THEN value # saved
         ELSE value # 0 /\ saved # null /\ value # saved

unload == /\ page' = "left" /\ settling' = NoTimer
          /\ toEditor' = <<>> /\ toPage' = <<>>
          /\ dropped' = (dropped \/ toPage # <<>>)

stay == UNCHANGED <<settling, toEditor, toPage, dropped>>

beforeunload ==
  /\ quiet' = ~Warns
  /\ IF Warns THEN page' = "warned" /\ stay ELSE unload

\* the complete of loadText
loaded ==
  /\ page = "open" /\ load.at \in {"ok", "failed"}
  /\ load' = [load EXCEPT !.at = "over"]
  /\ IF load.at = "ok"
       THEN /\ tag' = load.version
            /\ toEditor' = Append(toEditor, [type |-> "PUT", text |-> load.text,
                                             of |-> load.version])
       ELSE UNCHANGED <<tag, toEditor>>
  /\ UNCHANGED <<file, page, saving, puts, dropped, sourceCallbacks,
                 editing, toPage, user, quiet>>

\* seeded fault: the place of a callback that has been called is used again
submitReuse ==
  /\ page = "open" /\ saves < MaxSaves /\ saves' = saves + 1
  /\ sourceCallbacks' = Append(sourceCallbacks, "waits")
  /\ toEditor' =
       Append(toEditor, [type |-> "GET",
                         id |-> Len(SelectSeq(sourceCallbacks,
                                              LAMBDA c : c = "waits")) + 1])
  /\ UNCHANGED <<file, page, saver, load, editing, toPage, typed, quiet>>

\* the submit of the form asks the editor for its text (readEditorText)
submit ==
  /\ page = "open" /\ saves < MaxSaves /\ saves' = saves + 1
  /\ sourceCallbacks' = Append(sourceCallbacks, "waits")
  /\ toEditor' = Append(toEditor, [type |-> "GET",
                                   id |-> Len(sourceCallbacks) + 1])
  /\ UNCHANGED <<file, page, saver, load, editing, toPage, typed, quiet>>

\* One save at a time, as long as saving is the object it is at first:
\* complete makes it false, and an entry of false is never there.
saveFile(text, from, callback) ==
  IF saving = "busy"
  THEN dropped' = TRUE /\ UNCHANGED <<tag, saving, puts>>
  ELSE /\ saving' = IF saving = "none" THEN "busy" ELSE saving
       /\ puts' = Append(puts, [at |-> "server", text |-> text, match |-> tag,
                                base |-> from, callback |-> callback,
                                etag |-> 0, made |-> 0])
       /\ UNCHANGED <<tag, dropped>>

\* a message of the editor: a save it asks for, or the text it was asked for
receive ==
  /\ page = "open" /\ toPage # <<>> /\ toPage' = Tail(toPage)
  /\ LET msg == Head(toPage) IN
     \/ /\ msg.type = "PUT" /\ saveFile(msg.text, msg.base, FALSE)
        /\ UNCHANGED sourceCallbacks
     \/ /\ msg.type = "GET" /\ sourceCallbacks[msg.id] = "waits"
        /\ sourceCallbacks' = [sourceCallbacks EXCEPT ![msg.id] = "deleted"]
        /\ saveFile(msg.text, msg.base, TRUE)
  /\ UNCHANGED <<file, page, load, editing, toEditor, user, quiet>>

\* seeded fault: saving ends only with a save that is accepted
completeSuccess(n) ==
  /\ page = "open" /\ puts[n].at \in {"204", "refused"}
  /\ saving' = IF puts[n].at = "204" THEN "false" ELSE saving
  /\ puts' = [puts EXCEPT ![n].at = "over"]
  /\ tag' = IF puts[n].at = "204" THEN puts[n].etag ELSE tag
  /\ IF puts[n].at = "204" /\ puts[n].callback
       THEN beforeunload ELSE stay /\ UNCHANGED <<page, quiet>>
  /\ UNCHANGED <<file, load, sourceCallbacks, pane, user>>

\* seeded fault: the tag of the file is taken from a refusal, too
completeAny(n) ==
  /\ page = "open" /\ puts[n].at \in {"204", "refused"}
  /\ saving' = "false" /\ puts' = [puts EXCEPT ![n].at = "over"]
  /\ tag' = IF puts[n].at = "204" THEN puts[n].etag ELSE version
  /\ IF puts[n].at = "204" /\ puts[n].callback
       THEN beforeunload ELSE stay /\ UNCHANGED <<page, quiet>>
  /\ UNCHANGED <<file, load, sourceCallbacks, pane, user>>

\* the complete of saveFile: a save the form has asked for ends with a
\* redirect, which leaves the page
complete(n) ==
  /\ page = "open" /\ puts[n].at \in {"204", "refused"}
  /\ saving' = "false" /\ puts' = [puts EXCEPT ![n].at = "over"]
  /\ tag' = IF puts[n].at = "204" THEN puts[n].etag ELSE tag
  /\ IF puts[n].at = "204" /\ puts[n].callback
       THEN beforeunload ELSE stay /\ UNCHANGED <<page, quiet>>
  /\ UNCHANGED <<file, load, sourceCallbacks, pane, user>>

\* the user goes elsewhere, or answers the warning
leave ==
  /\ \/ page = "open" /\ beforeunload
     \/ page = "warned" /\ page' = "open" /\ stay /\ UNCHANGED quiet
     \/ page = "warned" /\ unload /\ UNCHANGED quiet
  /\ UNCHANGED <<file, tag, saving, puts, load, sourceCallbacks, pane, user>>

-----------------------------------------------------------------------------
(* The editor.                                                             *)

type ==
  /\ page = "open" /\ typed < MaxTyped /\ typed' = typed + 1
  /\ TypesEarly \/ (saved # null /\ settling = NoTimer)
  /\ value' \in Texts \ {value}
  /\ UNCHANGED <<file, page, saver, load, sourceCallbacks, editor, saved,
                 settling, base, toEditor, toPage, saves, quiet>>

\* the save command of the text editor, the form of the document editor
save ==
  /\ page = "open" /\ saves < MaxSaves /\ saves' = saves + 1
  /\ saved' = IF editor = "text" THEN value ELSE saved
  /\ toPage' = Append(toPage, [type |-> "PUT", text |-> value, base |-> base])
  /\ UNCHANGED <<file, page, saver, load, sourceCallbacks, editor, value,
                 settling, base, toEditor, typed, quiet>>

\* PUT text: the text editor takes a text that is another; the document
\* editor takes it, unless it is empty and there is one, and records it as
\* saved 100 ms later (setXhtml)
putText(msg) ==
  /\ base' = msg.of /\ UNCHANGED toPage
  /\ IF editor = "text" \/ (msg.text = 0 /\ value # 0)
     THEN /\ UNCHANGED settling
          /\ IF editor = "text" /\ msg.text # value
               THEN value' = msg.text /\ saved' = msg.text
               ELSE UNCHANGED <<value, saved>>
     ELSE /\ value' = msg.text /\ UNCHANGED saved
          /\ settling' = [text |-> msg.text, loops |-> 0]

\* seeded fault: the text recorded before is given, not the one that is there
getTextRecorded(msg) ==
  /\ saved' = value /\ UNCHANGED <<value, settling, base>>
  /\ toPage' = Append(toPage, [type |-> "GET", id |-> msg.id, base |-> base,
                               text |-> IF saved = null THEN 0 ELSE saved])

\* GET text: the text counts as saved from now on
getText(msg) ==
  /\ saved' = value /\ UNCHANGED <<value, settling, base>>
  /\ toPage' = Append(toPage, [type |-> "GET", id |-> msg.id, text |-> value,
                               base |-> base])

handleMessage ==
  /\ page = "open" /\ toEditor # <<>> /\ toEditor' = Tail(toEditor)
  /\ LET msg == Head(toEditor) IN
     \/ msg.type = "PUT" /\ putText(msg)
     \/ msg.type = "GET" /\ getText(msg)
  /\ UNCHANGED <<file, page, saver, load, sourceCallbacks, editor, user,
                 quiet>>

\* the timer of setXhtml: the text is there, or it is set again
settle ==
  /\ page = "open" /\ settling # NoTimer
  /\ IF settling.text # 0 /\ value = 0 /\ settling.loops < 3
       THEN /\ value' = settling.text /\ UNCHANGED saved
            /\ settling' = [settling EXCEPT !.loops = @ + 1]
       ELSE /\ saved' = value /\ settling' = NoTimer /\ UNCHANGED value
  /\ UNCHANGED <<file, page, saver, load, sourceCallbacks, editor, base,
                 toEditor, toPage, user, quiet>>

-----------------------------------------------------------------------------
Next ==
  \/ serveLoad \/ otherWrites
  \/ \E n \in Sends : execute(n) \/ write(n) \/ complete(n)
  \/ loaded \/ submit \/ receive \/ leave
  \/ type \/ save \/ handleMessage \/ settle

Spec == Init /\ [][Next]_vars

-----------------------------------------------------------------------------
(* Properties.                                                             *)

Versions == 0..MaxVersions

Puts == [at : {"server", "accepted", "refused", "204", "over"},
         text : Texts, match : Versions, base : Versions,
         callback : BOOLEAN, etag : Versions, made : Versions]

Callbacks == {"waits", "deleted"}

\* what the page tells the editor, what the editor tells the page
ToEditor == [type : {"PUT"}, text : Texts, of : Versions]
              \cup [type : {"GET"}, id : Nat]
ToPage   == [type : {"PUT"}, text : Texts, base : Versions]
              \cup [type : {"GET"}, id : Nat, text : Texts, base : Versions]

Flags == dropped \in BOOLEAN /\ quiet \in BOOLEAN

Sorts ==
  /\ version \in 1..MaxVersions /\ stored \in Texts
  /\ mine \subseteq 2..MaxVersions
  /\ page \in {"open", "warned", "left"} /\ tag \in Versions
  /\ load \in [at : {"server", "ok", "failed", "over"}, version : Versions,
               text : Texts]
  /\ saving \in {"none", "busy", "false"}
  /\ sourceCallbacks \in Seq(Callbacks) /\ puts \in Seq(Puts)
  /\ editor \in {"text", "document"} /\ value \in Texts
  /\ saved \in Texts \cup {null} /\ base \in Versions
  /\ settling \in [text : Texts, loops : 0..3] \cup {NoTimer}
  /\ toEditor \in Seq(ToEditor) /\ toPage \in Seq(ToPage)
  /\ typed \in Nat /\ saves \in Nat

TypeOK == Sorts /\ Flags

\* A reply of the editor finds the callback that waits for it: the places of
\* sourceCallbacks are not used again, although their entries are deleted.
RepliesAwaited ==
  \A i \in DOMAIN toPage :
    toPage[i].type = "GET" =>
      /\ sourceCallbacks[toPage[i].id] = "waits"
      /\ \A j \in DOMAIN toPage \ {i} :
           toPage[j].type = "GET" => toPage[j].id # toPage[i].id

\* A save of a text that the user made from a version of the file is accepted
\* only while the file is that version or one that the page has written itself,
\* whatever else the tab has seen of the file. It is about acceptance, the
\* comparison of UnmodifiedSinceHandler: between it and the write somebody else
\* may write, and that is overwritten unseen.
AcceptedWhenCurrent ==
  [][\A n \in Sends :
       (puts[n].at = "server" /\ puts'[n].at = "accepted" /\ puts[n].base # 0)
         => version \in mine \cup {puts[n].base}]_vars

\* Several saves of a page may be under way, since saving is of use for the
\* first one only, and arrive in any order: one that names a version is not
\* accepted after a later one has been written.
OrderOfSaves ==
  [][\A n \in Sends :
       (puts[n].at = "server" /\ puts'[n].at = "accepted" /\ puts[n].match # 0)
         => \A m \in Sends : m > n => puts[m].made = 0]_vars

\* The text editor counts a text as saved as soon as it is handed over.  That
\* is right as long as the page gets every such text to the server: then a
\* page that was left without a warning leaves nothing that was not saved.
HandedOver ==
  /\ toPage = <<>> /\ ~dropped /\ \A n \in Sends : puts[n].made # 0

IsSaved == value = load.text \/ \E n \in Sends : /\ puts[n].made # 0
                                               /\ puts[n].text = value

NothingLost ==
  (page = "left" /\ quiet /\ editor = "text" /\ HandedOver) => IsSaved

\* The page refuses to save only while a save is under way: no answer, be it
\* a refusal, leaves saving as if one still were.
BusyOnlyWhileSaving ==
  saving = "busy" => \E n \in Sends : puts[n].at # "over"

\* What the comment of document-editor.js promises ("warn the user before
\* leaving a changed but unsaved article"), for an article that is there.
\* It does not hold: a text counts as saved when it is asked for, before the
\* server has taken it.
WarnsOfUnsaved ==
  (page = "left" /\ quiet /\ base # 0 /\ value # 0) => IsSaved
=============================================================================
