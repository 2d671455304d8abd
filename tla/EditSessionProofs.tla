------------------------- MODULE EditSessionProofs -------------------------
(***************************************************************************)
(* The page that edits a file loses no update of it, saves in order, finds  *)
(* the callback of every reply and leaves nothing unsaved behind, for any   *)
(* number of saves, of versions and of texts.                               *)
(***************************************************************************)
EXTENDS EditSession, SequenceTheorems, TLAPS

-----------------------------------------------------------------------------
(* Sequences: an element that is appended, a head that is taken.           *)

LEMMA Appended ==
  ASSUME NEW S, NEW s \in Seq(S), NEW e \in S
  PROVE  /\ Append(s, e) \in Seq(S) /\ Len(Append(s, e)) = Len(s) + 1
         /\ \A i \in 1..Len(s) : Append(s, e)[i] = s[i]
         /\ Append(s, e)[Len(s) + 1] = e
  BY AppendProperties

LEMMA Taken ==
  ASSUME NEW S, NEW s \in Seq(S), s # <<>>
  PROVE  /\ Head(s) \in S /\ Head(s) = s[1] /\ 1 \in 1..Len(s)
         /\ Tail(s) \in Seq(S) /\ Len(Tail(s)) = Len(s) - 1
         /\ \A i \in 1..Len(Tail(s)) : Tail(s)[i] = s[i + 1]
  BY HeadTailProperties, EmptySeq

LEMMA Empty ==
  ASSUME NEW S
  PROVE  <<>> \in Seq(S) /\ Len(<<>>) = 0
  BY EmptySeq

LEMMA ReplaceInSeq ==
  ASSUME NEW S, NEW s \in Seq(S), NEW i \in 1..Len(s), NEW e \in S
  PROVE  [s EXCEPT ![i] = e] \in Seq(S)
  OBVIOUS

LEMMA ExceptAnySeq ==
  ASSUME NEW S, NEW s \in Seq(S), NEW i, NEW e \in S,
         NEW t, t = [s EXCEPT ![i] = e]
  PROVE  t \in Seq(S)
  <1>1. s \in [1..Len(s) -> S] /\ Len(s) \in Nat
    OBVIOUS
  <1>2. t \in [1..Len(s) -> S]
    BY <1>1, Zenon
  <1>3. QED
    BY <1>1, <1>2

-----------------------------------------------------------------------------
(* Every variable keeps its type.                                          *)


LEMMA InitSorts == Init => Sorts
  <1> SUFFICES ASSUME Init PROVE Sorts
    OBVIOUS
  <1>1. /\ version \in 1..MaxVersions /\ tag \in Versions /\ stored \in Texts
        /\ 0 \in Versions /\ 0 \in Texts /\ mine \subseteq 2..MaxVersions
    BY SessionAssumption DEF SessionAssumption, Init, Versions
  <1>2. sourceCallbacks \in Seq(Callbacks) /\ puts \in Seq(Puts)
        /\ toEditor \in Seq(ToEditor) /\ toPage \in Seq(ToPage)
    BY Empty DEF Init
  <1>3. load \in [at : {"server", "ok", "failed", "over"},
                  version : Versions, text : Texts]
    BY <1>1 DEF Init
  <1>4. settling \in [text : Texts, loops : 0..3] \cup {NoTimer}
    BY DEF Init, NoTimer
  <1>5. editor \in {"text", "document"}
    BY SessionAssumption DEF SessionAssumption, Init
  <1>6. QED
    BY <1>1, <1>2, <1>3, <1>4, <1>5 DEF Init, Sorts

LEMMA ServerSorts ==
  ASSUME Sorts,
         serveLoad \/ otherWrites \/ \E n \in Sends : execute(n) \/ write(n)
  PROVE  Sorts'
  <1>1. CASE serveLoad
    <2>1. load' \in [at : {"server", "ok", "failed", "over"},
                     version : Versions, text : Texts]
      <3>1. version \in Versions
        BY SessionAssumption DEF Sorts, Versions, SessionAssumption
      <3>2. CASE load' = [at |-> "ok", version |-> version, text |-> stored]
        BY <3>1, <3>2 DEF Sorts
      <3>3. CASE load' = [load EXCEPT !.at = "failed"]
        BY <3>3 DEF Sorts
      <3>4. QED
        BY <1>1, <3>2, <3>3 DEF serveLoad
    <2>2. QED
      BY <2>1, <1>1 DEF serveLoad, Sorts, file, saver, editing, pane, user
  <1>2. CASE otherWrites
    BY <1>2, SessionAssumption DEF otherWrites, Sorts, saver, editing,
       pane, user, SessionAssumption
  <1>3. ASSUME NEW n \in Sends, execute(n) PROVE Sorts'
    <2>1. puts[n] \in Puts
      BY DEF Sorts, Sends
    <2>2. puts' \in Seq(Puts)
      <3>1. PICK s \in {"accepted", "refused"} :
              puts' = [puts EXCEPT ![n].at = s]
        BY <1>3 DEF execute
      <3>2. [puts[n] EXCEPT !.at = s] \in Puts
        BY <2>1 DEF Puts
      <3>3. QED
        BY <3>1, <3>2, ReplaceInSeq DEF Sorts, Sends
    <2>3. QED
      BY <2>2, <1>3 DEF execute, Sorts, file, editing, pane, user
  <1>4. ASSUME NEW n \in Sends, write(n) PROVE Sorts'
    <2>1. puts[n] \in Puts
      BY DEF Sorts, Sends
    <2>2. version' \in 1..MaxVersions /\ stored' \in Texts
          /\ mine' \subseteq 2..MaxVersions
      <3>1. CASE UNCHANGED file
        BY <3>1 DEF Sorts, file
      <3>2. CASE /\ version < MaxVersions /\ version' = version + 1
                 /\ stored' = puts[n].text
                 /\ mine' = mine \cup {version + 1}
        <4>1. version + 1 \in 2..MaxVersions
          BY <3>2, SessionAssumption DEF Sorts, SessionAssumption
        <4>2. stored' \in Texts
          BY <2>1, <3>2 DEF Puts
        <4>3. QED
          BY <3>2, <4>1, <4>2, SessionAssumption
          DEF Sorts, SessionAssumption
      <3>3. QED
        BY <1>4, <3>1, <3>2 DEF write
    <2>3. puts' \in Seq(Puts)
      <3>1. CASE puts' = [puts EXCEPT ![n].at = "refused"]
        <4>1. [puts[n] EXCEPT !.at = "refused"] \in Puts
          BY <2>1 DEF Puts
        <4>2. QED
          BY <3>1, <4>1, ReplaceInSeq DEF Sorts, Sends
      <3>2. ASSUME version < MaxVersions, NEW t \in {version, version + 1},
                   puts' = [puts EXCEPT ![n] = [@ EXCEPT !.at = "204", !.etag = t,
                                                     !.made = version + 1]]
            PROVE  puts' \in Seq(Puts)
        <4>1. t \in Versions /\ version + 1 \in Versions
          <5>1. version \in 1..MaxVersions /\ version < MaxVersions
                /\ t \in {version, version + 1}
            BY <3>2 DEF Sorts
          <5>2. QED
            BY <5>1, SessionAssumption DEF Versions, SessionAssumption
        <4> DEFINE put == [puts[n] EXCEPT !.at = "204", !.etag = t,
                                          !.made = version + 1]
        <4>2. put \in Puts
          BY <2>1, <4>1 DEF Puts
        <4>3. puts' = [puts EXCEPT ![n] = put]
          BY <2>1, <3>2 DEF Sorts, Sends, Puts
        <4>4. QED
          BY <4>2, <4>3, ReplaceInSeq DEF Sorts, Sends
      <3>3. QED
        BY <1>4, <3>1, <3>2 DEF write
    <2>4. QED
      BY <2>2, <2>3, <1>4 DEF write, Sorts, editing, pane, user
  <1> QED
    BY <1>1, <1>2, <1>3, <1>4

LEMMA PageSorts ==
  ASSUME Sorts, loaded \/ submit \/ receive
  PROVE  Sorts'
  <1>1. CASE loaded
    <2>1. load' \in [at : {"server", "ok", "failed", "over"},
                     version : Versions, text : Texts]
      BY <1>1 DEF loaded, Sorts
    <2>2. tag' \in Versions /\ toEditor' \in Seq(ToEditor)
      <3>1. load.version \in Versions /\ load.text \in Texts
        BY DEF Sorts
      <3>2. [type |-> "PUT", text |-> load.text, of |-> load.version]
              \in ToEditor
        BY <3>1 DEF ToEditor
      <3>3. CASE load.at = "ok"
        <4>1. tag' = load.version
              /\ toEditor' = Append(toEditor, [type |-> "PUT",
                                               text |-> load.text,
                                               of |-> load.version])
          BY <1>1, <3>3 DEF loaded
        <4>2. QED
          BY <3>1, <3>2, <4>1, Appended DEF Sorts
      <3>4. CASE load.at # "ok"
        BY <1>1, <3>4 DEF loaded, Sorts
      <3>5. QED
        BY <3>3, <3>4
    <2>3. QED
      BY <1>1, <2>1, <2>2 DEF loaded, Sorts, file, editing, pane, user
  <1>2. CASE submit
    <2>1. [type |-> "GET", id |-> Len(sourceCallbacks) + 1] \in ToEditor
      BY LenProperties DEF Sorts, ToEditor
    <2>2. toEditor' \in Seq(ToEditor) /\ sourceCallbacks' \in Seq(Callbacks)
      <3>1. "waits" \in Callbacks
        BY DEF Callbacks
      <3>2. QED
        BY <1>2, <2>1, <3>1, Appended DEF submit, Sorts
    <2>3. QED
      BY <1>2, <2>2 DEF submit, Sorts, file, saver, editing, pane
  <1>3. CASE receive
    <2> DEFINE msg == Head(toPage)
    <2>1. msg \in ToPage /\ toPage' \in Seq(ToPage)
      BY <1>3, Taken DEF receive, Sorts
    <2>2. msg.text \in Texts /\ msg.base \in Versions
      BY <2>1 DEF ToPage
    <2>3. ASSUME NEW c \in BOOLEAN, saveFile(msg.text, msg.base, c)
          PROVE  /\ saving' \in {"none", "busy", "false"} /\ tag' = tag
                 /\ puts' \in Seq(Puts)
      <3> DEFINE put == [at |-> "server", text |-> msg.text, match |-> tag,
                         base |-> msg.base, callback |-> c,
                         etag |-> 0, made |-> 0]
      <3>1. 0 \in Versions
        BY SessionAssumption DEF Versions, SessionAssumption
      <3>2. put \in Puts
        BY <2>2, <3>1 DEF Sorts, Puts
      <3>3. Append(puts, put) \in Seq(Puts)
        BY <3>2, Appended DEF Sorts
      <3>4. QED
        BY <2>3, <3>3 DEF saveFile, Sorts
    <2>4. sourceCallbacks' \in Seq(Callbacks)
      <3>1. "deleted" \in Callbacks
        BY DEF Callbacks
      <3>2. sourceCallbacks \in Seq(Callbacks)
        BY DEF Sorts
      <3>3. CASE sourceCallbacks' = [sourceCallbacks EXCEPT
                                       ![msg.id] = "deleted"]
        BY <3>1, <3>2, <3>3, ExceptAnySeq, Zenon
      <3>4. QED
        BY <1>3, <3>2, <3>3 DEF receive
    <2>5. \E c \in BOOLEAN : saveFile(msg.text, msg.base, c)
      BY <1>3 DEF receive
    <2>6. QED
      BY <1>3, <2>1, <2>3, <2>4, <2>5
      DEF receive, Sorts, file, editing, pane, user
  <1> QED
    BY <1>1, <1>2, <1>3

LEMMA LeavingSorts ==
  ASSUME Sorts, leave \/ \E n \in Sends : complete(n)
  PROVE  Sorts'
  <1>1. ASSUME unload PROVE
          /\ page' \in {"open", "warned", "left"}
          /\ settling' \in [text : Texts, loops : 0..3] \cup {NoTimer}
          /\ toEditor' \in Seq(ToEditor) /\ toPage' \in Seq(ToPage)
    BY <1>1, Empty DEF unload, NoTimer
  <1>2. ASSUME stay, page' \in {"open", "warned", "left"} PROVE
          /\ page' \in {"open", "warned", "left"}
          /\ settling' \in [text : Texts, loops : 0..3] \cup {NoTimer}
          /\ toEditor' \in Seq(ToEditor) /\ toPage' \in Seq(ToPage)
    BY <1>2 DEF stay, Sorts
  <1>3. CASE leave
    <2>1. unload \/ (stay /\ page' \in {"open", "warned", "left"})
      BY <1>3 DEF leave, beforeunload
    <2>2. QED
      BY <1>1, <1>2, <1>3, <2>1 DEF leave, Sorts, file, pane, user
  <1>4. ASSUME NEW n \in Sends, complete(n) PROVE Sorts'
    <2>1. unload \/ (stay /\ page' \in {"open", "warned", "left"})
      BY <1>4 DEF complete, beforeunload, Sorts
    <2>2. puts[n] \in Puts
      BY DEF Sorts, Sends
    <2>3. tag' \in Versions
      BY <1>4, <2>2 DEF complete, Sorts, Puts
    <2>4. puts' \in Seq(Puts)
      <3>1. [puts[n] EXCEPT !.at = "over"] \in Puts
        BY <2>2 DEF Puts
      <3>2. QED
        BY <1>4, <3>1, ReplaceInSeq DEF complete, Sorts, Sends
    <2>5. QED
      BY <1>1, <1>2, <1>4, <2>1, <2>3, <2>4
      DEF complete, Sorts, file, pane, user
  <1> QED
    BY <1>3, <1>4

LEMMA EditorSorts ==
  ASSUME Sorts, type \/ save \/ handleMessage \/ settle
  PROVE  Sorts'
  <1>1. CASE type
    BY <1>1 DEF type, Sorts, file, saver
  <1>2. CASE save
    <2>1. [type |-> "PUT", text |-> value, base |-> base] \in ToPage
      BY DEF Sorts, ToPage
    <2>2. toPage' \in Seq(ToPage)
      BY <1>2, <2>1, Appended DEF save, Sorts
    <2>3. saved' \in Texts \cup {null}
      BY <1>2 DEF save, Sorts
    <2>4. QED
      BY <1>2, <2>2, <2>3 DEF save, Sorts, file, saver
  <1>3. CASE handleMessage
    <2> DEFINE msg == Head(toEditor)
    <2>1. msg \in ToEditor /\ toEditor' \in Seq(ToEditor)
      BY <1>3, Taken DEF handleMessage, Sorts
    <2>2. /\ value' \in Texts /\ saved' \in Texts \cup {null}
          /\ base' \in Versions /\ toPage' \in Seq(ToPage)
          /\ settling' \in [text : Texts, loops : 0..3] \cup {NoTimer}
      <3>1. CASE msg.type = "PUT" /\ putText(msg)
        <4>1. msg.text \in Texts /\ msg.of \in Versions
          BY <2>1, <3>1 DEF ToEditor
        <4>2. QED
          BY <3>1, <4>1 DEF putText, Sorts
      <3>2. CASE msg.type = "GET" /\ getText(msg)
        <4>1. [type |-> "GET", id |-> msg.id, text |-> value, base |-> base]
                \in ToPage
          BY <2>1, <3>2 DEF ToEditor, ToPage, Sorts
        <4>2. QED
          BY <3>2, <4>1, Appended DEF getText, Sorts
      <3>3. QED
        BY <1>3, <3>1, <3>2 DEF handleMessage
    <2>3. QED
      BY <1>3, <2>1, <2>2 DEF handleMessage, Sorts, file, saver, user
  <1>4. CASE settle
    <2>1. /\ value' \in Texts /\ saved' \in Texts \cup {null}
          /\ settling' \in [text : Texts, loops : 0..3] \cup {NoTimer}
      <3>1. CASE settling.text # 0 /\ value = 0 /\ settling.loops < 3
        <4>1. settling' = [settling EXCEPT !.loops = @ + 1]
              /\ value' = settling.text /\ saved' = saved
          BY <1>4, <3>1 DEF settle
        <4>2. settling \in [text : Texts, loops : 0..3]
          BY <1>4 DEF settle, Sorts
        <4>3. QED
          BY <3>1, <4>1, <4>2 DEF Sorts
      <3>2. CASE ~(settling.text # 0 /\ value = 0 /\ settling.loops < 3)
        BY <1>4, <3>2 DEF settle, Sorts, NoTimer
      <3>3. QED
        BY <3>1, <3>2
    <2>2. QED
      BY <1>4, <2>1 DEF settle, Sorts, file, saver, user
  <1> QED
    BY <1>1, <1>2, <1>3, <1>4

LEMMA SortsStep == Sorts /\ [Next]_vars => Sorts'
  <1> SUFFICES ASSUME Sorts, [Next]_vars PROVE Sorts'
    OBVIOUS
  <1>1. CASE UNCHANGED vars
    BY <1>1 DEF Sorts, vars, file, saver, editing, pane, user
  <1>2. CASE Next
    BY <1>2, ServerSorts, PageSorts, LeavingSorts, EditorSorts DEF Next
  <1>3. QED
    BY <1>1, <1>2

LEMMA FlagsStep == Flags /\ [Next]_vars => Flags'
  <1> SUFFICES ASSUME Flags, [Next]_vars PROVE Flags'
    OBVIOUS
  <1>1. dropped' \in BOOLEAN
    <2>1. dropped' = dropped \/ dropped' = TRUE
          \/ dropped' = (dropped \/ toPage # <<>>)
      BY Zenon
      DEF Next, vars, serveLoad, execute, write, otherWrites, loaded, submit,
          receive, saveFile, complete, leave, beforeunload, unload, stay,
          type, save, handleMessage, settle, file, saver
    <2>2. QED
      BY <2>1, Zenon DEF Flags
  <1>2. quiet' \in BOOLEAN
    <2>1. quiet' = quiet \/ quiet' = ~Warns
      BY Zenon
      DEF Next, vars, serveLoad, execute, write, otherWrites, loaded, submit,
          receive, complete, leave, beforeunload, type, save, handleMessage,
          settle
    <2>2. QED
      BY <2>1, Zenon DEF Flags
  <1>3. QED
    BY <1>1, <1>2 DEF Flags

\* Every variable of the page, the editor and the server keeps its type
\* (load-editor.js, text-editor.js, document-editor.js).
THEOREM SessionTypes == Spec => []TypeOK
  <1>1. Init => TypeOK
    BY InitSorts DEF TypeOK, Flags, Init
  <1>2. TypeOK /\ [Next]_vars => TypeOK'
    BY SortsStep, FlagsStep DEF TypeOK
  <1>3. QED
    BY <1>1, <1>2, PTL DEF Spec

-----------------------------------------------------------------------------
(* What the tag says of the text the page was given.                       *)

Loaded == load.at = "over" /\ load.version # 0

\* a version that is the file's only if the page has loaded or written it
Recent(t) == /\ t \in 1..version
             /\ t = version => t \in mine \cup {load.version}

LoadInv ==
  /\ load.version <= version
  /\ load.at \in {"server", "failed"} => load.version = 0
  /\ load.at = "ok" => load.version # 0

TagInv == tag <= version /\ (Loaded => Recent(tag))

Given(v) == v # 0 => Loaded /\ v = load.version

TextInv ==
  /\ Given(base)
  /\ \A i \in 1..Len(toEditor) :
       toEditor[i].type = "PUT" => Given(toEditor[i].of)
  /\ \A i \in 1..Len(toPage) : Given(toPage[i].base)

PutInv ==
  \A n \in Sends :
    /\ Given(puts[n].base)
    /\ puts[n].base # 0 => Recent(puts[n].match)
    /\ puts[n].at = "204" =>
         /\ puts[n].etag \in 1..version
         /\ puts[n].etag = version => puts[n].etag \in mine

Inv == Sorts /\ LoadInv /\ TagInv /\ TextInv /\ PutInv

LEMMA InitInv == Init => Inv
  <1> SUFFICES ASSUME Init PROVE Inv
    OBVIOUS
  <1>1. Sorts
    BY InitSorts
  <1>2. LoadInv /\ TagInv
    BY DEF Init, LoadInv, TagInv, Loaded
  <1>3. TextInv /\ PutInv
    BY Empty DEF Init, TextInv, PutInv, Given, Sends
  <1>4. QED
    BY <1>1, <1>2, <1>3 DEF Inv

LEMMA Numbers ==
  Sorts => /\ version \in Nat \ {0} /\ tag \in Nat /\ base \in Nat
           /\ load.version \in Nat /\ Len(puts) \in Nat
           /\ \A n \in Sends : puts[n] \in Puts
           /\ \A n \in Sends : /\ puts[n].base \in Nat /\ puts[n].etag \in Nat
                               /\ puts[n].match \in Nat
  <1> SUFFICES ASSUME Sorts
               PROVE  /\ version \in Nat \ {0} /\ tag \in Nat /\ base \in Nat
                      /\ load.version \in Nat /\ Len(puts) \in Nat
                      /\ \A n \in Sends : puts[n] \in Puts
                      /\ \A n \in Sends : /\ puts[n].base \in Nat
                                          /\ puts[n].etag \in Nat
                                          /\ puts[n].match \in Nat
    OBVIOUS
  <1>1. \A n \in Sends : puts[n] \in Puts
    BY DEF Sorts, Sends
  <1>2. Versions \subseteq Nat
    BY SessionAssumption DEF Versions, SessionAssumption
  <1>3. \A n \in Sends : /\ puts[n].base \in Nat /\ puts[n].etag \in Nat
                         /\ puts[n].match \in Nat
    BY <1>1, <1>2 DEF Puts
  <1>4. version \in Nat \ {0}
    BY SessionAssumption DEF Sorts, SessionAssumption
  <1>5. Len(puts) \in Nat
    BY LenProperties DEF Sorts
  <1>6. QED
    BY <1>1, <1>2, <1>3, <1>4, <1>5 DEF Sorts

\* what stays of the requests when the state of one of them changes
LEMMA PutChanged ==
  ASSUME NEW s \in Seq(Puts), NEW n \in 1..Len(s), NEW a,
         NEW t, t = [s EXCEPT ![n].at = a]
  PROVE  /\ Len(t) = Len(s) /\ t[n].at = a
         /\ \A m \in 1..Len(s) : /\ t[m].base = s[m].base
                                 /\ t[m].match = s[m].match
                                 /\ t[m].etag = s[m].etag
                                 /\ m # n => t[m] = s[m]
  <1>1. s[n] \in Puts /\ Len(s) \in Nat
    OBVIOUS
  <1> DEFINE put == [s[n] EXCEPT !.at = a]
  <1>2. put.base = s[n].base /\ put.match = s[n].match
        /\ put.etag = s[n].etag /\ put.at = a
    BY <1>1 DEF Puts
  <1>3. t = [s EXCEPT ![n] = put]
    OBVIOUS
  <1> HIDE DEF put
  <1>4. Len(t) = Len(s) /\ t[n] = put
        /\ \A m \in 1..Len(s) : m # n => t[m] = s[m]
    BY <1>1, <1>3
  <1>5. QED
    BY <1>2, <1>4

LEMMA OneReplaced ==
  ASSUME NEW S, NEW s \in Seq(S), NEW n \in 1..Len(s), NEW e,
         NEW t, t = [s EXCEPT ![n] = e]
  PROVE  /\ Len(t) = Len(s) /\ t[n] = e
         /\ \A m \in 1..Len(s) : m # n => t[m] = s[m]
  OBVIOUS

\* ... and when one of them is answered
LEMMA PutReplaced ==
  ASSUME NEW s \in Seq(Puts), NEW n \in 1..Len(s), NEW put,
         put.base = s[n].base, put.match = s[n].match,
         NEW t, t = [s EXCEPT ![n] = put]
  PROVE  /\ Len(t) = Len(s) /\ t[n] = put
         /\ \A m \in 1..Len(s) : /\ t[m].base = s[m].base
                                 /\ t[m].match = s[m].match
                                 /\ m # n => t[m] = s[m]
  BY OneReplaced

\* the file has a new version, or the page has written another one of it
LEMMA RecentKept ==
  ASSUME Sorts, Sorts', NEW t, Recent(t), load' = load,
         \/ version' = version /\ mine' = mine
         \/ version' > version
  PROVE  t \in 1..version' /\ (t = version' => t \in mine' \cup {load'.version})
  BY Numbers DEF Recent, Sorts

LEMMA ServerStep ==
  ASSUME Inv, Sorts', serveLoad \/ otherWrites
  PROVE  Inv'
  <1>1. /\ UNCHANGED <<tag, base, toEditor, toPage, puts>>
    BY DEF serveLoad, otherWrites, saver, editing, pane
  <1>2. CASE serveLoad
    <2>1. /\ UNCHANGED <<version, mine>> /\ load.at = "server"
          /\ load'.at # "server" /\ load'.at # "over" /\ ~Loaded
          /\ (load'.version = version /\ load'.at = "ok")
             \/ (load'.version = load.version /\ load'.at = "failed")
      BY <1>2 DEF serveLoad, file, Loaded, Inv, Sorts
    <2>2. LoadInv' /\ TagInv'
      BY <2>1, <1>1, Numbers DEF Inv, LoadInv, TagInv, Loaded
    <2>3. TextInv'
      BY <2>1, <1>1 DEF Inv, TextInv, Given, Loaded
    <2>4. PutInv'
      BY <2>1, <1>1 DEF Inv, PutInv, Given, Loaded, Sends
    <2>5. QED
      BY <2>2, <2>3, <2>4 DEF Inv
  <1>3. CASE otherWrites
    <2>1. version' = version + 1 /\ UNCHANGED <<mine, load>>
      BY <1>3 DEF otherWrites
    <2>2. LoadInv' /\ TagInv'
      BY <2>1, <1>1, Numbers DEF Inv, LoadInv, TagInv, Loaded, Recent
    <2>3. TextInv'
      BY <2>1, <1>1 DEF Inv, TextInv, Given, Loaded
    <2>4. PutInv'
      BY <2>1, <1>1, Numbers
      DEF Inv, PutInv, Given, Loaded, Sends, Recent
    <2>5. QED
      BY <2>2, <2>3, <2>4 DEF Inv
  <1> QED
    BY <1>2, <1>3

LEMMA ExecuteStep ==
  ASSUME Inv, Sorts', NEW n \in Sends, execute(n)
  PROVE  Inv'
  <1>1. /\ UNCHANGED <<version, mine, tag, load, base, toEditor, toPage>>
        /\ \E s \in {"accepted", "refused"} :
             puts' = [puts EXCEPT ![n].at = s]
    BY DEF execute, file, editing, pane
  <1>2. PICK s \in {"accepted", "refused"} :
          puts' = [puts EXCEPT ![n].at = s]
    BY <1>1
  <1>3. /\ Len(puts') = Len(puts)
        /\ \A m \in Sends : /\ puts'[m].base = puts[m].base
                            /\ puts'[m].match = puts[m].match
                            /\ puts'[m].etag = puts[m].etag
                            /\ puts'[m].at = "204" => puts[m].at = "204"
    <2>1. puts \in Seq(Puts) /\ n \in 1..Len(puts)
      BY DEF Inv, Sorts, Sends
    <2>2. QED
      BY <1>2, <2>1, PutChanged DEF Sends
  <1>4. LoadInv' /\ TagInv' /\ TextInv'
    BY <1>1 DEF Inv, LoadInv, TagInv, TextInv, Given, Loaded, Recent
  <1>5. PutInv'
    BY <1>1, <1>3 DEF Inv, PutInv, Given, Loaded, Recent, Sends
  <1>6. QED
    BY <1>4, <1>5 DEF Inv

LEMMA WriteStep ==
  ASSUME Inv, Sorts', NEW n \in Sends, write(n)
  PROVE  Inv'
  <1>0. puts \in Seq(Puts) /\ n \in 1..Len(puts)
    BY DEF Inv, Sorts, Sends
  <1>1. UNCHANGED <<tag, load, base, toEditor, toPage>>
    BY DEF write, editing, pane
  <1>2. ASSUME NEW t, puts' = [puts EXCEPT
                                 ![n] = [@ EXCEPT !.at = "204", !.etag = t,
                                                  !.made = version + 1]]
        PROVE  \E put : /\ puts' = [puts EXCEPT ![n] = put]
                        /\ put.base = puts[n].base /\ put.etag = t
                        /\ put.match = puts[n].match
    <2> DEFINE put == [puts[n] EXCEPT !.at = "204", !.etag = t,
                                      !.made = version + 1]
    <2>1. puts[n] \in Puts
      BY <1>0
    <2>2. /\ put.base = puts[n].base /\ put.match = puts[n].match
          /\ put.etag = t
      BY <2>1 DEF Puts
    <2>3. puts' = [puts EXCEPT ![n] = put]
      BY <1>2, Zenon
    <2>4. QED
      BY <2>2, <2>3, Zenon
  <1>3. CASE UNCHANGED file /\ puts' = [puts EXCEPT ![n].at = "refused"]
    <2>1. /\ Len(puts') = Len(puts)
          /\ \A m \in Sends : /\ puts'[m].base = puts[m].base
                              /\ puts'[m].match = puts[m].match
                              /\ puts'[m].etag = puts[m].etag
                              /\ puts'[m].at = "204" => puts[m].at = "204"
      BY <1>0, <1>3, PutChanged DEF Sends
    <2>2. LoadInv' /\ TagInv' /\ TextInv'
      BY <1>1, <1>3
      DEF file, Inv, LoadInv, TagInv, TextInv, Given, Loaded, Recent
    <2>3. PutInv'
      BY <1>1, <1>3, <2>1
      DEF file, Inv, PutInv, Given, Loaded, Recent, Sends
    <2>4. QED
      BY <2>2, <2>3 DEF Inv
  <1>4. ASSUME version' = version + 1, mine' = mine \cup {version + 1},
               NEW t \in {version, version + 1},
               puts' = [puts EXCEPT ![n] = [@ EXCEPT !.at = "204", !.etag = t,
                                                     !.made = version + 1]]
        PROVE  Inv'
    <2>0. version \in Nat \ {0} /\ version' = version + 1
          /\ mine' = mine \cup {version'} /\ t \in {version, version'}
      BY <1>4, Numbers DEF Inv
    <2>1. PICK put : /\ puts' = [puts EXCEPT ![n] = put]
                     /\ put.base = puts[n].base /\ put.etag = t
                     /\ put.match = puts[n].match
      BY <1>2, <1>4
    <2>a. /\ Len(puts') = Len(puts) /\ puts'[n].etag = t
           /\ \A m \in Sends : /\ puts'[m].base = puts[m].base
                               /\ puts'[m].match = puts[m].match
                               /\ m # n => puts'[m] = puts[m]
      BY <1>0, <2>1, PutReplaced DEF Sends
    <2>2. LoadInv' /\ TagInv' /\ TextInv'
      BY <1>1, <1>4, Numbers
      DEF Inv, LoadInv, TagInv, TextInv, Given, Loaded, Recent
    <2>3. ASSUME NEW m \in Sends
          PROVE  /\ puts'[m].base # 0 =>
                      Loaded' /\ puts'[m].base = load'.version
                 /\ puts'[m].base # 0 =>
                      /\ puts'[m].match \in 1..version'
                      /\ puts'[m].match # version'
                 /\ puts'[m].at = "204" =>
                      /\ puts'[m].etag \in 1..version'
                      /\ puts'[m].etag = version' => puts'[m].etag \in mine'
      <3>1. Given(puts[m].base)
            /\ (puts[m].base # 0 => puts[m].match \in 1..version)
            /\ (puts[m].at = "204" => puts[m].etag \in 1..version)
        BY DEF Inv, PutInv, Recent
      <3>2. /\ puts'[m].base = puts[m].base /\ puts'[m].match = puts[m].match
        BY <2>a
      <3>3. puts'[m].base # 0 => Loaded' /\ puts'[m].base = load'.version
        BY <1>1, <3>1, <3>2 DEF Given, Loaded
      <3>4. puts'[m].base # 0 => /\ puts'[m].match \in 1..version'
                                 /\ puts'[m].match # version'
        BY <2>0, <3>1, <3>2, Numbers DEF Inv
      <3>5. puts'[m].at = "204" =>
              /\ puts'[m].etag \in 1..version'
              /\ puts'[m].etag = version' => puts'[m].etag \in mine'
        <4>1. CASE m = n
          BY <2>0, <2>a, <4>1
        <4>2. CASE m # n
          BY <2>0, <2>a, <3>1, <4>2, Numbers DEF Inv
        <4>3. QED
          BY <4>1, <4>2
      <3>6. QED
        BY <3>3, <3>4, <3>5
    <2>4. PutInv'
      BY <2>a, <2>3 DEF PutInv, Sends, Recent, Given
    <2>5. QED
      BY <2>2, <2>4 DEF Inv
  <1>5. QED
    BY <1>3, <1>4 DEF write

LEMMA LoadedStep ==
  ASSUME Inv, Sorts', loaded
  PROVE  Inv'
  <1>1. /\ UNCHANGED <<version, mine, puts, base, toPage>>
        /\ load.at \in {"ok", "failed"} /\ ~Loaded
        /\ load'.at = "over" /\ load'.version = load.version
    BY DEF loaded, file, editing, pane, Loaded, Inv, Sorts
  <1>2. \/ /\ load.at = "ok" /\ tag' = load.version
           /\ toEditor' = Append(toEditor, [type |-> "PUT",
                                            text |-> load.text,
                                            of |-> load.version])
        \/ load.at # "ok" /\ UNCHANGED <<tag, toEditor>>
    BY DEF loaded
  <1>3. LoadInv'
    BY <1>1 DEF Inv, LoadInv
  <1>4. TagInv'
    <2>1. CASE load.at = "ok"
      BY <1>1, <1>2, <2>1, Numbers
      DEF Inv, LoadInv, TagInv, Loaded, Recent
    <2>2. CASE load.at # "ok"
      <3>1. load'.version # 0 => FALSE
        BY <1>1, <2>2 DEF Inv, LoadInv
      <3>2. QED
        BY <1>1, <1>2, <2>2, <3>1 DEF Inv, TagInv, Loaded
    <2>3. QED
      BY <2>1, <2>2
  <1>5. TextInv'
    <2>1. base' = 0 \/ Loaded'
      BY <1>1 DEF Inv, TextInv, Given
    <2>2. base = 0 /\ \A i \in 1..Len(toPage) : toPage[i].base = 0
      BY <1>1 DEF Inv, TextInv, Given
    <2>3. \A i \in 1..Len(toEditor) : toEditor[i].type = "PUT" =>
            toEditor[i].of = 0
      BY <1>1 DEF Inv, TextInv, Given
    <2>4. \A i \in 1..Len(toEditor') :
            toEditor'[i].type = "PUT" => \/ toEditor'[i].of = 0
                                         \/ /\ toEditor'[i].of = load.version
                                            /\ load.at = "ok"
      <3>1. CASE load.at = "ok"
        <4> DEFINE msg == [type |-> "PUT", text |-> load.text,
                           of |-> load.version]
        <4>1. msg \in ToEditor /\ toEditor \in Seq(ToEditor)
          BY DEF Inv, Sorts, ToEditor
        <4>2. toEditor' = Append(toEditor, msg)
          BY <1>2, <3>1
        <4>3. msg.of = load.version
          OBVIOUS
        <4> HIDE DEF msg
        <4>4. QED
          BY <2>3, <3>1, <4>1, <4>2, <4>3, Appended, LenProperties
      <3>2. CASE load.at # "ok"
        BY <1>2, <2>3, <3>2
      <3>3. QED
        BY <3>1, <3>2
    <2>5. load.at = "ok" => load.version # 0
      BY DEF Inv, LoadInv
    <2>6. QED
      BY <1>1, <2>2, <2>4, <2>5 DEF TextInv, Given, Loaded
  <1>6. PutInv'
    BY <1>1 DEF Inv, PutInv, Given, Sends
  <1>7. QED
    BY <1>3, <1>4, <1>5, <1>6 DEF Inv

LEMMA SubmitStep ==
  ASSUME Inv, Sorts', submit
  PROVE  Inv'
  <1>1. UNCHANGED <<version, mine, puts, load, tag, base, toPage>>
    BY DEF submit, file, saver, editing, pane
  <1>2. \A i \in 1..Len(toEditor') :
          toEditor'[i].type = "PUT" => Given(toEditor'[i].of)
    <2> DEFINE msg == [type |-> "GET", id |-> Len(sourceCallbacks) + 1]
    <2>1. msg \in ToEditor /\ toEditor \in Seq(ToEditor)
      BY LenProperties DEF Inv, Sorts, ToEditor
    <2>2. toEditor' = Append(toEditor, msg) /\ msg.type = "GET"
      BY DEF submit
    <2>3. \A i \in 1..Len(toEditor) :
            toEditor[i].type = "PUT" => Given(toEditor[i].of)
      BY DEF Inv, TextInv
    <2> HIDE DEF msg
    <2>4. QED
      BY <2>1, <2>2, <2>3, Appended, LenProperties
  <1>3. LoadInv' /\ TagInv' /\ PutInv'
    BY <1>1 DEF Inv, LoadInv, TagInv, PutInv, Given, Loaded, Recent, Sends
  <1>4. TextInv'
    BY <1>1, <1>2 DEF Inv, TextInv, Given, Loaded
  <1>5. QED
    BY <1>3, <1>4 DEF Inv

LEMMA ReceiveStep ==
  ASSUME Inv, Sorts', receive
  PROVE  Inv'
  <1> DEFINE msg == Head(toPage)
  <1>1. /\ UNCHANGED <<version, mine, load, base, toEditor>>
        /\ toPage # <<>> /\ toPage' = Tail(toPage)
    BY DEF receive, file, editing, pane
  <1>2. toPage \in Seq(ToPage) /\ msg = toPage[1] /\ 1 \in 1..Len(toPage)
        /\ \A i \in 1..Len(toPage') : /\ i + 1 \in 1..Len(toPage)
                                      /\ toPage'[i] = toPage[i + 1]
    <2>1. toPage \in Seq(ToPage)
      BY DEF Inv, Sorts
    <2>2. QED
      BY <1>1, <2>1, Taken, LenProperties
  <1>3. Given(msg.base)
    BY <1>2 DEF Inv, TextInv
  <1>4. \E c \in BOOLEAN : saveFile(msg.text, msg.base, c)
    BY DEF receive
  <1>5. PICK c \in BOOLEAN : saveFile(msg.text, msg.base, c)
    BY <1>4
  <1> DEFINE put == [at |-> "server", text |-> msg.text, match |-> tag,
                     base |-> msg.base, callback |-> c,
                     etag |-> 0, made |-> 0]
  <1>6. tag' = tag /\ (puts' = puts \/ puts' = Append(puts, put))
    BY <1>5 DEF saveFile
  <1>7. LoadInv' /\ TagInv'
    BY <1>1, <1>6 DEF Inv, LoadInv, TagInv, Loaded, Recent
  <1>8. TextInv'
    BY <1>1, <1>2 DEF Inv, TextInv, Given, Loaded
  <1>9. PutInv'
    <2>1. put.at = "server" /\ put.base = msg.base /\ put.match = tag
      OBVIOUS
    <2>2. msg.base # 0 => Recent(tag)
      BY <1>3 DEF Given, Inv, TagInv
    <2>3. CASE puts' = puts
      BY <1>1, <2>3 DEF Inv, PutInv, Given, Loaded, Recent, Sends
    <2>4. CASE puts' = Append(puts, put)
      <3>1. puts \in Seq(Puts) /\ Len(puts) \in Nat
        BY Numbers DEF Inv, Sorts
      <3> HIDE DEF put, msg
      <3>2. /\ Len(puts') = Len(puts) + 1 /\ puts'[Len(puts) + 1] = put
            /\ \A n \in Sends : puts'[n] = puts[n]
        BY <2>4, <3>1 DEF Sends
      <3>3. QED
        BY <1>1, <1>3, <2>1, <2>2, <3>1, <3>2
        DEF Inv, PutInv, Given, Loaded, Recent, Sends
    <2>5. QED
      BY <1>6, <2>3, <2>4
  <1>10. QED
    BY <1>7, <1>8, <1>9 DEF Inv

LEMMA CompleteStep ==
  ASSUME Inv, Sorts', NEW n \in Sends, complete(n)
  PROVE  Inv'
  <1>1. /\ UNCHANGED <<version, mine, load, base>>
        /\ \/ toEditor' = <<>> /\ toPage' = <<>>
           \/ UNCHANGED <<toEditor, toPage>>
    BY DEF complete, file, pane, beforeunload, unload, stay
  <1>2. puts \in Seq(Puts) /\ n \in 1..Len(puts)
        /\ puts' = [puts EXCEPT ![n].at = "over"]
    BY DEF complete, Inv, Sorts, Sends
  <1>3. tag' = tag \/ (puts[n].at = "204" /\ tag' = puts[n].etag)
    BY DEF complete
  <1>4. /\ Len(puts') = Len(puts)
        /\ \A m \in Sends : /\ puts'[m].base = puts[m].base
                            /\ puts'[m].match = puts[m].match
                            /\ puts'[m].etag = puts[m].etag
                            /\ puts'[m].at = "204" => puts[m].at = "204"
    BY <1>2, PutChanged DEF Sends
  <1>5. LoadInv' /\ TagInv'
    BY <1>1, <1>3, Numbers DEF Inv, LoadInv, TagInv, PutInv, Loaded, Recent
  <1>6. TextInv'
    BY <1>1, Empty DEF Inv, TextInv, Given, Loaded
  <1>7. PutInv'
    BY <1>1, <1>4 DEF Inv, PutInv, Given, Loaded, Recent, Sends
  <1>8. QED
    BY <1>5, <1>6, <1>7 DEF Inv

\* the steps that change neither the file, nor the tag, nor a request
LEMMA OtherStep ==
  ASSUME Inv, Sorts', leave \/ type \/ save \/ handleMessage \/ settle
  PROVE  Inv'
  <1>1. UNCHANGED <<version, mine, load, tag, puts>>
    BY DEF leave, type, save, handleMessage, settle, file, saver
  <1>2. LoadInv' /\ TagInv' /\ PutInv'
    BY <1>1 DEF Inv, LoadInv, TagInv, PutInv, Given, Loaded, Recent, Sends
  <1>3. CASE leave
    <2>1. /\ UNCHANGED base
          /\ \/ toEditor' = <<>> /\ toPage' = <<>>
             \/ UNCHANGED <<toEditor, toPage>>
      BY <1>3 DEF leave, pane, beforeunload, unload, stay
    <2>2. TextInv'
      BY <1>1, <2>1, Empty DEF Inv, TextInv, Given, Loaded
    <2>3. QED
      BY <1>2, <2>2 DEF Inv
  <1>4. CASE type \/ settle
    <2>1. UNCHANGED <<base, toEditor, toPage>>
      BY <1>4 DEF type, settle
    <2>2. TextInv'
      BY <1>1, <2>1 DEF Inv, TextInv, Given, Loaded
    <2>3. QED
      BY <1>2, <2>2 DEF Inv
  <1>5. ASSUME NEW msg \in ToPage, msg.base = base,
               toPage' = Append(toPage, msg)
        PROVE  \A i \in 1..Len(toPage') : Given(toPage'[i].base)
    <2>1. toPage \in Seq(ToPage)
      BY DEF Inv, Sorts
    <2>2. Given(base) /\ \A i \in 1..Len(toPage) : Given(toPage[i].base)
      BY DEF Inv, TextInv
    <2>3. QED
      BY <1>5, <2>1, <2>2, Appended, LenProperties
  <1>6. CASE save
    <2> DEFINE msg == [type |-> "PUT", text |-> value, base |-> base]
    <2>1. msg \in ToPage /\ msg.base = base
      BY DEF Inv, Sorts, ToPage
    <2>2. toPage' = Append(toPage, msg) /\ UNCHANGED <<base, toEditor>>
      BY <1>6 DEF save
    <2> HIDE DEF msg
    <2>3. \A i \in 1..Len(toPage') : Given(toPage'[i].base)
      BY <1>5, <2>1, <2>2
    <2>4. TextInv'
      BY <1>1, <2>2, <2>3 DEF Inv, TextInv, Given, Loaded
    <2>5. QED
      BY <1>2, <2>4 DEF Inv
  <1>7. CASE handleMessage
    <2> DEFINE msg == Head(toEditor)
    <2>1. /\ toEditor \in Seq(ToEditor) /\ msg \in ToEditor
          /\ msg = toEditor[1] /\ 1 \in 1..Len(toEditor)
          /\ \A i \in 1..Len(toEditor') :
               i + 1 \in 1..Len(toEditor) /\ toEditor'[i] = toEditor[i + 1]
      <3>1. toEditor \in Seq(ToEditor) /\ toEditor # <<>>
            /\ toEditor' = Tail(toEditor)
        BY <1>7 DEF handleMessage, Inv, Sorts
      <3>2. QED
        BY <3>1, Taken, LenProperties
    <2>2. \/ msg.type = "PUT" /\ putText(msg)
          \/ msg.type = "GET" /\ getText(msg)
      BY <1>7 DEF handleMessage
    <2> HIDE DEF msg
    <2>3. \A i \in 1..Len(toEditor') :
            toEditor'[i].type = "PUT" => Given(toEditor'[i].of)
      BY <2>1 DEF Inv, TextInv
    <2>4. Given(base') /\ \A i \in 1..Len(toPage') : Given(toPage'[i].base)
      <3>1. CASE msg.type = "PUT" /\ putText(msg)
        BY <2>1, <3>1 DEF putText, Inv, TextInv
      <3>2. CASE msg.type = "GET" /\ getText(msg)
        <4> DEFINE reply == [type |-> "GET", id |-> msg.id, text |-> value,
                             base |-> base]
        <4>1. reply \in ToPage /\ reply.base = base
          BY <2>1, <3>2 DEF Inv, Sorts, ToEditor, ToPage
        <4>2. toPage' = Append(toPage, reply) /\ UNCHANGED base
          BY <3>2 DEF getText
        <4> HIDE DEF reply
        <4>3. \A i \in 1..Len(toPage') : Given(toPage'[i].base)
          BY <1>5, <4>1, <4>2
        <4>4. QED
          BY <4>2, <4>3 DEF Inv, TextInv
      <3>3. QED
        BY <2>2, <3>1, <3>2
    <2>5. TextInv'
      BY <1>1, <2>3, <2>4 DEF TextInv, Given, Loaded
    <2>6. QED
      BY <1>2, <2>5 DEF Inv
  <1> QED
    BY <1>3, <1>4, <1>6, <1>7

LEMMA InvStep == Inv /\ [Next]_vars => Inv'
  <1> SUFFICES ASSUME Inv, [Next]_vars PROVE Inv'
    OBVIOUS
  <1>1. Sorts'
    BY SortsStep DEF Inv
  <1>2. CASE UNCHANGED vars
    BY <1>1, <1>2
    DEF vars, file, saver, editing, pane, Inv, LoadInv, TagInv, TextInv,
        PutInv, Given, Loaded, Recent, Sends
  <1>3. CASE Next
    BY <1>1, <1>3, ServerStep, ExecuteStep, WriteStep, LoadedStep, SubmitStep,
       ReceiveStep, CompleteStep, OtherStep DEF Next
  <1>4. QED
    BY <1>2, <1>3

-----------------------------------------------------------------------------
(* The theorem.                                                            *)

\* only execute accepts a request, when the file is what its tag says
LEMMA Accepted ==
  ASSUME Inv, [Next]_vars, NEW n \in Sends,
         puts[n].at = "server", puts'[n].at = "accepted"
  PROVE  unmodifiedSince(puts[n])
  <1>0. puts \in Seq(Puts) /\ n \in 1..Len(puts)
    BY DEF Inv, Sorts, Sends
  <1>1. UNCHANGED puts => FALSE
    OBVIOUS
  <1>2. ASSUME NEW m \in Sends, execute(m) PROVE unmodifiedSince(puts[n])
    <2>1. PICK s : puts' = [puts EXCEPT ![m].at = s]
      BY <1>2 DEF execute
    <2>2. m \in 1..Len(puts)
      BY DEF Sends
    <2>3. m # n => puts'[n] = puts[n]
      BY <1>0, <2>1, <2>2, PutChanged
    <2>4. m = n
      BY <2>3
    <2>5. CASE unmodifiedSince(puts[n])
      BY <2>5
    <2>6. CASE ~unmodifiedSince(puts[n])
      <3>1. puts' = [puts EXCEPT ![n].at = "refused"]
        BY <1>2, <2>4, <2>6 DEF execute
      <3>2. puts'[n].at = "refused"
        BY <1>0, <3>1, PutChanged
      <3>3. QED
        BY <3>2
    <2>7. QED
      BY <2>5, <2>6
  <1>3. ASSUME NEW m \in Sends, write(m) PROVE FALSE
    <2>1. puts[m].at = "accepted" /\ m \in 1..Len(puts)
      BY <1>3 DEF write, Sends
    <2>2. PICK put : puts' = [puts EXCEPT ![m] = put]
      BY <1>3, Zenon DEF write
    <2>3. m # n => puts'[n] = puts[n]
      BY <1>0, <2>1, <2>2, OneReplaced
    <2>4. QED
      BY <2>1, <2>3
  <1>4. ASSUME NEW m \in Sends, complete(m) PROVE FALSE
    <2>1. puts' = [puts EXCEPT ![m].at = "over"] /\ m \in 1..Len(puts)
      BY <1>4 DEF complete, Sends
    <2>2. m # n => puts'[n] = puts[n]
      BY <1>0, <2>1, PutChanged
    <2>3. puts'[m].at = "over"
      BY <1>0, <2>1, PutChanged
    <2>4. QED
      BY <2>2, <2>3
  <1>5. ASSUME receive PROVE FALSE
    <2>1. PICK put : puts' = puts \/ puts' = Append(puts, put)
      BY <1>5, Zenon DEF receive, saveFile
    <2>2. puts'[n] = puts[n]
      BY <1>0, <2>1
    <2>3. QED
      BY <2>2
  <1>6. CASE UNCHANGED vars
    BY <1>1, <1>6 DEF vars, saver
  <1>7. CASE serveLoad \/ otherWrites \/ loaded \/ submit \/ leave \/ type
             \/ save \/ handleMessage \/ settle
    BY <1>1, <1>7
    DEF serveLoad, otherWrites, loaded, submit, leave, type, save,
        handleMessage, settle, saver
  <1>8. QED
    BY <1>2, <1>3, <1>4, <1>5, <1>6, <1>7 DEF Next

LEMMA AcceptStep ==
  Inv /\ [Next]_vars =>
    \A n \in Sends :
      (puts[n].at = "server" /\ puts'[n].at = "accepted" /\ puts[n].base # 0)
        => version \in mine \cup {puts[n].base}
  <1> SUFFICES ASSUME Inv, [Next]_vars, NEW n \in Sends,
                      puts[n].at = "server", puts'[n].at = "accepted",
                      puts[n].base # 0
               PROVE  version \in mine \cup {puts[n].base}
    OBVIOUS
  <1>1. unmodifiedSince(puts[n])
    BY Accepted
  <1>2. puts[n].base = load.version /\ Recent(puts[n].match)
    BY DEF Inv, PutInv, Given
  <1>3. puts[n].match # 0
    BY <1>2, Numbers DEF Recent, Inv
  <1>4. QED
    BY <1>1, <1>2, <1>3 DEF unmodifiedSince, Recent

\* A save of a text made from a version of the file is accepted only while the
\* file is that version or one the page has written (saveFile, loadText and
\* complete in load-editor.js, etag.js, UnmodifiedSinceHandler.java).
THEOREM AcceptsWhenCurrent == Spec => AcceptedWhenCurrent
  <1>1. Inv /\ [Next]_vars =>
          [\A n \in Sends :
             (puts[n].at = "server" /\ puts'[n].at = "accepted"
                /\ puts[n].base # 0) => version \in mine \cup {puts[n].base}]_vars
    BY AcceptStep
  <1>2. QED
    BY <1>1, InitInv, InvStep, PTL DEF Spec, AcceptedWhenCurrent
-----------------------------------------------------------------------------
(* What a step does to the requests of the page: nothing, one is sent, or   *)
(* one goes on; its text and the version it names never change.             *)

Sent ==
  \E put \in Puts :
    /\ puts' = Append(puts, put) /\ version' = version
    /\ put.at = "server" /\ put.match = tag /\ put.made = 0
    /\ toPage # <<>> /\ toPage' = Tail(toPage)
    /\ put.text = Head(toPage).text

GoesOn ==
  \E n \in Sends : \E put \in Puts :
    /\ puts' = [puts EXCEPT ![n] = put]
    /\ put.text = puts[n].text /\ put.match = puts[n].match
    /\ \/ put.made = puts[n].made
       \/ version' = version + 1 /\ put.made = version'
    /\ saving' \in {saving, "false"}
    /\ put.at = "over" => saving' = "false"

LEMMA PutsMove ==
  ASSUME Inv, [Next]_vars
  PROVE  /\ version' \in {version, version + 1}
         /\ (puts' = puts /\ saving' = saving) \/ Sent \/ GoesOn
  <1>0. puts \in Seq(Puts) /\ \A n \in Sends : n \in 1..Len(puts)
                                               /\ puts[n] \in Puts
    BY DEF Inv, Sorts, Sends
  <1>1. version' \in {version, version + 1}
    BY DEF Next, vars, file, serveLoad, otherWrites, execute, write, complete,
           loaded, submit, receive, leave, type, save, handleMessage, settle
  <1>2. ASSUME NEW n \in Sends, execute(n) PROVE GoesOn
    <2>1. PICK s \in {"accepted", "refused"} :
            puts' = [puts EXCEPT ![n].at = s]
      BY <1>2 DEF execute
    <2> DEFINE put == [puts[n] EXCEPT !.at = s]
    <2>2. /\ put \in Puts /\ put.text = puts[n].text /\ put.at # "over"
          /\ put.match = puts[n].match /\ put.made = puts[n].made
      BY <1>0, <2>1 DEF Puts
    <2>3. puts' = [puts EXCEPT ![n] = put]
      BY <2>1
    <2> HIDE DEF put
    <2>4. saving' = saving
      BY <1>2 DEF execute
    <2>5. QED
      BY <2>2, <2>3, <2>4 DEF GoesOn
  <1>3. ASSUME NEW n \in Sends, write(n) PROVE GoesOn
    <2>0. saving' = saving
      BY <1>3 DEF write
    <2>1. CASE puts' = [puts EXCEPT ![n].at = "refused"]
      <3> DEFINE put == [puts[n] EXCEPT !.at = "refused"]
      <3>1. /\ put \in Puts /\ put.text = puts[n].text /\ put.at # "over"
            /\ put.match = puts[n].match /\ put.made = puts[n].made
        BY <1>0 DEF Puts
      <3>2. puts' = [puts EXCEPT ![n] = put]
        BY <2>1
      <3> HIDE DEF put
      <3>3. QED
        BY <2>0, <3>1, <3>2 DEF GoesOn
    <2>2. ASSUME version < MaxVersions, version' = version + 1,
                 NEW t \in {version, version + 1},
                 puts' = [puts EXCEPT ![n] = [@ EXCEPT !.at = "204", !.etag = t,
                                                       !.made = version + 1]]
          PROVE  GoesOn
      <3> DEFINE put == [puts[n] EXCEPT !.at = "204", !.etag = t,
                                        !.made = version + 1]
      <3>1. t \in Versions /\ version + 1 \in Versions
        <4>1. version \in 1..MaxVersions /\ version < MaxVersions
              /\ t \in {version, version + 1}
          BY <2>2 DEF Inv, Sorts
        <4>2. QED
          BY <4>1, SessionAssumption DEF Versions, SessionAssumption
      <3>2. /\ put \in Puts /\ put.text = puts[n].text /\ put.at # "over"
            /\ put.match = puts[n].match /\ put.made = version'
        BY <1>0, <2>2, <3>1 DEF Puts
      <3>3. puts' = [puts EXCEPT ![n] = put]
        BY <2>2, Zenon
      <3> HIDE DEF put
      <3>4. QED
        BY <2>0, <2>2, <3>2, <3>3 DEF GoesOn
    <2>3. QED
      BY <1>3, <2>1, <2>2 DEF write
  <1>4. ASSUME NEW n \in Sends, complete(n) PROVE GoesOn
    <2> DEFINE put == [puts[n] EXCEPT !.at = "over"]
    <2>1. /\ put \in Puts /\ put.text = puts[n].text
          /\ put.match = puts[n].match /\ put.made = puts[n].made
      BY <1>0 DEF Puts
    <2>2. puts' = [puts EXCEPT ![n] = put] /\ saving' = "false"
      BY <1>4 DEF complete
    <2> HIDE DEF put
    <2>3. QED
      BY <2>1, <2>2 DEF GoesOn
  <1>5. CASE receive
    <2> DEFINE msg == Head(toPage)
    <2>1. toPage # <<>> /\ toPage' = Tail(toPage) /\ version' = version
      BY <1>5 DEF receive, file
    <2>2. msg \in ToPage
      BY <2>1, Taken DEF Inv, Sorts
    <2>3. msg.text \in Texts /\ msg.base \in Versions
      BY <2>2 DEF ToPage
    <2>4. PICK c \in BOOLEAN : saveFile(msg.text, msg.base, c)
      BY <1>5 DEF receive
    <2> DEFINE put == [at |-> "server", text |-> msg.text, match |-> tag,
                       base |-> msg.base, callback |-> c,
                       etag |-> 0, made |-> 0]
    <2>5. put \in Puts
      BY <2>3, SessionAssumption
      DEF Inv, Sorts, Puts, Versions, SessionAssumption
    <2>6. /\ put.at = "server" /\ put.match = tag /\ put.made = 0
          /\ put.text = Head(toPage).text
      OBVIOUS
    <2>7. CASE saving = "busy"
      BY <1>1, <2>4, <2>7 DEF saveFile
    <2>8. CASE saving # "busy"
      <3>1. puts' = Append(puts, put)
        BY <2>4, <2>8 DEF saveFile
      <3> HIDE DEF put
      <3>2. QED
        BY <1>1, <2>1, <2>5, <2>6, <3>1 DEF Sent
    <2>9. QED
      BY <2>7, <2>8
  <1>6. CASE serveLoad \/ otherWrites \/ loaded \/ submit \/ leave \/ type
             \/ save \/ handleMessage \/ settle \/ UNCHANGED vars
    BY <1>1, <1>6
    DEF serveLoad, otherWrites, loaded, submit, leave, type, save,
        handleMessage, settle, vars, saver
  <1>7. QED
    BY <1>1, <1>2, <1>3, <1>4, <1>5, <1>6 DEF Next

\* the requests after a step that sends one ...
LEMMA SentPuts ==
  ASSUME Inv, Sent
  PROVE  \E put \in Puts :
           /\ Len(puts') = Len(puts) + 1 /\ puts'[Len(puts) + 1] = put
           /\ \A m \in Sends : puts'[m] = puts[m]
           /\ put.at = "server" /\ put.match = tag /\ put.made = 0
           /\ toPage # <<>> /\ toPage' = Tail(toPage)
           /\ put.text = Head(toPage).text
  <1>1. puts \in Seq(Puts)
    BY DEF Inv, Sorts
  <1>2. PICK put \in Puts :
          /\ puts' = Append(puts, put)
          /\ put.at = "server" /\ put.match = tag /\ put.made = 0
          /\ toPage # <<>> /\ toPage' = Tail(toPage)
          /\ put.text = Head(toPage).text
    BY Zenon DEF Sent
  <1>3. /\ Len(puts') = Len(puts) + 1 /\ puts'[Len(puts) + 1] = put
        /\ \A m \in Sends : puts'[m] = puts[m]
    BY <1>1, <1>2, Appended DEF Sends
  <1>4. QED
    BY <1>2, <1>3, Zenon

\* ... and after one with which one goes on
LEMMA GoneOnPuts ==
  ASSUME Inv, GoesOn
  PROVE  /\ Len(puts') = Len(puts) /\ saving' \in {saving, "false"}
         /\ \A m \in Sends :
              /\ puts'[m].text = puts[m].text
              /\ puts'[m].match = puts[m].match
              /\ \/ puts'[m].made = puts[m].made
                 \/ version' = version + 1 /\ puts'[m].made = version'
              /\ puts'[m].at = "over" => puts[m].at = "over"
                                          \/ saving' = "false"
  <1>1. puts \in Seq(Puts)
    BY DEF Inv, Sorts
  <1>2. PICK n \in Sends, put \in Puts :
          /\ puts' = [puts EXCEPT ![n] = put]
          /\ put.text = puts[n].text /\ put.match = puts[n].match
          /\ \/ put.made = puts[n].made
             \/ version' = version + 1 /\ put.made = version'
          /\ saving' \in {saving, "false"}
          /\ put.at = "over" => saving' = "false"
    BY Zenon DEF GoesOn
  <1>3. n \in 1..Len(puts)
    BY DEF Sends
  <1>4. /\ Len(puts') = Len(puts) /\ puts'[n] = put
        /\ \A m \in 1..Len(puts) : m # n => puts'[m] = puts[m]
    BY <1>1, <1>2, <1>3, OneReplaced
  <1>5. QED
    BY <1>2, <1>4, Zenon DEF Sends

-----------------------------------------------------------------------------
(* The order of saves.  A request names a version that the page knew when   *)
(* it was sent; a later one, sent since, makes a version that comes after.  *)

OrderInv ==
  /\ \A n \in Sends : puts[n].match <= version /\ puts[n].made <= version
  /\ \A n, m \in Sends :
       n < m /\ puts[m].made # 0 => puts[n].match < puts[m].made

LEMMA PutNumbers ==
  Sorts => \A n \in Sends : puts[n].match \in Nat /\ puts[n].made \in Nat
  <1>1. Versions \subseteq Nat
    BY SessionAssumption DEF Versions, SessionAssumption
  <1>2. Sorts => \A n \in Sends : puts[n] \in Puts
    BY DEF Sorts, Sends
  <1>3. QED
    BY <1>1, <1>2 DEF Puts

LEMMA OrderStep == Inv /\ OrderInv /\ [Next]_vars => OrderInv'
  <1> SUFFICES ASSUME Inv, OrderInv, [Next]_vars PROVE OrderInv'
    OBVIOUS
  <1>1. /\ version \in Nat /\ tag \in Nat /\ tag <= version /\ Len(puts) \in Nat
        /\ \A n \in Sends : puts[n].match \in Nat /\ puts[n].made \in Nat
    BY Numbers, PutNumbers DEF Inv, TagInv
  <1>2. version' \in {version, version + 1}
    BY PutsMove
  <1>3. CASE puts' = puts
    BY <1>1, <1>2, <1>3 DEF OrderInv, Sends
  <1>4. CASE Sent
    <2>1. PICK put \in Puts :
            /\ Len(puts') = Len(puts) + 1 /\ puts'[Len(puts) + 1] = put
            /\ \A m \in Sends : puts'[m] = puts[m]
            /\ put.match = tag /\ put.made = 0
      BY <1>4, SentPuts, Zenon
    <2>2. \A n \in Sends' : n \in Sends \/ n = Len(puts) + 1
      BY <1>1, <2>1 DEF Sends
    <2>3. \A n \in Sends : n \in Sends' /\ n < Len(puts) + 1
      BY <1>1, <2>1 DEF Sends
    <2>4. \A n \in Sends' : puts'[n].match <= version'
                            /\ puts'[n].made <= version'
      BY <1>1, <1>2, <2>1, <2>2 DEF OrderInv
    <2>5. ASSUME NEW n \in Sends', NEW m \in Sends', n < m,
                 puts'[m].made # 0
          PROVE  puts'[n].match < puts'[m].made
      <3>1. m \in Sends
        BY <2>1, <2>2, <2>5
      <3>2. n \in Sends
        BY <1>1, <2>2, <2>5, <3>1 DEF Sends
      <3>3. QED
        BY <2>1, <2>5, <3>1, <3>2 DEF OrderInv
    <2>6. QED
      BY <2>4, <2>5 DEF OrderInv
  <1>5. CASE GoesOn
    <2>1. /\ Sends' = Sends
          /\ \A m \in Sends :
               /\ puts'[m].match = puts[m].match
               /\ \/ puts'[m].made = puts[m].made
                  \/ version' = version + 1 /\ puts'[m].made = version'
      BY <1>5, GoneOnPuts DEF Sends
    <2>2. \A n \in Sends : puts[n].match < version + 1
      BY <1>1 DEF OrderInv
    <2>3. QED
      BY <1>1, <1>2, <2>1, <2>2 DEF OrderInv
  <1>6. QED
    BY <1>3, <1>4, <1>5, PutsMove

LEMMA OrderKept ==
  Inv /\ OrderInv /\ [Next]_vars =>
    \A n \in Sends :
      (puts[n].at = "server" /\ puts'[n].at = "accepted" /\ puts[n].match # 0)
        => \A m \in Sends : m > n => puts[m].made = 0
  <1> SUFFICES ASSUME Inv, OrderInv, [Next]_vars, NEW n \in Sends,
                      puts[n].at = "server", puts'[n].at = "accepted",
                      puts[n].match # 0,
                      NEW m \in Sends, m > n, puts[m].made # 0
               PROVE  FALSE
    OBVIOUS
  <1>1. puts[n].match = version
    BY Accepted DEF unmodifiedSince
  <1>2. puts[n].match < puts[m].made /\ puts[m].made <= version
    BY DEF OrderInv, Sends
  <1>3. version \in Nat /\ puts[m].made \in Nat
    BY Numbers, PutNumbers DEF Inv
  <1>4. QED
    BY <1>1, <1>2, <1>3

\* A save that names a version of the file is not accepted after a later one
\* of the page has been written, however many are under way and in whichever
\* order they arrive (saveFile in load-editor.js, etag.js,
\* UnmodifiedSinceHandler.java).
THEOREM SavesKeepTheirOrder == Spec => OrderOfSaves
  <1>1. Init => OrderInv
    BY Empty DEF Init, OrderInv, Sends
  <1>2. Inv /\ OrderInv /\ [Next]_vars =>
          [\A n \in Sends :
             (puts[n].at = "server" /\ puts'[n].at = "accepted"
                /\ puts[n].match # 0)
               => \A m \in Sends : m > n => puts[m].made = 0]_vars
    BY OrderKept
  <1>3. QED
    BY <1>1, <1>2, InitInv, InvStep, OrderStep, PTL DEF Spec, OrderOfSaves
-----------------------------------------------------------------------------
(* The guard of saveFile, as far as it goes: the first save sets it, and    *)
(* whatever ends a save takes it away for good.                             *)

LEMMA BusyStep ==
  Inv /\ BusyOnlyWhileSaving /\ [Next]_vars => BusyOnlyWhileSaving'
  <1> SUFFICES ASSUME Inv, BusyOnlyWhileSaving, [Next]_vars, saving' = "busy"
               PROVE  \E n \in Sends' : puts'[n].at # "over"
    BY DEF BusyOnlyWhileSaving
  <1>1. CASE puts' = puts /\ saving' = saving
    BY <1>1 DEF BusyOnlyWhileSaving, Sends
  <1>2. CASE Sent
    <2>1. PICK put \in Puts :
            /\ Len(puts') = Len(puts) + 1 /\ puts'[Len(puts) + 1] = put
            /\ put.at = "server"
      BY <1>2, SentPuts, Zenon
    <2>2. Len(puts) + 1 \in Sends'
      BY <2>1, Numbers DEF Inv, Sends
    <2>3. QED
      BY <2>1, <2>2
  <1>3. CASE GoesOn
    <2>1. saving = "busy"
      BY <1>3, GoneOnPuts
    <2>2. PICK n \in Sends : puts[n].at # "over"
      BY <2>1 DEF BusyOnlyWhileSaving
    <2>3. Sends' = Sends /\ puts'[n].at # "over"
      BY <1>3, <2>2, GoneOnPuts DEF Sends
    <2>4. QED
      BY <2>3
  <1>4. QED
    BY <1>1, <1>2, <1>3, PutsMove

\* The page refuses to save only while a save is under way: every answer, also
\* a refusal, ends it (saveFile in load-editor.js).
THEOREM RefusesOnlyWhileSaving == Spec => []BusyOnlyWhileSaving
  <1>1. Init => BusyOnlyWhileSaving
    BY DEF Init, BusyOnlyWhileSaving
  <1>2. QED
    BY <1>1, InitInv, InvStep, BusyStep, PTL DEF Spec

-----------------------------------------------------------------------------
(* The callbacks.  A number is on its way to the editor or back once at     *)
(* most, and its place is waiting until it comes back.                      *)

\* the questions, or the answers, in a queue of messages
Asks(s) == {i \in 1..Len(s) : s[i].type = "GET"}

\* what is asked for has a callback waiting in c, and no other is for it
Waits(id, c) == id \in 1..Len(c) /\ c[id] = "waits"
Free(id, s) == \A i \in Asks(s) : s[i].id # id

Awaited(s, c) ==
  /\ \A i \in Asks(s) : Waits(s[i].id, c)
  /\ \A i, j \in Asks(s) : i # j => s[i].id # s[j].id

Asked(q, p, c) ==
  Awaited(q, c) /\ Awaited(p, c) /\ \A i \in Asks(q) : Free(q[i].id, p)

AskInv == Asked(toEditor, toPage, sourceCallbacks)

LEMMA EitherWay ==
  ASSUME NEW q, NEW p, NEW c, Asked(q, p, c)
  PROVE  Asked(p, q, c)
  BY Zenon DEF Asked, Free

LEMMA NoneAsked ==
  ASSUME NEW c
  PROVE  Asked(<<>>, <<>>, c)
  <1>1. Asks(<<>>) = {}
    BY DEF Asks
  <1>2. QED
    BY <1>1 DEF Asked, Awaited

\* an entry of c that none of them is for may change
LEMMA OtherCallbacks ==
  ASSUME NEW q, NEW p, NEW c, Asked(q, p, c), NEW d, NEW id,
         Free(id, q), Free(id, p),
         \A n : Waits(n, c) => n = id \/ Waits(n, d)
  PROVE  Asked(q, p, d)
  <1>1. /\ \A i \in Asks(q) : Waits(q[i].id, d)
        /\ \A i \in Asks(p) : Waits(p[i].id, d)
    BY Zenon DEF Asked, Awaited, Free
  <1>2. QED
    BY <1>1, Zenon DEF Asked, Awaited

\* a message that is no question is added ...
LEMMA ToldMore ==
  ASSUME NEW S, NEW q \in Seq(S), NEW p, NEW c, Asked(q, p, c),
         NEW msg \in S, msg.type # "GET"
  PROVE  Asked(Append(q, msg), p, c)
  <1> DEFINE t == Append(q, msg)
  <1>1. /\ Len(t) = Len(q) + 1 /\ t[Len(q) + 1] = msg /\ Len(q) \in Nat
        /\ \A i \in 1..Len(q) : t[i] = q[i]
    BY Appended, LenProperties
  <1> HIDE DEF t
  <1>2. \A i \in Asks(t) : i \in Asks(q) /\ t[i] = q[i]
    BY <1>1 DEF Asks
  <1>3. Awaited(t, c)
    BY <1>2 DEF Asked, Awaited
  <1>4. \A i \in Asks(t) : Free(t[i].id, p)
    BY <1>2 DEF Asked
  <1>5. Asked(t, p, c)
    BY <1>3, <1>4 DEF Asked
  <1>6. QED
    BY <1>5 DEF t

\* ... or one that is
LEMMA AskedMore ==
  ASSUME NEW S, NEW q \in Seq(S), NEW p, NEW c, Asked(q, p, c),
         NEW msg \in S, Waits(msg.id, c), Free(msg.id, q), Free(msg.id, p)
  PROVE  Asked(Append(q, msg), p, c)
  <1> DEFINE t == Append(q, msg)
  <1>1. /\ Len(t) = Len(q) + 1 /\ t[Len(q) + 1] = msg /\ Len(q) \in Nat
        /\ \A i \in 1..Len(q) : t[i] = q[i]
    BY Appended, LenProperties
  <1> HIDE DEF t
  <1>2. \A i \in Asks(t) : \/ i \in Asks(q) /\ t[i] = q[i]
                           \/ i = Len(q) + 1 /\ t[i] = msg
    BY <1>1 DEF Asks
  <1>3. \A i \in Asks(t) : Waits(t[i].id, c)
    BY <1>2 DEF Asked, Awaited
  <1>4. ASSUME NEW i \in Asks(t), NEW j \in Asks(t), i # j
        PROVE  t[i].id # t[j].id
    BY <1>2, <1>4 DEF Asked, Awaited, Free
  <1>5. \A i \in Asks(t) : Free(t[i].id, p)
    BY <1>2 DEF Asked
  <1>6. Asked(t, p, c)
    BY <1>3, <1>4, <1>5 DEF Asked, Awaited
  <1>7. QED
    BY <1>6 DEF t

\* the first message is taken: nothing else is for what it is for
LEMMA AskedTaken ==
  ASSUME NEW S, NEW q \in Seq(S), NEW p, NEW c, Asked(q, p, c), q # <<>>
  PROVE  /\ Asked(Tail(q), p, c)
         /\ Head(q).type = "GET" =>
              /\ Waits(Head(q).id, c)
              /\ Free(Head(q).id, Tail(q)) /\ Free(Head(q).id, p)
  <1> DEFINE t == Tail(q)
  <1>1. /\ Len(q) \in Nat /\ Len(t) = Len(q) - 1 /\ Head(q) = q[1]
        /\ 1 \in 1..Len(q) /\ \A i \in 1..Len(t) : t[i] = q[i + 1]
    BY Taken, LenProperties
  <1> HIDE DEF t
  <1>2. /\ \A i \in Asks(t) : i \in Int /\ i + 1 \in Asks(q) /\ i + 1 # 1
                              /\ t[i] = q[i + 1]
        /\ Head(q).type = "GET" => 1 \in Asks(q)
    BY <1>1 DEF Asks
  <1>3. \A i \in Asks(t) : Waits(t[i].id, c) /\ Free(t[i].id, p)
    BY <1>2 DEF Asked, Awaited
  <1>4. ASSUME NEW i \in Asks(t), NEW j \in Asks(t), i # j
        PROVE  t[i].id # t[j].id
    <2>1. i + 1 \in Asks(q) /\ j + 1 \in Asks(q) /\ i + 1 # j + 1
      BY <1>2, <1>4
    <2>2. q[i + 1].id # q[j + 1].id
      BY <2>1 DEF Asked, Awaited
    <2>3. QED
      BY <1>2, <2>2
  <1>5. Asked(t, p, c)
    BY <1>3, <1>4 DEF Asked, Awaited
  <1>6. ASSUME Head(q).type = "GET"
        PROVE  Waits(Head(q).id, c) /\ Free(Head(q).id, t)
               /\ Free(Head(q).id, p)
    <2>1. Waits(Head(q).id, c) /\ Free(Head(q).id, p)
      BY <1>1, <1>2, <1>6 DEF Asked, Awaited
    <2>2. \A i \in Asks(t) : q[i + 1].id # q[1].id
      BY <1>2, <1>6 DEF Asked, Awaited
    <2>3. Free(Head(q).id, t)
      BY <1>1, <1>2, <2>2 DEF Free
    <2>4. QED
      BY <2>1, <2>3
  <1>7. QED
    BY <1>5, <1>6 DEF t

LEMMA AskStep == Inv /\ AskInv /\ [Next]_vars => AskInv'
  <1> SUFFICES ASSUME Inv, AskInv, [Next]_vars
               PROVE  Asked(toEditor', toPage', sourceCallbacks')
    BY DEF AskInv
  <1>0. /\ toEditor \in Seq(ToEditor) /\ toPage \in Seq(ToPage)
        /\ sourceCallbacks \in Seq(Callbacks) /\ Len(sourceCallbacks) \in Nat
        /\ Asked(toEditor, toPage, sourceCallbacks)
    BY LenProperties DEF Inv, Sorts, AskInv
  <1>1. CASE UNCHANGED <<toEditor, toPage, sourceCallbacks>>
    BY <1>0, <1>1
  <1>2. CASE toEditor' = <<>> /\ toPage' = <<>>
    BY <1>2, NoneAsked
  <1>3. CASE loaded
    <2>1. UNCHANGED <<toPage, sourceCallbacks>>
      BY <1>3 DEF loaded
    <2>2. CASE toEditor' = toEditor
      BY <1>1, <2>1, <2>2
    <2>3. CASE load.at = "ok"
      <3> DEFINE msg == [type |-> "PUT", text |-> load.text,
                         of |-> load.version]
      <3>1. msg \in ToEditor /\ msg.type # "GET"
        BY DEF Inv, Sorts, ToEditor
      <3>2. toEditor' = Append(toEditor, msg)
        BY <1>3, <2>3 DEF loaded
      <3> HIDE DEF msg
      <3>3. Asked(Append(toEditor, msg), toPage, sourceCallbacks)
        BY <1>0, <3>1, ToldMore
      <3>4. QED
        BY <2>1, <3>2, <3>3
    <2>4. QED
      BY <1>3, <2>2, <2>3 DEF loaded
  <1>4. CASE submit
    <2> DEFINE new == Len(sourceCallbacks) + 1
               msg == [type |-> "GET", id |-> new]
               later == Append(sourceCallbacks, "waits")
    <2>1. msg \in ToEditor /\ msg.id = new
      BY <1>0 DEF ToEditor
    <2>2. /\ toEditor' = Append(toEditor, msg) /\ toPage' = toPage
          /\ sourceCallbacks' = later
      BY <1>4 DEF submit
    <2>3. /\ Len(later) = new /\ later[new] = "waits"
          /\ \A i \in 1..Len(sourceCallbacks) : later[i] = sourceCallbacks[i]
      BY <1>0, Appended DEF Callbacks
    <2> HIDE DEF msg, later
    <2>4. /\ Waits(new, later)
          /\ \A id : Waits(id, sourceCallbacks) => Waits(id, later)
                                                   /\ id # new
      BY <1>0, <2>3 DEF Waits
    <2> HIDE DEF new
    <2>5. Free(new, toEditor) /\ Free(new, toPage)
      BY <1>0, <2>4, Zenon DEF Free, Asked, Awaited
    <2>6. Asked(toEditor, toPage, later)
      BY <1>0, <2>4, <2>5, OtherCallbacks
    <2>7. Asked(Append(toEditor, msg), toPage, later)
      BY <1>0, <2>1, <2>4, <2>5, <2>6, AskedMore
    <2>8. QED
      BY <2>2, <2>7
  <1>5. CASE receive
    <2> DEFINE msg == Head(toPage)
               rest == Tail(toPage)
    <2>1. toPage # <<>> /\ toPage' = rest /\ toEditor' = toEditor
      BY <1>5 DEF receive
    <2>2. Asked(toPage, toEditor, sourceCallbacks)
      BY <1>0, EitherWay
    <2>3. /\ Asked(rest, toEditor, sourceCallbacks)
          /\ msg.type = "GET" => /\ Waits(msg.id, sourceCallbacks)
                                 /\ Free(msg.id, rest) /\ Free(msg.id, toEditor)
      BY <1>0, <2>1, <2>2, AskedTaken
    <2>4. \/ sourceCallbacks' = sourceCallbacks
          \/ /\ msg.type = "GET"
             /\ sourceCallbacks' = [sourceCallbacks EXCEPT
                                      ![msg.id] = "deleted"]
      BY <1>5 DEF receive
    <2> HIDE DEF msg, rest
    <2>5. Asked(rest, toEditor, sourceCallbacks')
      <3>1. CASE sourceCallbacks' = sourceCallbacks
        BY <2>3, <3>1
      <3>2. CASE /\ msg.type = "GET"
                 /\ sourceCallbacks' = [sourceCallbacks EXCEPT
                                          ![msg.id] = "deleted"]
        <4>1. msg.id \in 1..Len(sourceCallbacks)
          BY <2>3, <3>2 DEF Waits
        <4>2. /\ Len(sourceCallbacks') = Len(sourceCallbacks)
              /\ \A i \in 1..Len(sourceCallbacks) :
                   i # msg.id => sourceCallbacks'[i] = sourceCallbacks[i]
          BY <1>0, <3>2, <4>1, OneReplaced
        <4>3. \A n : Waits(n, sourceCallbacks) =>
                       n = msg.id \/ Waits(n, sourceCallbacks')
          BY <4>2 DEF Waits
        <4>4. QED
          BY <2>3, <3>2, <4>3, OtherCallbacks
      <3>3. QED
        BY <2>4, <3>1, <3>2
    <2>6. Asked(toEditor, rest, sourceCallbacks')
      BY <2>5, EitherWay
    <2>7. QED
      BY <2>1, <2>6
  <1>6. CASE save
    <2> DEFINE msg == [type |-> "PUT", text |-> value, base |-> base]
    <2>1. msg \in ToPage /\ msg.type # "GET"
      BY DEF Inv, Sorts, ToPage
    <2>2. toPage' = Append(toPage, msg)
          /\ UNCHANGED <<toEditor, sourceCallbacks>>
      BY <1>6 DEF save
    <2> HIDE DEF msg
    <2>3. Asked(Append(toPage, msg), toEditor, sourceCallbacks)
      BY <1>0, <2>1, EitherWay, ToldMore
    <2>4. QED
      BY <2>2, <2>3, EitherWay
  <1>7. CASE handleMessage
    <2> DEFINE msg == Head(toEditor)
               rest == Tail(toEditor)
    <2>1. /\ toEditor # <<>> /\ toEditor' = rest /\ UNCHANGED sourceCallbacks
      BY <1>7 DEF handleMessage
    <2>2. /\ Asked(rest, toPage, sourceCallbacks)
          /\ msg.type = "GET" => /\ Waits(msg.id, sourceCallbacks)
                                 /\ Free(msg.id, rest) /\ Free(msg.id, toPage)
      BY <1>0, <2>1, AskedTaken
    <2>3. msg \in ToEditor
      BY <1>0, <2>1, Taken
    <2>4. \/ toPage' = toPage
          \/ /\ msg.type = "GET"
             /\ toPage' = Append(toPage, [type |-> "GET", id |-> msg.id,
                                          text |-> value, base |-> base])
      BY <1>7 DEF handleMessage, putText, getText
    <2> HIDE DEF msg, rest
    <2>5. CASE toPage' = toPage
      BY <2>1, <2>2, <2>5
    <2>6. CASE /\ msg.type = "GET"
               /\ toPage' = Append(toPage, [type |-> "GET", id |-> msg.id,
                                            text |-> value, base |-> base])
      <3> DEFINE reply == [type |-> "GET", id |-> msg.id, text |-> value,
                           base |-> base]
      <3>1. reply \in ToPage /\ reply.id = msg.id
        BY <2>3, <2>6 DEF Inv, Sorts, ToEditor, ToPage
      <3>2. toPage' = Append(toPage, reply)
        BY <2>6
      <3> HIDE DEF reply
      <3>3. Asked(toPage, rest, sourceCallbacks)
        BY <2>2, EitherWay
      <3>4. Asked(Append(toPage, reply), rest, sourceCallbacks)
        BY <1>0, <2>2, <2>6, <3>1, <3>3, AskedMore
      <3>5. QED
        BY <2>1, <3>2, <3>4, EitherWay
    <2>7. QED
      BY <2>4, <2>5, <2>6
  <1>8. CASE \/ serveLoad \/ otherWrites \/ type \/ settle \/ UNCHANGED vars
             \/ \E n \in Sends : execute(n) \/ write(n)
    BY <1>1, <1>8
    DEF serveLoad, otherWrites, type, settle, vars, execute, write
  <1>9. CASE leave \/ \E n \in Sends : complete(n)
    <2>1. \/ UNCHANGED <<toEditor, toPage, sourceCallbacks>>
          \/ toEditor' = <<>> /\ toPage' = <<>>
      BY <1>9 DEF leave, complete, beforeunload, unload, stay
    <2>2. QED
      BY <1>1, <1>2, <2>1
  <1>10. QED
    BY <1>3, <1>4, <1>5, <1>6, <1>7, <1>8, <1>9 DEF Next

\* A reply of the editor finds the callback that waits for it, however many
\* texts have been asked for (readEditorText in load-editor.js).
THEOREM RepliesFindTheirCallback == Spec => []RepliesAwaited
  <1>1. Init => AskInv
    BY NoneAsked DEF Init, AskInv
  <1>2. Inv /\ AskInv => RepliesAwaited
    <2> SUFFICES ASSUME Inv, AskInv PROVE RepliesAwaited
      OBVIOUS
    <2>1. DOMAIN toPage = 1..Len(toPage)
      BY DEF Inv, Sorts
    <2>2. QED
      BY <2>1 DEF AskInv, Asked, Awaited, Asks, Waits, RepliesAwaited
  <1>3. QED
    BY <1>1, <1>2, InitInv, InvStep, AskStep, PTL DEF Spec

-----------------------------------------------------------------------------
(* What the text editor counts as saved is on its way to the server, or     *)
(* came from there, unless a save was dropped; so a page that is left with   *)
(* nothing to warn of leaves nothing behind.                                *)

OnItsWay(t) ==
  \/ load.at = "over" /\ load.text = t
  \/ \E i \in 1..Len(toPage) : toPage[i].text = t
  \/ \E n \in Sends : puts[n].text = t

LostInv ==
  /\ Flags
  /\ editor = "text" => settling = NoTimer
  /\ \A i \in 1..Len(toEditor) :
       toEditor[i].type = "PUT" => load.at = "over"
                                   /\ toEditor[i].text = load.text
  /\ editor = "text" /\ saved # null /\ ~dropped => OnItsWay(saved)
  /\ page = "warned" => ~quiet
  /\ page = "left" /\ quiet => ~Warns

\* what a step does to the editor's messages: one that is taken becomes a
\* request, or is dropped
LEMMA ToPageMoves ==
  ASSUME Inv, Flags, [Next]_vars, ~dropped'
  PROVE  /\ ~dropped
         /\ \/ toPage' = toPage
            \/ \E msg \in ToPage : toPage' = Append(toPage, msg)
            \/ Sent
  <1>1. CASE receive
    <2>1. toPage # <<>> /\ UNCHANGED <<page, load, version>>
      BY <1>1 DEF receive, file
    <2>2. PICK c \in BOOLEAN : saveFile(Head(toPage).text, Head(toPage).base, c)
      BY <1>1 DEF receive
    <2>3. saving # "busy" /\ ~dropped
      BY <2>2 DEF saveFile
    <2>4. Len(puts') # Len(puts)
      <3>1. PICK put : puts' = Append(puts, put)
        BY <2>2, <2>3 DEF saveFile
      <3>2. puts \in Seq(Puts)
        BY DEF Inv, Sorts
      <3>3. Len(puts') = Len(puts) + 1 /\ Len(puts) \in Nat
        BY <3>1, <3>2
      <3>4. QED
        BY <3>3
    <2>5. Sent
      BY <2>4, PutsMove, GoneOnPuts
    <2>6. QED
      BY <2>3, <2>5
  <1>2. CASE handleMessage
    <2> DEFINE msg == Head(toEditor)
    <2>1. msg \in ToEditor /\ UNCHANGED dropped
      BY <1>2, Taken DEF handleMessage, Inv, Sorts, saver
    <2>2. \/ toPage' = toPage
          \/ /\ msg.type = "GET"
             /\ toPage' = Append(toPage, [type |-> "GET", id |-> msg.id,
                                          text |-> value, base |-> base])
      BY <1>2 DEF handleMessage, putText, getText
    <2>3. msg.type = "GET" =>
            [type |-> "GET", id |-> msg.id, text |-> value, base |-> base]
              \in ToPage
      BY <2>1 DEF Inv, Sorts, ToEditor, ToPage
    <2> HIDE DEF msg
    <2>4. QED
      BY <2>1, <2>2, <2>3
  <1>3. CASE save
    <2>1. [type |-> "PUT", text |-> value, base |-> base] \in ToPage
      BY DEF Inv, Sorts, ToPage
    <2>2. QED
      BY <1>3, <2>1 DEF save, saver
  <1>4. CASE leave \/ \E n \in Sends : complete(n)
    <2>1. \/ UNCHANGED <<toPage, dropped>>
          \/ toPage' = <<>> /\ dropped' = (dropped \/ toPage # <<>>)
      BY <1>4 DEF leave, complete, beforeunload, unload, stay
    <2>2. QED
      BY <2>1 DEF Flags
  <1>5. CASE \/ serveLoad \/ otherWrites \/ loaded \/ submit \/ type \/ settle
             \/ UNCHANGED vars \/ \E n \in Sends : execute(n) \/ write(n)
    BY <1>5
    DEF Flags, serveLoad, otherWrites, loaded, submit, type, settle, vars, saver,
        execute, write
  <1>6. QED
    BY <1>1, <1>2, <1>3, <1>4, <1>5 DEF Next

\* a text on its way gets to the server, unless a save is dropped
LEMMA WayKept ==
  ASSUME Inv, Flags, [Next]_vars, ~dropped', NEW t, OnItsWay(t)
  PROVE  OnItsWay(t)'
  <1>0. /\ toPage \in Seq(ToPage) /\ Len(toPage) \in Nat
        /\ Len(puts) \in Nat
    BY LenProperties DEF Inv, Sorts
  <1>1. CASE load.at = "over" /\ load.text = t
    <2>1. load' = load
      BY <1>1
      DEF Next, vars, serveLoad, otherWrites, execute, write, complete,
          loaded, submit, receive, leave, type, save, handleMessage, settle
    <2>2. QED
      BY <1>1, <2>1 DEF OnItsWay
  <1>2. ASSUME NEW n \in Sends, puts[n].text = t
        PROVE  \E m \in Sends' : puts'[m].text = t
    <2>1. CASE puts' = puts
      BY <1>2, <2>1 DEF Sends
    <2>2. CASE Sent
      <3>1. Len(puts') = Len(puts) + 1 /\ puts'[n] = puts[n]
        BY <2>2, SentPuts, Zenon
      <3>2. n \in Sends'
        BY <1>0, <3>1 DEF Sends
      <3>3. QED
        BY <1>2, <3>1, <3>2
    <2>3. CASE GoesOn
      <3>1. Len(puts') = Len(puts) /\ puts'[n].text = puts[n].text
        BY <2>3, GoneOnPuts
      <3>2. QED
        BY <1>2, <3>1 DEF Sends
    <2>4. QED
      BY <2>1, <2>2, <2>3, PutsMove
  <1>3. ASSUME NEW i \in 1..Len(toPage), toPage[i].text = t
        PROVE  OnItsWay(t)'
    <2>1. CASE toPage' = toPage
      BY <1>3, <2>1 DEF OnItsWay
    <2>2. ASSUME NEW msg \in ToPage, toPage' = Append(toPage, msg)
          PROVE  OnItsWay(t)'
      <3>1. Len(toPage') = Len(toPage) + 1 /\ toPage'[i] = toPage[i]
        BY <1>0, <2>2, Appended
      <3>2. i \in 1..Len(toPage')
        BY <1>0, <3>1
      <3>3. QED
        BY <1>3, <3>1, <3>2 DEF OnItsWay
    <2>3. CASE Sent
      <3>1. PICK put \in Puts :
              /\ Len(puts') = Len(puts) + 1 /\ puts'[Len(puts) + 1] = put
              /\ toPage # <<>> /\ toPage' = Tail(toPage)
              /\ put.text = Head(toPage).text
        BY <2>3, SentPuts, Zenon
      <3>2. /\ Head(toPage) = toPage[1] /\ Len(toPage') = Len(toPage) - 1
            /\ \A k \in 1..Len(toPage') : toPage'[k] = toPage[k + 1]
        BY <1>0, <3>1, Taken
      <3>3. CASE i = 1
        <4>1. Len(puts) + 1 \in Sends' /\ puts'[Len(puts) + 1].text = t
          BY <1>0, <1>3, <3>1, <3>2, <3>3 DEF Sends
        <4>2. QED
          BY <4>1 DEF OnItsWay
      <3>4. CASE i # 1
        <4>1. i - 1 \in 1..Len(toPage') /\ (i - 1) + 1 = i
          BY <1>0, <3>2, <3>4
        <4>2. toPage'[i - 1].text = t
          BY <1>3, <3>2, <4>1
        <4>3. QED
          BY <4>1, <4>2 DEF OnItsWay
      <3>5. QED
        BY <3>3, <3>4
    <2>4. QED
      BY <2>1, <2>2, <2>3, ToPageMoves
  <1>4. QED
    BY <1>1, <1>2, <1>3 DEF OnItsWay

\* what the text editor records is what it hands over, or was given
LEMMA RecordedStep ==
  ASSUME Inv, LostInv, [Next]_vars, editor = "text"
  PROVE  saved' = saved \/ OnItsWay(saved)'
  <1>0. toPage \in Seq(ToPage) /\ Len(toPage) \in Nat
    BY LenProperties DEF Inv, Sorts
  <1>1. ASSUME NEW msg \in ToPage, toPage' = Append(toPage, msg),
               saved' = msg.text
        PROVE  OnItsWay(saved)'
    <2>1. Len(toPage') = Len(toPage) + 1 /\ toPage'[Len(toPage) + 1] = msg
      BY <1>0, <1>1, Appended
    <2>2. Len(toPage) + 1 \in 1..Len(toPage')
      BY <1>0, <2>1
    <2>3. QED
      BY <1>1, <2>1, <2>2 DEF OnItsWay
  <1>2. CASE save
    <2> DEFINE msg == [type |-> "PUT", text |-> value, base |-> base]
    <2>1. msg \in ToPage /\ msg.text = value
      BY DEF Inv, Sorts, ToPage
    <2>2. saved' = value /\ toPage' = Append(toPage, msg)
      BY <1>2 DEF save
    <2> HIDE DEF msg
    <2>3. QED
      BY <1>1, <2>1, <2>2
  <1>3. CASE handleMessage
    <2> DEFINE msg == Head(toEditor)
               reply == [type |-> "GET", id |-> msg.id, text |-> value,
                         base |-> base]
    <2>1. /\ msg \in ToEditor /\ msg = toEditor[1] /\ 1 \in 1..Len(toEditor)
          /\ UNCHANGED load
      BY <1>3, Taken DEF handleMessage, Inv, Sorts
    <2>2. \/ msg.type = "PUT" /\ (saved' = saved \/ saved' = msg.text)
          \/ /\ msg.type = "GET" /\ saved' = value
             /\ toPage' = Append(toPage, reply)
      BY <1>3 DEF handleMessage, putText, getText
    <2>3. msg.type = "GET" => reply \in ToPage /\ reply.text = value
      BY <2>1 DEF Inv, Sorts, ToEditor, ToPage
    <2> HIDE DEF msg, reply
    <2>4. msg.type = "PUT" => load.at = "over" /\ load.text = msg.text
      BY <2>1 DEF LostInv
    <2>5. QED
      BY <1>1, <2>1, <2>2, <2>3, <2>4 DEF OnItsWay
  <1>4. CASE settle
    BY <1>4 DEF settle, LostInv
  <1>5. CASE \/ serveLoad \/ otherWrites \/ loaded \/ submit \/ type \/ receive
             \/ leave \/ UNCHANGED vars
             \/ \E n \in Sends : execute(n) \/ write(n) \/ complete(n)
    BY <1>5
    DEF serveLoad, otherWrites, loaded, submit, type, receive, leave, vars,
        execute, write, complete, editing, pane
  <1>6. QED
    BY <1>2, <1>3, <1>4, <1>5 DEF Next

\* the text that the editor is given is the one that was loaded
LEMMA GivenStep ==
  ASSUME Inv, LostInv, [Next]_vars
  PROVE  \A i \in 1..Len(toEditor') :
           toEditor'[i].type = "PUT" => load'.at = "over"
                                        /\ toEditor'[i].text = load'.text
  <1>0. toEditor \in Seq(ToEditor) /\ Len(toEditor) \in Nat
    BY LenProperties DEF Inv, Sorts
  <1>1. load.at = "over" => load' = load
    BY DEF Next, vars, serveLoad, otherWrites, execute, write, complete,
           loaded, submit, receive, leave, type, save, handleMessage, settle
  <1>2. CASE toEditor' = toEditor
    BY <1>1, <1>2 DEF LostInv
  <1>3. CASE toEditor' = <<>>
    BY <1>3
  <1>4. ASSUME NEW msg \in ToEditor, toEditor' = Append(toEditor, msg),
               msg.type = "PUT" => load'.at = "over" /\ msg.text = load'.text,
               NEW i \in 1..Len(toEditor'), toEditor'[i].type = "PUT"
        PROVE  load'.at = "over" /\ toEditor'[i].text = load'.text
    <2>1. /\ Len(toEditor') = Len(toEditor) + 1
          /\ toEditor'[Len(toEditor) + 1] = msg
          /\ \A k \in 1..Len(toEditor) : toEditor'[k] = toEditor[k]
      BY <1>0, <1>4, Appended
    <2>2. CASE i = Len(toEditor) + 1
      BY <1>4, <2>1, <2>2
    <2>3. CASE i # Len(toEditor) + 1
      <3>1. i \in 1..Len(toEditor)
        BY <1>0, <2>1, <2>3
      <3>2. QED
        BY <1>1, <1>4, <2>1, <3>1 DEF LostInv
    <2>4. QED
      BY <2>2, <2>3
  <1>5. CASE loaded
    <2> DEFINE msg == [type |-> "PUT", text |-> load.text,
                       of |-> load.version]
    <2>1. msg \in ToEditor /\ msg.text = load.text
      BY DEF Inv, Sorts, ToEditor
    <2>2. load'.at = "over" /\ load'.text = load.text
      BY <1>5 DEF loaded, Inv, Sorts
    <2>3. toEditor' = toEditor \/ toEditor' = Append(toEditor, msg)
      BY <1>5 DEF loaded
    <2> HIDE DEF msg
    <2>4. QED
      BY <1>2, <1>4, <2>1, <2>2, <2>3
  <1>6. CASE submit
    <2> DEFINE msg == [type |-> "GET", id |-> Len(sourceCallbacks) + 1]
    <2>1. msg \in ToEditor /\ msg.type # "PUT"
      BY LenProperties DEF Inv, Sorts, ToEditor
    <2>2. toEditor' = Append(toEditor, msg)
      BY <1>6 DEF submit
    <2> HIDE DEF msg
    <2>3. QED
      BY <1>4, <2>1, <2>2
  <1>7. CASE handleMessage
    <2>1. toEditor # <<>> /\ toEditor' = Tail(toEditor)
      BY <1>7 DEF handleMessage
    <2>2. /\ Len(toEditor') = Len(toEditor) - 1
          /\ \A i \in 1..Len(toEditor') : toEditor'[i] = toEditor[i + 1]
      BY <1>0, <2>1, Taken
    <2>3. \A i \in 1..Len(toEditor') : i + 1 \in 1..Len(toEditor)
      BY <1>0, <2>2
    <2>4. QED
      BY <1>1, <2>2, <2>3 DEF LostInv
  <1>8. CASE leave \/ \E n \in Sends : complete(n)
    <2>1. toEditor' = toEditor \/ toEditor' = <<>>
      BY <1>8 DEF leave, complete, beforeunload, unload, stay
    <2>2. QED
      BY <1>2, <1>3, <2>1
  <1>9. CASE \/ serveLoad \/ otherWrites \/ receive \/ type \/ save \/ settle
             \/ UNCHANGED vars \/ \E n \in Sends : execute(n) \/ write(n)
    BY <1>2, <1>9
    DEF serveLoad, otherWrites, receive, type, save, settle, vars,
        execute, write
  <1>10. QED
    BY <1>5, <1>6, <1>7, <1>8, <1>9 DEF Next

\* the page is left as its editor was found
LEMMA LeftStep ==
  ASSUME Inv, LostInv, [Next]_vars
  PROVE  /\ page' = "warned" => ~quiet'
         /\ page' = "left" /\ quiet' => ~Warns'
  <1>1. CASE leave \/ \E n \in Sends : complete(n)
    <2>1. Warns' = Warns
      BY <1>1 DEF leave, complete, pane, Warns
    <2>2. \/ Warns /\ ~quiet' /\ page' = "warned"
          \/ ~Warns /\ page' = "left"
          \/ page = "open" /\ UNCHANGED <<page, quiet>>
          \/ page = "warned" /\ UNCHANGED quiet /\ page' \in {"open", "left"}
      BY <1>1 DEF leave, complete, beforeunload, unload
    <2>3. page' = "left" => page = "warned" \/ ~Warns'
      BY <2>1, <2>2
    <2>4. page' = "warned" => ~quiet'
      BY <2>2
    <2>5. QED
      BY <2>1, <2>2, <2>3, <2>4 DEF LostInv
  <1>2. CASE \/ serveLoad \/ otherWrites \/ UNCHANGED vars
             \/ \E n \in Sends : execute(n) \/ write(n)
    <2>1. UNCHANGED <<page, quiet, editor, value, saved>>
      BY <1>2
      DEF serveLoad, otherWrites, vars, execute, write, editing, pane
    <2>2. QED
      BY <2>1 DEF LostInv, Warns
  <1>3. CASE \/ loaded \/ submit \/ receive \/ type \/ save \/ handleMessage
             \/ settle
    <2>1. page = "open" /\ UNCHANGED page
      BY <1>3
      DEF loaded, submit, receive, type, save, handleMessage, settle
    <2>2. QED
      BY <2>1
  <1>4. QED
    BY <1>1, <1>2, <1>3 DEF Next

LEMMA LostStep == Inv /\ LostInv /\ [Next]_vars => LostInv'
  <1> SUFFICES ASSUME Inv, LostInv, [Next]_vars PROVE LostInv'
    OBVIOUS
  <1>0. Flags'
    BY FlagsStep DEF LostInv
  <1>1. editor' = editor
    BY DEF Next, vars, editing, pane, serveLoad, otherWrites, execute, write,
           complete, loaded, submit, receive, leave, type, save,
           handleMessage, settle
  <1>2. editor = "text" => settling' = NoTimer
    BY DEF Next, vars, editing, serveLoad, otherWrites, execute, write,
           complete, loaded, submit, receive, leave, type, save,
           handleMessage, settle, beforeunload, unload, stay, putText,
           getText, LostInv
  <1>3. ASSUME editor = "text", saved' # null, ~dropped'
        PROVE  OnItsWay(saved)'
    <2>1. CASE saved' = saved
      <3>1. OnItsWay(saved)
        BY <1>3, <2>1, ToPageMoves, Zenon DEF LostInv
      <3>2. \A t : OnItsWay(t) => OnItsWay(t)'
        BY <1>3, WayKept DEF LostInv
      <3>3. QED
        BY <2>1, <3>1, <3>2 DEF OnItsWay
    <2>2. QED
      BY <1>3, <2>1, RecordedStep
  <1>4. QED
    BY <1>0, <1>1, <1>2, <1>3, GivenStep, LeftStep DEF LostInv, NoTimer

\* A page that was left without a warning leaves nothing that was not saved,
\* as long as every save it asked for was sent and written (text-editor.js).
THEOREM LeavesNothingUnsaved == Spec => []NothingLost
  <1>1. Init => LostInv
    <2>1. Len(<<>>) = 0
      BY Empty
    <2>2. Init => \A i \in 1..Len(toEditor) : FALSE
      BY <2>1 DEF Init
    <2>3. QED
      BY <2>2 DEF Init, LostInv, Flags
  <1>2. Inv /\ LostInv => NothingLost
    <2> SUFFICES ASSUME Inv, LostInv, page = "left", quiet, editor = "text",
                        HandedOver
                 PROVE  IsSaved
      BY DEF NothingLost
    <2>1. value = saved /\ value \in Nat
      BY SessionAssumption DEF LostInv, Warns, Inv, Sorts, SessionAssumption
    <2>2. OnItsWay(saved) /\ toPage = <<>> /\ Len(<<>>) = 0
      BY <2>1, Empty DEF LostInv, HandedOver, null
    <2>3. QED
      BY <2>1, <2>2 DEF OnItsWay, HandedOver, IsSaved
  <1>3. QED
    BY <1>1, <1>2, InitInv, InvStep, LostStep, PTL DEF Spec
=============================================================================
