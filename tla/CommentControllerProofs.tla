------------------------ MODULE CommentControllerProofs ------------------------
(***************************************************************************)
(* What holds of the editor's comments for any number of documents,        *)
(* versions and failures.  The proofs go from types, to messages (what     *)
(* looks the same is the same), to versions (a version shown has the       *)
(* messages it had in the store), to passes (what a pass is about is what  *)
(* there was when it was last asked for).                                  *)
(***************************************************************************)
EXTENDS CommentController, SequenceTheorems, WellFoundedInduction, TLAPS

Message == [id : Nat, stamp : Nat, author : {"user", "agent"}]

Thread == [stamp : Nat, messages : Seq(Message), state : {"open", "resolved"},
           active : BOOLEAN, at : SUBSET Document]

Comment == [message : Message, seen : Nat, editing : BOOLEAN, editable : BOOLEAN]

View == [seen : Nat, state : {"open", "resolved"}, writable : BOOLEAN, comments : Seq(Comment)]

Steps == {"none", "finding", "sent", "stored", "refreshing"}

Kinds == {"none", "create", "reply", "save", "delete", "open", "resolved"}

CommandRecord ==
    [kind : Kinds, step : Steps, id : Nat, expected : Nat, basis : Seq(Message)]

TypeOK ==
    /\ stored \in Thread
    /\ announced \in BOOLEAN
    /\ open \subseteq Document
    /\ shown \in [Document -> View]
    /\ requested \in BOOLEAN
    /\ worker \in {"idle", "reading", "showing", "through"}
    /\ pass \in [documents : SUBSET Document, thread : Thread]
    /\ command \in CommandRecord
    /\ command.step \in {"finding", "sent"} => command.kind # "none"
    /\ disposed \in BOOLEAN
    /\ missed \in BOOLEAN
    /\ failures \in Nat

(* The messages in the store, in the pass under way and in the editor.     *)
MessagesOf(view) == [i \in DOMAIN view.comments |-> view.comments[i].message]

Texts ==
    Range(stored.messages) \cup Range(pass.thread.messages)
    \cup (UNION {Range(MessagesOf(shown[d])) : d \in Document})

(* Those of one id are of one author, and those of one stamp of one id: a  *)
(* signature tells messages apart.                                         *)
TextsAreTold ==
    /\ \A m \in Texts : m.id <= stored.stamp /\ m.stamp <= stored.stamp
    /\ \A m, n \in Texts : m.id = n.id => m.author = n.author
    /\ \A m, n \in Texts : m.stamp = n.stamp => m.id = n.id

(* The current version has the current messages, wherever it is kept.      *)
VersionsAreTold ==
    /\ stored.stamp = 0 => stored.messages = <<>>
    /\ pass.thread.stamp <= stored.stamp
    /\ pass.thread.stamp = stored.stamp => pass.thread.messages = stored.messages
    /\ \A d \in Document :
          /\ shown[d].seen <= stored.stamp
          /\ shown[d].seen = stored.stamp => Basis(d) = stored.messages
    /\ command.step = "sent" =>
          /\ command.expected <= stored.stamp
          /\ command.expected = stored.stamp => command.basis = stored.messages

(* The comments of a document are of the version it shows, and writable as *)
(* it is.                                                                  *)
Whole(view) ==
    \A i \in DOMAIN view.comments :
        /\ view.comments[i].seen = view.seen
        /\ view.comments[i].editable
              <=> (view.writable /\ view.comments[i].message.author = "user")

ViewsAreWhole == \A d \in Document : Whole(shown[d])

(* A command that waits for a refresh has one coming that shows its        *)
(* result.                                                                 *)
Shows(d, stamp) == shown[d] = Nothing \/ shown[d].seen >= stamp

CommandIsFollowed ==
    /\ command.step \in {"stored", "refreshing"} => command.expected <= stored.stamp
    /\ command.step = "refreshing" =>
          \/ disposed \/ requested \/ worker = "reading"
          \/ worker = "showing" /\ (pass.thread = Unread \/ pass.thread.stamp >= command.expected)
          \/ worker = "through" /\ \A d \in Document : Shows(d, command.expected)

(* What a pass is about is what there is, unless another one was asked     *)
(* for, or a failure has been missed.                                      *)
PassIsCurrent ==
    /\ worker = "reading" => pass.thread = Unread
    /\ requested => worker # "idle" /\ ~disposed
    /\ disposed => \A d \in Document : shown[d] = Nothing
    /\ worker \in {"reading", "showing"} /\ ~requested /\ ~disposed => pass.documents = open
    /\ ~disposed /\ announced /\ ~missed /\ ~requested =>
          /\ worker = "showing" => pass.thread = stored
          /\ worker \in {"through", "idle"} => \A d \in Document : Faithful(d)

Inv ==
    /\ TypeOK /\ TextsAreTold /\ VersionsAreTold /\ ViewsAreWhole
    /\ CommandIsFollowed /\ PassIsCurrent

-----------------------------------------------------------------------------
(* Sequences.                                                              *)

LEMMA SetInduction ==
    ASSUME NEW S, S \subseteq Nat, 0 \in S, \A n \in S : n + 1 \in S
    PROVE  S = Nat
<1> DEFINE T == Nat \ S
<1>1. ASSUME T # {} PROVE FALSE
  <2>1. PICK x \in T : \A y \in T : ~(<<y, x>> \in OpToRel(<, Nat))
    <3>1. T \subseteq Nat
      OBVIOUS
    <3> HIDE DEF T
    <3> QED BY <1>1, <3>1, NatLessThanWellFounded, WFMin
  <2>2. x \in Nat /\ x # 0 /\ x - 1 \in Nat /\ x - 1 \notin S
    OBVIOUS
  <2>3. <<x - 1, x>> \in OpToRel(<, Nat)
    BY <2>2 DEF OpToRel
  <2> QED BY <2>1, <2>2, <2>3
<1> QED BY <1>1

LEMMA FunctionIsSeq ==
    ASSUME NEW S, NEW n \in Nat, NEW f \in [1 .. n -> S]
    PROVE  f \in Seq(S) /\ Len(f) = n
<1>1. f \in Seq(S)
  BY SeqDef
<1>2. DOMAIN f = 1 .. Len(f) /\ Len(f) \in Nat
  BY <1>1, LenProperties
<1> QED BY <1>1, <1>2

LEMMA SameSeq ==
    ASSUME NEW S, NEW s \in Seq(S), NEW t \in Seq(S), DOMAIN s = DOMAIN t,
           \A i \in DOMAIN s : s[i] = t[i]
    PROVE  s = t
  BY SeqEqual, LenProperties

(* What a filter leaves is a sequence of what was there.                   *)
LEMMA WithoutIsFilter ==
    ASSUME NEW S, NEW s \in Seq(S), NEW id
    PROVE  Without(s, id) \in Seq(S) /\ Range(Without(s, id)) \subseteq Range(s)
<1> DEFINE Value(g, n) == IF n = 0 THEN <<>>
                          ELSE IF s[n].id = id THEN g[n - 1] ELSE Append(g[n - 1], s[n])
           Filter(g, k) == g = [n \in 0 .. k |-> Value(g, n)]
           Exists == {k \in Nat : \E g : Filter(g, k)}
<1>1. Exists = Nat
  <2>1. 0 \in Exists
    <3> DEFINE g == [n \in 0 .. 0 |-> <<>>]
    <3>1. g = [n \in 0 .. 0 |-> Value(g, n)]
      OBVIOUS
    <3> HIDE DEF Value, g
    <3> QED BY <3>1
  <2>2. ASSUME NEW k \in Exists PROVE k + 1 \in Exists
    <3>1. PICK g : Filter(g, k)
      OBVIOUS
    <3>2. k \in Nat
      OBVIOUS
    <3> DEFINE h == [n \in 0 .. k + 1 |-> IF n = k + 1 THEN Value(g, k + 1) ELSE g[n]]
    <3>3. ASSUME NEW n \in 0 .. k + 1 PROVE h[n] = Value(h, n)
      <4>1. CASE n = k + 1
        <5>1. h[n - 1] = g[n - 1] /\ n # 0
          BY <3>2, <4>1
        <5> HIDE DEF h
        <5>2. h[n] = Value(g, n)
          BY <3>2, <4>1 DEF h
        <5> QED BY <5>1, <5>2
      <4>2. CASE n # k + 1
        <5>1. n \in 0 .. k
          BY <3>2, <4>2
        <5>2. h[n] = Value(g, n)
          <6>1. h[n] = g[n]
            BY <4>2
          <6>2. g[n] = Value(g, n)
            <7> HIDE DEF Value
            <7> QED BY <3>1, <5>1
          <6> QED BY <6>1, <6>2
        <5>3. CASE n = 0
          BY <5>2, <5>3
        <5>4. CASE n # 0
          <6>1. n - 1 \in 0 .. k + 1 /\ n - 1 # k + 1
            BY <3>2, <5>1, <5>4
          <6>2. h[n - 1] = g[n - 1]
            BY <6>1
          <6> HIDE DEF h
          <6> QED BY <5>2, <6>2
        <5> QED BY <5>3, <5>4
      <4> QED BY <4>1, <4>2
    <3>4. h = [n \in 0 .. k + 1 |-> Value(h, n)]
      <4> HIDE DEF Value
      <4> QED BY <3>3
    <3> HIDE DEF h, Value
    <3> QED BY <3>2, <3>4
  <2> HIDE DEF Exists
  <2>3. Exists \subseteq Nat
    BY DEF Exists
  <2> QED BY <2>1, <2>2, <2>3, SetInduction
<1>2. Len(s) \in Nat /\ DOMAIN s = 1 .. Len(s)
  BY LenProperties
<1> DEFINE kept == CHOOSE g : Filter(g, Len(s))
<1>3. Filter(kept, Len(s))
  <2> HIDE DEF Filter
  <2> QED BY <1>1, <1>2
<1>4. Without(s, id) = kept[Len(s)]
  BY DEF Without
<1> HIDE DEF kept
<1>5. \A n \in 0 .. Len(s) : kept[n] = Value(kept, n)
  <2> HIDE DEF Value
  <2> QED BY <1>3
<1> DEFINE Good(k) == kept[k] \in Seq(S) /\ Range(kept[k]) \subseteq Range(s)
           Below == {k \in Nat : k <= Len(s) => Good(k)}
<1>6. Below = Nat
  <2>1. 0 \in Below
    <3>1. kept[0] = <<>>
      BY <1>2, <1>5
    <3>2. Range(<<>>) = {}
      BY DEF Range
    <3>3. <<>> \in Seq(S)
      OBVIOUS
    <3>4. Good(0)
      <4> HIDE DEF Value
      <4> QED BY <3>1, <3>2, <3>3
    <3> QED BY <3>4
  <2>2. ASSUME NEW k \in Below PROVE k + 1 \in Below
    <3>1. SUFFICES ASSUME k + 1 <= Len(s) PROVE Good(k + 1)
      OBVIOUS
    <3>2. k \in Nat /\ Good(k) /\ k + 1 \in 1 .. Len(s)
      BY <1>2, <3>1
    <3>3. kept[k + 1] = kept[k] \/ kept[k + 1] = Append(kept[k], s[k + 1])
      <4>1. k + 1 \in 0 .. Len(s) /\ k + 1 # 0 /\ k + 1 - 1 = k
        BY <1>2, <3>2
      <4>2. kept[k + 1] = Value(kept, k + 1)
        <5> HIDE DEF Value
        <5> QED BY <1>5, <4>1
      <4>3. Value(kept, k + 1) = kept[k] \/ Value(kept, k + 1) = Append(kept[k], s[k + 1])
        BY <4>1
      <4> HIDE DEF Value
      <4> QED BY <4>2, <4>3
    <3>4. s[k + 1] \in S /\ s[k + 1] \in Range(s)
      BY <1>2, <3>2, ElementOfSeq DEF Range
    <3>5. ASSUME NEW t \in Seq(S), Range(t) \subseteq Range(s)
          PROVE  Append(t, s[k + 1]) \in Seq(S) /\ Range(Append(t, s[k + 1])) \subseteq Range(s)
      <4>1. /\ Append(t, s[k + 1]) \in Seq(S)
            /\ Len(Append(t, s[k + 1])) = Len(t) + 1
            /\ \A i \in 1 .. Len(t) : Append(t, s[k + 1])[i] = t[i]
            /\ Append(t, s[k + 1])[Len(t) + 1] = s[k + 1]
        BY <3>4, AppendProperties
      <4>2. DOMAIN Append(t, s[k + 1]) = 1 .. Len(t) + 1 /\ DOMAIN t = 1 .. Len(t) /\ Len(t) \in Nat
        BY <4>1, LenProperties
      <4> QED BY <3>4, <3>5, <4>1, <4>2 DEF Range
    <3> QED BY <3>2, <3>3, <3>5
  <2> HIDE DEF Below
  <2>3. Below \subseteq Nat
    BY DEF Below
  <2> QED BY <2>1, <2>2, <2>3, SetInduction
<1> QED BY <1>2, <1>4, <1>6

-----------------------------------------------------------------------------
(* Rendering.                                                              *)

(* The thread as it was read, whatever the comments it is shown in.        *)
Stands(d, t, view) ==
    /\ view.seen = t.stamp /\ view.state = t.state /\ view.writable = Writable(d, t)
    /\ SameMessages(view.comments, Rendered(d, t))

LEMMA NothingIsAView ==
    /\ NoThread.messages = <<>> /\ Unread.messages = <<>>
    /\ NoThread.stamp = 0 /\ Unread.stamp = 0
    /\ Nothing \in View /\ Unread \in Thread /\ Whole(Nothing)
    /\ Nothing.seen = 0 /\ Nothing.comments = <<>> /\ MessagesOf(Nothing) = <<>>
    /\ Places(Unread) = {}
<1>1. /\ NoThread.messages = <<>> /\ Unread.messages = <<>>
      /\ NoThread.stamp = 0 /\ Unread.stamp = 0
      /\ Unread \in Thread
  BY EmptySeq DEF NoThread, Unread, Thread
<1>2. Nothing \in View /\ Nothing.seen = 0 /\ Nothing.comments = <<>>
  BY EmptySeq DEF Nothing, View
<1>3. DOMAIN Nothing.comments = {}
  BY <1>2
<1>4. MessagesOf(Nothing) = <<>>
  <2>1. MessagesOf(Nothing) \in [1 .. 0 -> Message]
    BY <1>3 DEF MessagesOf
  <2>2. MessagesOf(Nothing) \in Seq(Message) /\ Len(MessagesOf(Nothing)) = 0
    BY <2>1, FunctionIsSeq
  <2> QED BY <2>2, EmptySeq
<1>5. Whole(Nothing)
  BY <1>3 DEF Whole
<1>6. Places(Unread) = {}
  BY <1>1 DEF Places
<1> QED BY <1>1, <1>2, <1>4, <1>5, <1>6

LEMMA MessagesAreMessages ==
    ASSUME NEW view \in View
    PROVE  /\ view.comments \in Seq(Comment)
           /\ DOMAIN MessagesOf(view) = DOMAIN view.comments
           /\ MessagesOf(view) \in Seq(Message)
           /\ \A i \in DOMAIN view.comments :
                 view.comments[i] \in Comment /\ MessagesOf(view)[i] = view.comments[i].message
<1>1. view.comments \in Seq(Comment)
  BY DEF View
<1>2. DOMAIN view.comments = 1 .. Len(view.comments) /\ Len(view.comments) \in Nat
  BY <1>1, LenProperties
<1>3. \A i \in DOMAIN view.comments : view.comments[i] \in Comment
  BY <1>1, <1>2, ElementOfSeq
<1>4. MessagesOf(view) \in [1 .. Len(view.comments) -> Message]
  BY <1>2, <1>3 DEF MessagesOf, Comment
<1> QED BY <1>1, <1>2, <1>3, <1>4, FunctionIsSeq DEF MessagesOf

LEMMA WritableIsTyped ==
    ASSUME NEW t \in Thread, NEW d PROVE Writable(d, t) \in BOOLEAN
  BY DEF Writable, Thread

LEMMA RenderedIsWhole ==
    ASSUME NEW t \in Thread, NEW d
    PROVE  /\ Rendered(d, t) \in Seq(Comment)
           /\ DOMAIN Rendered(d, t) = DOMAIN t.messages
           /\ \A i \in DOMAIN t.messages :
                 /\ Rendered(d, t)[i].message = t.messages[i]
                 /\ Rendered(d, t)[i].seen = t.stamp
                 /\ Rendered(d, t)[i].editable
                       = (Writable(d, t) /\ t.messages[i].author = "user")
<1>1. t.messages \in Seq(Message) /\ t.stamp \in Nat
  BY DEF Thread
<1>2. DOMAIN t.messages = 1 .. Len(t.messages) /\ Len(t.messages) \in Nat
  BY <1>1, LenProperties
<1>3. \A i \in DOMAIN t.messages : t.messages[i] \in Message
  BY <1>1, <1>2, ElementOfSeq
<1>4. Rendered(d, t) \in [1 .. Len(t.messages) -> Comment]
  BY <1>1, <1>2, <1>3, WritableIsTyped DEF Rendered, Comment
<1>5. Rendered(d, t) \in Seq(Comment)
  BY <1>2, <1>4, FunctionIsSeq
<1>6. DOMAIN Rendered(d, t) = DOMAIN t.messages
  BY DEF Rendered
<1>7. ASSUME NEW i \in DOMAIN t.messages
      PROVE  /\ Rendered(d, t)[i].message = t.messages[i]
             /\ Rendered(d, t)[i].seen = t.stamp
             /\ Rendered(d, t)[i].editable
                   = (Writable(d, t) /\ t.messages[i].author = "user")
  BY DEF Rendered
<1> QED BY <1>5, <1>6, <1>7

(* A thread that is made shows what was read.                              *)
LEMMA EntryStands ==
    ASSUME NEW t \in Thread, NEW d
    PROVE  LET view == Entry(d, t, Rendered(d, t))
           IN  view \in View /\ Whole(view) /\ Stands(d, t, view) /\ MessagesOf(view) = t.messages
<1> DEFINE view == Entry(d, t, Rendered(d, t))
<1>1. /\ view.seen = t.stamp /\ view.state = t.state /\ view.writable = Writable(d, t)
      /\ view.comments = Rendered(d, t)
  BY DEF Entry
<1>2. view \in View
  BY RenderedIsWhole, WritableIsTyped DEF Entry, View, Thread
<1> HIDE DEF view
<1>3. Whole(view)
  <2>1. ASSUME NEW i \in DOMAIN view.comments
        PROVE  /\ view.comments[i].seen = view.seen
               /\ view.comments[i].editable
                     = (view.writable /\ view.comments[i].message.author = "user")
    BY <1>1, RenderedIsWhole
  <2> QED BY <2>1 DEF Whole
<1>4. Stands(d, t, view)
  BY <1>1 DEF Stands, SameMessages
<1>5. MessagesOf(view) = t.messages
  <2>1. t.messages \in Seq(Message)
    BY DEF Thread
  <2>2. MessagesOf(view) \in Seq(Message) /\ DOMAIN MessagesOf(view) = DOMAIN t.messages
    BY <1>1, <1>2, MessagesAreMessages, RenderedIsWhole
  <2>3. \A i \in DOMAIN t.messages : MessagesOf(view)[i] = t.messages[i]
    BY <1>1, <1>2, <2>2, MessagesAreMessages, RenderedIsWhole
  <2> QED BY <2>1, <2>2, <2>3, SameSeq
<1> QED BY <1>2, <1>3, <1>4, <1>5 DEF view

(* Comments of the same signature look the same one by one.                *)
LEMMA SignaturesTell ==
    ASSUME NEW cs, NEW others, SameMessages(cs, others)
    PROVE  /\ DOMAIN cs = DOMAIN others
           /\ \A i \in DOMAIN cs :
                 /\ cs[i].message.stamp = others[i].message.stamp
                 /\ cs[i].message.author = others[i].message.author
                 /\ cs[i].editable = others[i].editable
<1>1. DOMAIN Signature(cs) = DOMAIN cs /\ DOMAIN Signature(others) = DOMAIN others
  BY DEF Signature
<1>2. Signature(cs) = Signature(others)
  BY DEF SameMessages
<1>3. DOMAIN cs = DOMAIN others
  BY <1>1, <1>2
<1>4. ASSUME NEW i \in DOMAIN cs
      PROVE  /\ cs[i].message.stamp = others[i].message.stamp
             /\ cs[i].message.author = others[i].message.author
             /\ cs[i].editable = others[i].editable
  <2>1. Signature(cs)[i] = <<cs[i].message.stamp, cs[i].message.author, cs[i].editable>>
    BY DEF Signature
  <2>2. Signature(others)[i]
          = <<others[i].message.stamp, others[i].message.author, others[i].editable>>
    BY <1>3 DEF Signature
  <2> QED BY <1>2, <2>1, <2>2
<1> QED BY <1>3, <1>4

LEMMA SignaturesAgree ==
    ASSUME NEW cs, NEW others, DOMAIN cs = DOMAIN others,
           \A i \in DOMAIN cs :
                 /\ cs[i].message = others[i].message
                 /\ cs[i].editable = others[i].editable
    PROVE  Signature(cs) = Signature(others)
  BY DEF Signature

(* A thread that is updated shows what was read, and stays whole.          *)
LEMMA UpdatedStands ==
    ASSUME NEW t \in Thread, NEW d, NEW entry \in View, Whole(entry)
    PROVE  LET view == UpdatedEntry(d, t, entry)
           IN  /\ view \in View /\ Whole(view) /\ Stands(d, t, view)
               /\ MessagesOf(view) \in {t.messages, MessagesOf(entry)}
<1> DEFINE fresh == Rendered(d, t)
           kept == [i \in DOMAIN fresh |-> [entry.comments[i] EXCEPT !.seen = t.stamp]]
           view == UpdatedEntry(d, t, entry)
<1>1. CASE ~SameMessages(entry.comments, fresh)
  <2>1. view = Entry(d, t, fresh)
    BY <1>1 DEF UpdatedEntry
  <2> QED BY <2>1, EntryStands
<1>2. CASE SameMessages(entry.comments, fresh)
  <2>1. view = Entry(d, t, kept)
    BY <1>2 DEF UpdatedEntry
  <2>2. entry.comments \in Seq(Comment)
    BY DEF View
  <2>3. /\ fresh \in Seq(Comment) /\ DOMAIN fresh = DOMAIN entry.comments
        /\ DOMAIN fresh = 1 .. Len(fresh) /\ Len(fresh) \in Nat
    BY <1>2, RenderedIsWhole, SignaturesTell, LenProperties
  <2>4. \A i \in DOMAIN fresh : entry.comments[i] \in Comment
    BY <2>3, MessagesAreMessages
  <2>5. DOMAIN kept = DOMAIN fresh
    OBVIOUS
  <2>6. ASSUME NEW i \in DOMAIN fresh
        PROVE  /\ kept[i] \in Comment
               /\ kept[i].message = entry.comments[i].message
               /\ kept[i].editable = entry.comments[i].editable
               /\ kept[i].seen = t.stamp
    BY <2>4 DEF Comment, Thread
  <2> HIDE DEF kept, fresh
  <2>7. kept \in Seq(Comment)
    <3>1. kept \in [1 .. Len(fresh) -> Comment]
      BY <2>3, <2>5, <2>6 DEF kept
    <3> QED BY <2>3, <3>1, FunctionIsSeq
  <2>8. /\ view.seen = t.stamp /\ view.state = t.state /\ view.writable = Writable(d, t)
        /\ view.comments = kept
    BY <2>1 DEF Entry
  <2>9. view \in View
    BY <2>1, <2>7, WritableIsTyped DEF Entry, View, Thread
  <2> HIDE DEF view
  <2>10. SameMessages(kept, fresh)
    <3>1. Signature(kept) = Signature(entry.comments)
      BY <2>3, <2>5, <2>6, SignaturesAgree
    <3> QED BY <1>2, <3>1 DEF SameMessages, fresh
  <2>11. Stands(d, t, view)
    BY <2>8, <2>10 DEF Stands, fresh
  <2>12. Whole(view)
    <3>1. \A i \in DOMAIN fresh :
             /\ kept[i].message.author = t.messages[i].author
             /\ kept[i].editable = (Writable(d, t) /\ t.messages[i].author = "user")
      BY <2>5, <2>10, SignaturesTell, RenderedIsWhole DEF fresh
    <3>2. \A i \in DOMAIN fresh :
             kept[i].editable = (Writable(d, t) /\ kept[i].message.author = "user")
      BY <3>1
    <3> QED BY <2>5, <2>6, <2>8, <3>2 DEF Whole
  <2>13. MessagesOf(view) = MessagesOf(entry)
    <3>1. \A i \in DOMAIN fresh : MessagesOf(view)[i] = MessagesOf(entry)[i]
      BY <2>3, <2>5, <2>6, <2>8, <2>9, MessagesAreMessages
    <3> QED BY <2>3, <2>5, <2>8, <2>9, <3>1, MessagesAreMessages, SameSeq
  <2> QED BY <2>9, <2>11, <2>12, <2>13 DEF view
<1> QED BY <1>1, <1>2

-----------------------------------------------------------------------------
(* The kinds of steps.                                                     *)

LEMMA BasisIsTyped ==
    ASSUME TypeOK, NEW d \in Document
    PROVE  /\ shown[d] \in View /\ Basis(d) = MessagesOf(shown[d]) /\ Basis(d) \in Seq(Message)
           /\ shown[d].seen \in Nat
  BY MessagesAreMessages DEF TypeOK, Basis, MessagesOf, View

(* A command goes by the version and the messages in front of the user, or *)
(* by those it has found.                                                  *)
Sends ==
    /\ command.step \in {"none", "finding"}
    /\ command' \in CommandRecord
    /\ command'.step \in {"none", "finding", "sent"}
    /\ command'.step # "none" => command'.kind # "none"
    /\ command'.step = "sent" =>
          /\ command'.expected <= stored.stamp
          /\ command'.expected = stored.stamp => command'.basis = stored.messages
    /\ UNCHANGED <<stored, announced, Editor, Worker, missed, failures>>

LEMMA CommandsAreSent ==
    ASSUME TypeOK, VersionsAreTold, ViewsAreWhole, NEW d \in Document,
           \/ SubmitNew(d) \/ SubmitReply(d) \/ ChangeState(d)
           \/ \E i \in 1 .. MaxStamp : Save(d, i) \/ Delete(d, i)
    PROVE  Sends
<1>1. /\ shown[d] \in View /\ Basis(d) \in Seq(Message) /\ shown[d].seen \in Nat
      /\ shown[d].seen <= stored.stamp
      /\ shown[d].seen = stored.stamp => Basis(d) = stored.messages
  BY BasisIsTyped DEF VersionsAreTold
<1>2. ASSUME NEW kind \in Kinds \ {"none"}, NEW id \in Nat, NEW expected \in Nat,
             NEW basis \in Seq(Message), Command(kind, id, expected, basis),
             expected <= stored.stamp, expected = stored.stamp => basis = stored.messages
      PROVE  Sends
  <2>1. command.step = "none"
    BY <1>2 DEF Command, NoCommand
  <2>2. command' \in CommandRecord
    BY <1>2 DEF Command, CommandRecord, Steps
  <2> HIDE DEF Kinds
  <2> QED BY <1>2, <2>1, <2>2 DEF Command, Sends
<1>3. CASE SubmitNew(d)
  <2>1. Command("create", 0, 0, <<>>) /\ stored.stamp = 0
    BY <1>3 DEF SubmitNew
  <2>2. stored.messages = <<>>
    BY <2>1 DEF VersionsAreTold
  <2>3. "create" \in Kinds \ {"none"} /\ 0 \in Nat /\ <<>> \in Seq(Message) /\ 0 <= stored.stamp
    BY <2>1, EmptySeq DEF Kinds
  <2> QED BY <1>2, <2>1, <2>2, <2>3
<1>4. ASSUME NEW kind \in Kinds \ {"none"}, NEW id \in Nat, Command(kind, id, shown[d].seen, Basis(d))
      PROVE  Sends
  BY <1>1, <1>2, <1>4
<1>5. CASE SubmitReply(d)
  BY <1>4, <1>5 DEF SubmitReply, Kinds
<1>6. CASE ChangeState(d)
  BY <1>4, <1>6 DEF ChangeState, Kinds
<1>7. ASSUME NEW i \in DOMAIN shown[d].comments
      PROVE  /\ shown[d].comments[i].message.id \in Nat
             /\ shown[d].comments[i].seen = shown[d].seen
  <2>1. shown[d].comments[i] \in Comment
    BY <1>1, <1>7, MessagesAreMessages
  <2> QED BY <1>7, <2>1 DEF ViewsAreWhole, Whole, Comment, Message
<1>8. ASSUME NEW i \in 1 .. MaxStamp, Save(d, i) \/ Delete(d, i) PROVE Sends
  <2>1. /\ i \in DOMAIN shown[d].comments
        /\ \E kind \in Kinds \ {"none"} : Command(kind, shown[d].comments[i].message.id,
                                       shown[d].comments[i].seen, Basis(d))
    BY <1>8 DEF Save, Delete, Kinds
  <2> QED BY <1>4, <1>7, <2>1
<1> QED BY <1>3, <1>5, <1>6, <1>8

LEMMA TreeCommandsAreSent ==
    ASSUME TypeOK, ChangeStateInTree \/ FindThread
    PROVE  Sends
<1>1. stored.stamp \in Nat /\ stored.messages \in Seq(Message)
  BY DEF TypeOK, Thread
<1>2. CASE ChangeStateInTree
  <2>1. command.step = "none"
    BY <1>2 DEF ChangeStateInTree, NoCommand
  <2>2. PICK kind \in {"open", "resolved"} :
            command' = [NoCommand EXCEPT !.kind = kind, !.step = "finding",
                                         !.basis = stored.messages]
    BY <1>2 DEF ChangeStateInTree
  <2>3. command' \in CommandRecord /\ command'.step = "finding" /\ command'.kind # "none"
    BY <1>1, <2>2 DEF NoCommand, CommandRecord, Kinds, Steps
  <2> QED BY <1>2, <2>1, <2>3 DEF ChangeStateInTree, Sends
<1>3. CASE FindThread
  <2>1. command.step = "finding" /\ command.kind # "none" /\ command \in CommandRecord
    BY <1>3 DEF FindThread, TypeOK
  <2>2. CASE command' = NoCommand
    <3>1. command' \in CommandRecord /\ command'.step = "none"
      BY <2>2, EmptySeq DEF NoCommand, CommandRecord, Kinds, Steps
    <3> QED BY <1>3, <2>1, <3>1 DEF FindThread, Sends
  <2>3. CASE command' = [command EXCEPT !.step = "sent", !.expected = stored.stamp,
                                        !.basis = stored.messages]
    <3>1. /\ command' \in CommandRecord /\ command'.step = "sent"
          /\ command'.kind # "none" /\ command'.expected = stored.stamp
          /\ command'.basis = stored.messages
      BY <1>1, <2>1, <2>3 DEF CommandRecord, Steps
    <3> QED BY <1>1, <1>3, <2>1, <3>1 DEF FindThread, Sends
  <2> QED BY <1>3, <2>2, <2>3 DEF FindThread
<1> QED BY <1>2, <1>3

(* The user begins or gives up an edit, and all else is as it was.         *)
Retouched(view, new) ==
    /\ new \in View /\ new.seen = view.seen /\ new.state = view.state
    /\ new.writable = view.writable
    /\ MessagesOf(new) = MessagesOf(view)
    /\ Signature(new.comments) = Signature(view.comments)
    /\ Whole(view) => Whole(new)
    /\ (new = Nothing) <=> (view = Nothing)

Retouches ==
    /\ shown' \in [Document -> View]
    /\ \A d \in Document : Retouched(shown[d], shown'[d])
    /\ UNCHANGED <<stored, announced, open, Worker, command, disposed, missed, failures>>

LEMMA EditsRetouch ==
    ASSUME TypeOK, NEW d \in Document, NEW i \in 1 .. MaxStamp, Edit(d, i) \/ CancelEdit(d, i)
    PROVE  Retouches
<1>1. PICK b \in BOOLEAN : shown' = [shown EXCEPT ![d].comments[i].editing = b]
  BY DEF Edit, CancelEdit
<1>2. /\ i \in DOMAIN shown[d].comments
      /\ UNCHANGED <<stored, announced, open, Worker, command, disposed, missed, failures>>
  BY DEF Edit, CancelEdit
<1> DEFINE view == shown[d]
           c == view.comments[i]
           new == [view EXCEPT !.comments = [@ EXCEPT ![i] = [c EXCEPT !.editing = b]]]
<1>3. shown \in [Document -> View] /\ view \in View
  BY DEF TypeOK
<1>4. view.comments \in Seq(Comment) /\ DOMAIN view.comments = 1 .. Len(view.comments)
  BY <1>3, LenProperties DEF View
<1>5. c \in Comment
  BY <1>2, <1>4, ElementOfSeq
<1>6. /\ [c EXCEPT !.editing = b] \in Comment
      /\ [c EXCEPT !.editing = b].message = c.message
      /\ [c EXCEPT !.editing = b].seen = c.seen
      /\ [c EXCEPT !.editing = b].editable = c.editable
  BY <1>5 DEF Comment
<1>7. shown' = [shown EXCEPT ![d] = new]
  BY <1>1
<1> HIDE DEF c
<1>8. new.comments = [view.comments EXCEPT ![i] = [c EXCEPT !.editing = b]]
  BY <1>3 DEF View
<1>9. /\ new.comments \in Seq(Comment)
      /\ DOMAIN new.comments = DOMAIN view.comments
      /\ \A j \in DOMAIN view.comments :
            /\ new.comments[j].message = view.comments[j].message
            /\ new.comments[j].seen = view.comments[j].seen
            /\ new.comments[j].editable = view.comments[j].editable
  <2>1. new.comments \in Seq(Comment)
    BY <1>2, <1>4, <1>6, <1>8, ExceptSeq
  <2>2. DOMAIN new.comments = DOMAIN view.comments
    BY <1>8
  <2>3. \A j \in DOMAIN view.comments :
            new.comments[j] = IF j = i THEN [c EXCEPT !.editing = b] ELSE view.comments[j]
    BY <1>8
  <2> QED BY <1>6, <2>1, <2>2, <2>3 DEF c
<1>10. /\ new \in View /\ new.seen = view.seen /\ new.state = view.state
       /\ new.writable = view.writable
  BY <1>3, <1>8, <1>9 DEF View
<1> HIDE DEF new
<1>11. Retouched(view, new)
  <2> HIDE DEF view
  <2>1. MessagesOf(new) = MessagesOf(view)
    BY <1>9 DEF MessagesOf
  <2>2. Signature(new.comments) = Signature(view.comments)
    BY <1>9, SignaturesAgree
  <2>3. Whole(view) => Whole(new)
    BY <1>9, <1>10 DEF Whole
  <2>4. view # Nothing /\ new # Nothing
    <3>1. DOMAIN Nothing.comments = {}
      BY NothingIsAView
    <3> QED BY <1>2, <1>9, <3>1 DEF view
  <2> QED BY <1>10, <2>1, <2>2, <2>3, <2>4 DEF Retouched
<1>12. ASSUME NEW e \in Document PROVE Retouched(shown[e], shown[e])
  BY <1>3 DEF Retouched
<1> QED
  BY <1>2, <1>3, <1>7, <1>10, <1>11, <1>12 DEF Retouches

(* A pass shows what it has read, or nothing.                              *)
LEMMA PassShows ==
    ASSUME TypeOK, ViewsAreWhole, NEW d \in Document
    PROVE  /\ ShownAfter(d) \in View /\ Whole(ShownAfter(d))
           /\ IF d \in pass.documents \cap Places(pass.thread)
              THEN /\ Stands(d, pass.thread, ShownAfter(d))
                   /\ MessagesOf(ShownAfter(d)) \in {pass.thread.messages, MessagesOf(shown[d])}
              ELSE ShownAfter(d) = Nothing
<1>1. pass.thread \in Thread /\ shown[d] \in View /\ Whole(shown[d])
  BY DEF TypeOK, ViewsAreWhole
<1>2. CASE d \notin pass.documents \cap Places(pass.thread)
  BY <1>2, NothingIsAView DEF ShownAfter
<1>3. CASE d \in pass.documents \cap Places(pass.thread)
  <2>1. CASE shown[d] = Nothing
    <3>1. ShownAfter(d) = Entry(d, pass.thread, Rendered(d, pass.thread))
      BY <1>3, <2>1 DEF ShownAfter
    <3> QED BY <1>1, <1>3, <3>1, EntryStands
  <2>2. CASE shown[d] # Nothing
    <3>1. ShownAfter(d) = UpdatedEntry(d, pass.thread, shown[d])
      BY <1>3, <2>2 DEF ShownAfter
    <3> QED BY <1>1, <1>3, <3>1, UpdatedStands
  <2> QED BY <2>1, <2>2
<1> QED BY <1>2, <1>3

(* A change makes a new version, with at most one new message, which is of *)
(* this version and of the author of all that have its id.                 *)
Continues(new) ==
    /\ new \in Thread /\ new.stamp = Stamp
    /\ \E w \in Message :
          /\ w.stamp = Stamp /\ w.id <= Stamp
          /\ \A m \in Texts : m.id = w.id => m.author = w.author
          /\ Range(new.messages) \subseteq Range(stored.messages) \cup {w}

LEMMA TextsAreMessages ==
    ASSUME TypeOK PROVE Texts \subseteq Message
<1>1. stored.messages \in Seq(Message) /\ pass.thread.messages \in Seq(Message)
  BY DEF TypeOK, Thread
<1>2. \A d \in Document : MessagesOf(shown[d]) \in Seq(Message)
  BY MessagesAreMessages DEF TypeOK
<1>3. ASSUME NEW s \in Seq(Message) PROVE Range(s) \subseteq Message
  BY ElementOfSeq, LenProperties DEF Range
<1> QED BY <1>1, <1>2, <1>3 DEF Texts

LEMMA RepliesContinue ==
    ASSUME TypeOK, TextsAreTold, NEW author \in {"user", "agent"}
    PROVE  Continues(WithReply(author))
<1> DEFINE w == NewMessage(author)
           s == stored.messages
<1>1. /\ stored \in Thread /\ s \in Seq(Message) /\ stored.stamp \in Nat
      /\ Stamp \in Nat /\ Stamp > stored.stamp
  BY DEF TypeOK, Thread, Stamp
<1>2. w \in Message /\ w.stamp = Stamp /\ w.id = Stamp
  BY <1>1 DEF NewMessage, Message
<1> HIDE DEF w, s
<1>3. /\ Append(s, w) \in Seq(Message)
      /\ Range(Append(s, w)) \subseteq Range(s) \cup {w}
  <2>1. /\ Append(s, w) \in Seq(Message)
        /\ Len(Append(s, w)) = Len(s) + 1
        /\ \A i \in 1 .. Len(s) : Append(s, w)[i] = s[i]
        /\ Append(s, w)[Len(s) + 1] = w
    BY <1>1, <1>2, AppendProperties
  <2>2. DOMAIN Append(s, w) = 1 .. Len(s) + 1 /\ DOMAIN s = 1 .. Len(s) /\ Len(s) \in Nat
    BY <1>1, <2>1, LenProperties
  <2> QED BY <2>1, <2>2 DEF Range
<1>4. /\ WithReply(author) \in Thread /\ WithReply(author).stamp = Stamp
      /\ WithReply(author).messages = Append(s, w)
  BY <1>1, <1>3 DEF WithReply, Thread, w, s
<1>5. \A m \in Texts : m.id # w.id
  <2>1. \A m \in Texts : m.id \in Nat /\ m.id <= stored.stamp
    BY TextsAreMessages DEF TextsAreTold, Message
  <2> QED BY <1>1, <1>2, <2>1
<1> QED
  BY <1>1, <1>2, <1>3, <1>4, <1>5 DEF Continues, s

LEMMA ThreadStampsContinue ==
    ASSUME TypeOK, TextsAreTold, NEW new \in Thread, new.stamp = Stamp,
           Range(new.messages) \subseteq Range(stored.messages)
    PROVE  Continues(new)
<1> DEFINE w == NewMessage("user")
<1>1. stored.stamp \in Nat /\ Stamp \in Nat /\ Stamp > stored.stamp
  BY DEF TypeOK, Thread, Stamp
<1>2. w \in Message /\ w.stamp = Stamp /\ w.id = Stamp
  BY <1>1 DEF NewMessage, Message
<1> HIDE DEF w
<1>3. \A m \in Texts : m.id # w.id
  <2>1. \A m \in Texts : m.id \in Nat /\ m.id <= stored.stamp
    BY TextsAreMessages DEF TextsAreTold, Message
  <2> QED BY <1>1, <1>2, <2>1
<1> QED BY <1>1, <1>2, <1>3 DEF Continues

LEMMA EditsContinue ==
    ASSUME TypeOK, TextsAreTold
    PROVE  Continues(Edited)
<1> DEFINE s == stored.messages
           new == [i \in DOMAIN s |-> IF s[i].id = command.id
                                      THEN [s[i] EXCEPT !.stamp = Stamp] ELSE s[i]]
<1>1. /\ stored \in Thread /\ s \in Seq(Message) /\ stored.stamp \in Nat
      /\ Stamp \in Nat /\ Stamp > stored.stamp
  BY DEF TypeOK, Thread, Stamp
<1>2. DOMAIN s = 1 .. Len(s) /\ Len(s) \in Nat
  BY <1>1, LenProperties
<1>3. \A i \in DOMAIN s : s[i] \in Message
  BY <1>1, <1>2, ElementOfSeq
<1>4. \A i \in DOMAIN s : s[i] \in Texts /\ s[i] \in Range(s)
  BY DEF Texts, Range
<1>5. new \in [1 .. Len(s) -> Message]
  BY <1>1, <1>2, <1>3 DEF Message
<1>6. new \in Seq(Message)
  BY <1>2, <1>5, FunctionIsSeq
<1> HIDE DEF s
<1>7. Edited \in Thread /\ Edited.stamp = Stamp /\ Edited.messages = new
  BY <1>1, <1>6 DEF Edited, Thread, s
<1>8. CASE \A i \in DOMAIN s : s[i].id # command.id
  <2>1. Range(new) \subseteq Range(s)
    BY <1>8 DEF Range
  <2> QED BY <1>7, <2>1, ThreadStampsContinue DEF s
<1>9. CASE \E i \in DOMAIN s : s[i].id = command.id
  <2>1. PICK k \in DOMAIN s : s[k].id = command.id
    BY <1>9
  <2> DEFINE w == [s[k] EXCEPT !.stamp = Stamp]
  <2>2. w \in Message /\ w.stamp = Stamp /\ w.id = command.id /\ w.author = s[k].author
    BY <1>1, <1>3, <2>1 DEF Message
  <2>3. \A m \in Texts : m.id = w.id => m.author = w.author
    BY <1>4, <2>1, <2>2 DEF TextsAreTold
  <2>4. w.id <= Stamp
    <3>1. s[k].id <= stored.stamp /\ s[k].id \in Nat
      BY <1>3, <1>4 DEF TextsAreTold, Message
    <3> QED BY <1>1, <2>1, <2>2, <3>1
  <2>5. ASSUME NEW i \in DOMAIN s PROVE new[i] \in Range(s) \cup {w}
    <3>1. CASE s[i].id = command.id
      <4>1. s[i].author = s[k].author
        BY <1>4, <2>1, <3>1 DEF TextsAreTold
      <4>2. s[i] \in Message /\ s[k] \in Message
        BY <1>3
      <4>3. [s[i] EXCEPT !.stamp = Stamp] = w
        BY <2>1, <3>1, <4>1, <4>2 DEF Message
      <4> QED BY <3>1, <4>3
    <3>2. CASE s[i].id # command.id
      BY <1>4, <3>2
    <3> QED BY <3>1, <3>2
  <2>6. Range(new) \subseteq Range(s) \cup {w}
    BY <2>5 DEF Range
  <2> HIDE DEF w, new
  <2> QED BY <1>7, <2>2, <2>3, <2>4, <2>6 DEF Continues, s
<1> QED BY <1>8, <1>9

LEMMA CommandsContinue ==
    ASSUME TypeOK, TextsAreTold, command.step = "sent"
    PROVE  Continues(Changed)
<1>1. stored \in Thread /\ stored.stamp \in Nat /\ Stamp \in Nat /\ stored.messages \in Seq(Message)
  BY DEF TypeOK, Thread, Stamp
<1>2. CASE command.kind = "create"
  <2> DEFINE reply == WithReply("user")
             new == [reply EXCEPT !.state = "open"]
  <2>1. Continues(reply)
    BY RepliesContinue
  <2>2. new \in Thread /\ new.stamp = reply.stamp /\ new.messages = reply.messages
    BY <2>1 DEF Continues, Thread
  <2>3. Changed = new
    BY <1>2 DEF Changed
  <2> HIDE DEF reply, new
  <2> QED BY <2>1, <2>2, <2>3 DEF Continues
<1>3. CASE command.kind = "reply"
  BY <1>3, RepliesContinue DEF Changed
<1>4. CASE command.kind = "save"
  BY <1>4, EditsContinue DEF Changed
<1>5. CASE command.kind = "delete"
  <2> DEFINE rest == Without(stored.messages, command.id)
  <2>1. rest \in Seq(Message) /\ Range(rest) \subseteq Range(stored.messages)
    BY <1>1, WithoutIsFilter
  <2> HIDE DEF rest
  <2>2. Deleted \in Thread /\ Deleted.stamp = Stamp /\ Deleted.messages = rest
    BY <1>1, <2>1 DEF Deleted, Thread, rest
  <2>3. Changed = Deleted
    BY <1>5 DEF Changed
  <2> QED BY <2>1, <2>2, <2>3, ThreadStampsContinue
<1>6. CASE command.kind \in {"open", "resolved"}
  <2> DEFINE new == [stored EXCEPT !.stamp = Stamp, !.state = command.kind]
  <2>1. Changed = new
    BY <1>6 DEF Changed
  <2>2. new \in Thread /\ new.stamp = Stamp /\ new.messages = stored.messages
    BY <1>1, <1>6 DEF Thread
  <2> HIDE DEF new
  <2> QED BY <2>1, <2>2, ThreadStampsContinue
<1>7. command.kind \in Kinds \ {"none"}
  BY DEF TypeOK, CommandRecord
<1> QED BY <1>2, <1>3, <1>4, <1>5, <1>6, <1>7 DEF Kinds

LEMMA AnswersContinue ==
    ASSUME TypeOK, TextsAreTold, Answer
    PROVE  Continues(stored')
<1> DEFINE new == [stored EXCEPT !.stamp = Stamp, !.state = "resolved"]
<1>1. stored' = WithReply("agent") \/ stored' = new
  BY DEF Answer
<1>2. new \in Thread /\ new.stamp = Stamp /\ new.messages = stored.messages
  <2>1. stored \in Thread /\ Stamp \in Nat
    BY DEF TypeOK, Thread, Stamp
  <2> QED BY <2>1 DEF Thread
<1>3. Continues(new)
  <2> HIDE DEF new
  <2> QED BY <1>2, ThreadStampsContinue
<1> QED BY <1>1, <1>3, RepliesContinue

(* The review's changes leave the messages alone.                          *)
LEMMA ReviewsKeepMessages ==
    ASSUME TypeOK, ChangeReview
    PROVE  stored' \in Thread /\ stored'.stamp = stored.stamp /\ stored'.messages = stored.messages
<1>1. stored \in Thread /\ Homes \subseteq SUBSET Document
  BY ControllerAssumption DEF TypeOK
<1>2. CASE stored' = [stored EXCEPT !.active = ~@]
  BY <1>1, <1>2 DEF Thread
<1>3. ASSUME NEW h \in Homes, stored' = [stored EXCEPT !.at = h]
      PROVE  stored' \in Thread /\ stored'.stamp = stored.stamp
             /\ stored'.messages = stored.messages
  BY <1>1, <1>3 DEF Thread
<1> QED BY <1>2, <1>3 DEF ChangeReview

-----------------------------------------------------------------------------
(* Types.                                                                  *)

LEMMA EndsOfCommands ==
    /\ NoCommand.step = "none"
    /\ \A e : [NoCommand EXCEPT !.step = "stored", !.expected = e].step = "stored"
  BY DEF NoCommand

LEMMA StepKinds ==
    ASSUME TypeOK, VersionsAreTold, ViewsAreWhole, [Next]_vars
    PROVE  \/ Read \/ Show \/ Loop \/ Dispose
           \/ Execute \/ Announce \/ Answer \/ ChangeReview
           \/ \E d \in Document : OpenDocument(d) \/ CloseDocument(d)
           \/ Sends \/ Retouches \/ UNCHANGED vars
  BY CommandsAreSent, TreeCommandsAreSent, EditsRetouch DEF Next

LEMMA RequestIsTyped ==
    ASSUME TypeOK, NEW documents \in SUBSET Document, Request(documents)
    PROVE  /\ requested' \in BOOLEAN
           /\ worker' \in {"idle", "reading", "showing", "through"}
           /\ pass' \in [documents : SUBSET Document, thread : Thread]
           /\ pass'.thread \in {pass.thread, Unread}
<1>1. CASE UNCHANGED <<requested, worker, pass>>
  BY <1>1 DEF TypeOK
<1>2. CASE requested' = TRUE /\ UNCHANGED <<worker, pass>>
  BY <1>2 DEF TypeOK
<1>3. CASE BeginPass(documents)
  BY <1>3, NothingIsAView DEF BeginPass
<1> QED BY <1>1, <1>2, <1>3 DEF Request, Worker

LEMMA TypeInit == Init => TypeOK
<1> SUFFICES ASSUME Init PROVE TypeOK
  OBVIOUS
<1>1. stored \in Thread
  <2>1. PICK h \in Homes : stored = [NoThread EXCEPT !.at = h]
    BY DEF Init
  <2>2. h \subseteq Document
    BY ControllerAssumption
  <2> QED BY <2>1, <2>2, EmptySeq DEF NoThread, Thread
<1>2. command \in CommandRecord
  BY EmptySeq DEF Init, NoCommand, CommandRecord, Kinds, Steps
<1>3. command.step \notin {"finding", "sent"}
  BY DEF Init, NoCommand
<1> QED BY <1>1, <1>2, <1>3, NothingIsAView DEF Init, TypeOK

LEMMA CommandTypes ==
    ASSUME TypeOK,
           \/ command' = command
           \/ command' = NoCommand
           \/ command' = [NoCommand EXCEPT !.step = "stored", !.expected = Stamp]
           \/ command.step # "sent" /\ command' = [command EXCEPT !.step = "refreshing"]
    PROVE  /\ command' \in CommandRecord
           /\ command'.step \in {"finding", "sent"} => command'.kind # "none"
<1>1. Stamp \in Nat
  BY DEF TypeOK, Thread, Stamp
<1>2. CASE command' = command
  BY <1>2 DEF TypeOK
<1>3. CASE command' = NoCommand
  BY <1>3, EmptySeq DEF NoCommand, CommandRecord, Kinds, Steps
<1>4. CASE command' = [NoCommand EXCEPT !.step = "stored", !.expected = Stamp]
  BY <1>1, <1>4, EmptySeq DEF NoCommand, CommandRecord, Kinds, Steps
<1>5. CASE command' = [command EXCEPT !.step = "refreshing"]
  BY <1>5 DEF TypeOK, CommandRecord, Steps
<1> QED BY <1>2, <1>3, <1>4, <1>5

LEMMA TypeStep ==
    ASSUME TypeOK, TextsAreTold, VersionsAreTold, ViewsAreWhole, [Next]_vars
    PROVE  TypeOK'
<1>1. CASE Read
  <2>1. pass' = pass \/ pass' = [pass EXCEPT !.thread = stored]
    BY <1>1 DEF Read
  <2>2. pass' \in [documents : SUBSET Document, thread : Thread]
    BY <2>1 DEF TypeOK
  <2>3. missed' \in BOOLEAN /\ failures' \in Nat
    <3>1. failures' \in {failures, failures + 1}
      BY <1>1 DEF Read, Fail
    <3>2. missed \in BOOLEAN /\ failures \in Nat
      BY DEF TypeOK
    <3>3. missed' \in BOOLEAN
      BY <3>2, <1>1 DEF Read, Fail
    <3> QED BY <3>1, <3>2, <3>3
  <2> QED BY <1>1, <2>2, <2>3 DEF Read, TypeOK, Editor
<1>2. CASE Show
  <2>1. \A d \in Document : ShownAfter(d) \in View
    BY PassShows
  <2>2. shown' \in [Document -> View]
    BY <1>2, <2>1 DEF Show, TypeOK
  <2>3. pass' \in [documents : SUBSET Document, thread : Thread]
    BY <1>2, NothingIsAView DEF Show, NoPass
  <2> QED BY <1>2, <2>2, <2>3 DEF Show, TypeOK
<1>3. CASE Loop
  <2>1. /\ pass' \in [documents : SUBSET Document, thread : Thread]
        /\ requested' \in BOOLEAN
        /\ worker' \in {"idle", "reading", "showing", "through"}
    <3>1. CASE BeginPass(open)
      BY <3>1, NothingIsAView DEF BeginPass, TypeOK
    <3>2. CASE UNCHANGED <<requested, pass>> /\ worker' = "idle"
      BY <3>2 DEF TypeOK
    <3> QED BY <1>3, <3>1, <3>2 DEF Loop
  <2>2. command' = command \/ command' = NoCommand
    BY <1>3 DEF Loop
  <2> QED BY <1>3, <2>1, <2>2, CommandTypes DEF Loop, TypeOK, Editor
<1>4. CASE Dispose
  BY <1>4, NothingIsAView DEF Dispose, TypeOK
<1>5. CASE Execute
  <2>1. stored' \in Thread
    BY <1>5, CommandsContinue DEF Execute, Continues, TypeOK
  <2>2. /\ announced' \in BOOLEAN
        /\ \/ command' = NoCommand
           \/ command' = [NoCommand EXCEPT !.step = "stored", !.expected = Stamp]
    BY <1>5 DEF Execute, TypeOK
  <2> QED BY <1>5, <2>1, <2>2, CommandTypes DEF Execute, TypeOK, Editor, Worker
<1>6. CASE Announce
  <2>1. /\ requested' \in BOOLEAN
        /\ worker' \in {"idle", "reading", "showing", "through"}
        /\ pass' \in [documents : SUBSET Document, thread : Thread]
    BY <1>6, RequestIsTyped DEF Announce, TypeOK, Worker
  <2>2. \/ command' = command
        \/ command' = NoCommand
        \/ command.step # "sent" /\ command' = [command EXCEPT !.step = "refreshing"]
    BY <1>6 DEF Announce
  <2>3. missed' \in BOOLEAN /\ failures' \in Nat
    <3>1. failures' \in {failures, failures + 1}
      BY <1>6 DEF Announce, Fail
    <3>2. missed \in BOOLEAN /\ failures \in Nat
      BY DEF TypeOK
    <3>3. missed' \in BOOLEAN
      BY <3>2, <1>6 DEF Announce, Fail
    <3> QED BY <3>1, <3>2, <3>3
  <2>4. /\ command' \in CommandRecord
        /\ command'.step \in {"finding", "sent"} => command'.kind # "none"
    BY <2>2, CommandTypes
  <2> QED BY <1>6, <2>1, <2>3, <2>4 DEF Announce, TypeOK, Editor
<1>7. CASE Answer
  BY <1>7, AnswersContinue DEF Answer, Continues, TypeOK, Editor, Worker
<1>8. CASE ChangeReview
  BY <1>8, ReviewsKeepMessages DEF ChangeReview, TypeOK, Editor, Worker
<1>9. ASSUME NEW d \in Document, OpenDocument(d) \/ CloseDocument(d) PROVE TypeOK'
  <2>1. open' \in SUBSET Document /\ Request(open')
    BY <1>9 DEF OpenDocument, CloseDocument, TypeOK
  <2> QED BY <1>9, <2>1, RequestIsTyped DEF OpenDocument, CloseDocument, TypeOK
<1>10. CASE Sends
  BY <1>10 DEF Sends, TypeOK, Editor, Worker
<1>11. CASE Retouches
  BY <1>11 DEF Retouches, TypeOK, Worker
<1>12. CASE UNCHANGED vars
  BY <1>12 DEF vars, TypeOK, Editor, Worker
<1> QED
  BY <1>1, <1>2, <1>3, <1>4, <1>5, <1>6, <1>7, <1>8, <1>9, <1>10, <1>11, <1>12, StepKinds

-----------------------------------------------------------------------------
(* Messages.                                                               *)

(* With one new message, of a new stamp, messages are still told apart.    *)
LEMMA TextsStayTold ==
    ASSUME TypeOK, TextsAreTold,
           NEW w \in Message, w.stamp = Stamp, w.id <= Stamp,
           \A m \in Texts : m.id = w.id => m.author = w.author,
           Texts' \subseteq Texts \cup {w}, stored'.stamp = Stamp
    PROVE  TextsAreTold'
<1>1. stored.stamp \in Nat /\ Stamp = stored.stamp + 1
  BY DEF TypeOK, Thread, Stamp
<1>2. \A m \in Texts : m \in Message /\ m.id <= stored.stamp /\ m.stamp <= stored.stamp
  BY TextsAreMessages DEF TextsAreTold
<1>3. w.id \in Nat /\ w.stamp \in Nat /\ \A m \in Message : m.id \in Nat /\ m.stamp \in Nat
  BY DEF Message
<1>4. ASSUME NEW m \in Texts' PROVE m.id <= stored'.stamp /\ m.stamp <= stored'.stamp
  BY <1>1, <1>2, <1>3, <1>4
<1>5. ASSUME NEW m \in Texts', NEW n \in Texts', m.id = n.id PROVE m.author = n.author
  BY <1>5 DEF TextsAreTold
<1>6. ASSUME NEW m \in Texts', NEW n \in Texts', m.stamp = n.stamp PROVE m.id = n.id
  BY <1>1, <1>2, <1>3, <1>6 DEF TextsAreTold
<1> QED BY <1>4, <1>5, <1>6 DEF TextsAreTold

LEMMA FewerTextsAreTold ==
    ASSUME TextsAreTold, Texts' \subseteq Texts, stored'.stamp = stored.stamp
    PROVE  TextsAreTold'
  BY DEF TextsAreTold

(* What is shown and read is not disturbed by what is stored.              *)
LEMMA TextsOfStore ==
    ASSUME shown' = shown, pass'.thread.messages \in {pass.thread.messages, <<>>},
           NEW w, Range(stored'.messages) \subseteq Range(stored.messages) \cup {w}
    PROVE  Texts' \subseteq Texts \cup {w}
<1>1. Range(<<>>) = {}
  BY DEF Range
<1> QED BY <1>1 DEF Texts

LEMMA SameTexts ==
    ASSUME stored'.messages = stored.messages,
           Range(pass'.thread.messages) \subseteq Texts,
           \A d \in Document : Range(MessagesOf(shown'[d])) \subseteq Texts
    PROVE  Texts' \subseteq Texts
  BY DEF Texts

LEMMA TextsInit == Init => TextsAreTold
<1> SUFFICES ASSUME Init PROVE TextsAreTold
  OBVIOUS
<1>1. Range(<<>>) = {}
  BY DEF Range
<1>2. stored.messages = <<>>
  BY NothingIsAView DEF Init, NoThread
<1>3. pass.thread.messages = <<>>
  BY NothingIsAView DEF Init
<1>4. \A d \in Document : MessagesOf(shown[d]) = <<>>
  BY NothingIsAView DEF Init
<1>5. Texts = {}
  BY <1>1, <1>2, <1>3, <1>4 DEF Texts
<1> QED BY <1>5 DEF TextsAreTold

LEMMA TextsStep ==
    ASSUME TypeOK, TextsAreTold, VersionsAreTold, ViewsAreWhole, [Next]_vars
    PROVE  TextsAreTold'
<1>0. /\ Range(stored.messages) \subseteq Texts /\ Range(pass.thread.messages) \subseteq Texts
      /\ \A d \in Document : Range(MessagesOf(shown[d])) \subseteq Texts
      /\ Range(<<>>) \subseteq Texts
  BY DEF Texts, Range
<1>1. CASE Read
  <2>1. pass' = pass \/ pass' = [pass EXCEPT !.thread = stored]
    BY <1>1 DEF Read
  <2>2. pass'.thread \in {pass.thread, stored}
    BY <2>1 DEF TypeOK
  <2>3. stored' = stored /\ shown' = shown
    BY <1>1 DEF Read, Editor
  <2>4. Texts' \subseteq Texts
    BY <1>0, <2>2, <2>3, SameTexts
  <2> QED BY <2>3, <2>4, FewerTextsAreTold
<1>2. CASE Show
  <2>1. \A d \in Document : Range(MessagesOf(ShownAfter(d))) \subseteq Texts
    BY <1>0, PassShows, NothingIsAView
  <2>2. \A d \in Document : Range(MessagesOf(shown'[d])) \subseteq Texts
    BY <1>0, <1>2, <2>1 DEF Show
  <2>3. stored' = stored /\ pass'.thread.messages = <<>>
    BY <1>2, NothingIsAView DEF Show, NoPass
  <2>4. Texts' \subseteq Texts
    BY <1>0, <2>2, <2>3, SameTexts
  <2> QED BY <2>3, <2>4, FewerTextsAreTold
<1>3. CASE Loop
  <2>1. pass'.thread \in {pass.thread, Unread} /\ stored' = stored /\ shown' = shown
    BY <1>3 DEF Loop, BeginPass, Editor
  <2>2. Range(pass'.thread.messages) \subseteq Texts
    BY <1>0, <2>1, NothingIsAView
  <2>3. Texts' \subseteq Texts
    BY <1>0, <2>1, <2>2, SameTexts
  <2> QED BY <2>1, <2>3, FewerTextsAreTold
<1>4. CASE Dispose
  <2>1. stored' = stored /\ pass' = pass /\ \A d \in Document : MessagesOf(shown'[d]) = <<>>
    BY <1>4, NothingIsAView DEF Dispose
  <2>2. Texts' \subseteq Texts
    BY <1>0, <2>1, SameTexts
  <2> QED BY <2>1, <2>2, FewerTextsAreTold
<1>5. ASSUME Continues(stored'), shown' = shown, pass' = pass PROVE TextsAreTold'
  <2>1. PICK w \in Message :
            /\ w.stamp = Stamp /\ w.id <= Stamp
            /\ \A m \in Texts : m.id = w.id => m.author = w.author
            /\ Range(stored'.messages) \subseteq Range(stored.messages) \cup {w}
    BY <1>5 DEF Continues
  <2>2. stored'.stamp = Stamp
    BY <1>5 DEF Continues
  <2>3. Texts' \subseteq Texts \cup {w}
    BY <1>5, <2>1, TextsOfStore
  <2> QED BY <2>1, <2>2, <2>3, TextsStayTold
<1>6. ASSUME stored'.messages = stored.messages, stored'.stamp = stored.stamp,
             shown' = shown, pass'.thread \in {pass.thread, Unread}
      PROVE  TextsAreTold'
  <2>1. Range(pass'.thread.messages) \subseteq Texts
    BY <1>0, <1>6, NothingIsAView
  <2>2. Texts' \subseteq Texts
    BY <1>0, <1>6, <2>1, SameTexts
  <2> QED BY <1>6, <2>2, FewerTextsAreTold
<1>7. CASE Execute
  BY <1>5, <1>6, <1>7, CommandsContinue DEF Execute, Editor, Worker
<1>8. CASE Announce
  <2>1. pass'.thread \in {pass.thread, Unread}
    BY <1>8, RequestIsTyped DEF Announce, TypeOK, Worker
  <2> QED BY <1>6, <1>8, <2>1 DEF Announce, Editor
<1>9. CASE Answer
  BY <1>5, <1>9, AnswersContinue DEF Answer, Editor, Worker
<1>10. CASE ChangeReview
  BY <1>6, <1>10, ReviewsKeepMessages DEF ChangeReview, Editor, Worker
<1>11. ASSUME NEW d \in Document, OpenDocument(d) \/ CloseDocument(d) PROVE TextsAreTold'
  <2>1. open' \in SUBSET Document /\ Request(open') /\ stored' = stored /\ shown' = shown
    BY <1>11 DEF OpenDocument, CloseDocument, TypeOK
  <2> QED BY <1>6, <2>1, RequestIsTyped
<1>12. CASE Sends
  BY <1>6, <1>12 DEF Sends, Editor, Worker
<1>13. CASE Retouches
  <2>1. /\ stored' = stored /\ pass' = pass
        /\ \A d \in Document : MessagesOf(shown'[d]) = MessagesOf(shown[d])
    BY <1>13 DEF Retouches, Retouched, Worker
  <2>2. Texts' \subseteq Texts
    BY <1>0, <2>1, SameTexts
  <2> QED BY <2>1, <2>2, FewerTextsAreTold
<1>14. CASE UNCHANGED vars
  BY <1>6, <1>14 DEF vars, Editor, Worker
<1> QED
  BY <1>1, <1>2, <1>3, <1>4, <1>7, <1>8, <1>9, <1>10, <1>11, <1>12, <1>13, <1>14, StepKinds

-----------------------------------------------------------------------------
(* Versions.                                                               *)

(* A pass shows the messages it has read, also where it keeps comments.    *)
LEMMA PassShowsMessages ==
    ASSUME TypeOK, TextsAreTold, ViewsAreWhole,
           NEW d \in Document, d \in pass.documents \cap Places(pass.thread)
    PROVE  MessagesOf(ShownAfter(d)) = pass.thread.messages
<1> DEFINE t == pass.thread
           view == ShownAfter(d)
<1>1. /\ view \in View /\ Stands(d, t, view)
      /\ MessagesOf(view) \in {t.messages, MessagesOf(shown[d])}
  BY PassShows
<1>2. t \in Thread /\ t.messages \in Seq(Message)
  BY DEF TypeOK, Thread
<1> HIDE DEF t, view
<1>3. /\ DOMAIN view.comments = DOMAIN t.messages
      /\ \A i \in DOMAIN t.messages :
            /\ view.comments[i].message.stamp = t.messages[i].stamp
            /\ view.comments[i].message.author = t.messages[i].author
  <2>1. SameMessages(view.comments, Rendered(d, t))
    BY <1>1 DEF Stands
  <2> QED BY <1>2, <2>1, SignaturesTell, RenderedIsWhole
<1>4. /\ MessagesOf(view) \in Seq(Message) /\ DOMAIN MessagesOf(view) = DOMAIN t.messages
      /\ \A i \in DOMAIN t.messages : MessagesOf(view)[i] = view.comments[i].message
  BY <1>1, <1>3, MessagesAreMessages
<1>5. Range(MessagesOf(view)) \subseteq Texts /\ Range(t.messages) \subseteq Texts
  BY <1>1 DEF Texts, t
<1>6. ASSUME NEW i \in DOMAIN t.messages PROVE MessagesOf(view)[i] = t.messages[i]
  <2>1. MessagesOf(view)[i] \in Texts /\ t.messages[i] \in Texts
    BY <1>4, <1>5 DEF Range
  <2>2. MessagesOf(view)[i].stamp = t.messages[i].stamp
    BY <1>3, <1>4
  <2>3. MessagesOf(view)[i].id = t.messages[i].id
    BY <2>1, <2>2 DEF TextsAreTold
  <2>4. MessagesOf(view)[i].author = t.messages[i].author
    BY <1>3, <1>4
  <2>5. \A m, n \in Message : m.id = n.id /\ m.stamp = n.stamp /\ m.author = n.author => m = n
    BY DEF Message
  <2> QED BY <2>1, <2>2, <2>3, <2>4, <2>5, TextsAreMessages
<1>7. MessagesOf(view) = t.messages
  BY <1>2, <1>4, <1>6, SameSeq
<1> QED BY <1>7 DEF view, t

LEMMA VersionsInit == Init => VersionsAreTold
<1> SUFFICES ASSUME Init PROVE VersionsAreTold
  OBVIOUS
<1>1. stored.messages = <<>> /\ stored.stamp = 0
  BY NothingIsAView DEF Init, NoThread
<1>2. pass.thread = Unread /\ shown = [d \in Document |-> Nothing] /\ command.step # "sent"
  BY DEF Init, NoCommand
<1>3. ASSUME NEW d \in Document PROVE shown[d].seen = 0 /\ Basis(d) = <<>>
  <2>1. shown[d] = Nothing
    BY <1>2
  <2> QED BY <2>1, NothingIsAView DEF Basis, MessagesOf
<1> QED BY <1>1, <1>2, <1>3, NothingIsAView DEF VersionsAreTold

LEMMA VersionsStep ==
    ASSUME TypeOK, TextsAreTold, VersionsAreTold, ViewsAreWhole, [Next]_vars
    PROVE  VersionsAreTold'
<1>0. /\ stored.stamp \in Nat /\ Stamp = stored.stamp + 1 /\ pass.thread.stamp \in Nat
      /\ command.expected \in Nat
      /\ \A d \in Document : shown[d].seen \in Nat
  BY DEF TypeOK, CommandRecord, Thread, View, Stamp
<1> DEFINE Current(v, ms) == v <= stored.stamp /\ (v = stored.stamp => ms = stored.messages)
<1>1. /\ Current(0, <<>>) /\ Current(stored.stamp, stored.messages)
      /\ Current(pass.thread.stamp, pass.thread.messages)
      /\ \A d \in Document : Current(shown[d].seen, MessagesOf(shown[d]))
      /\ command.step = "sent" => Current(command.expected, command.basis)
  BY <1>0 DEF VersionsAreTold, Basis, MessagesOf
<1>2. ASSUME stored'.stamp = stored.stamp, stored'.messages = stored.messages,
             Current(pass'.thread.stamp, pass'.thread.messages),
             \A d \in Document : Current(shown'[d].seen, MessagesOf(shown'[d])),
             command'.step = "sent" => Current(command'.expected, command'.basis)
      PROVE  VersionsAreTold'
  BY <1>1, <1>2 DEF VersionsAreTold, Basis, MessagesOf
<1>3. ASSUME stored'.stamp = Stamp, pass' = pass, shown' = shown,
             command'.step = "sent" => command' = command
      PROVE  VersionsAreTold'
  BY <1>0, <1>1, <1>3 DEF VersionsAreTold
<1> HIDE DEF Current
<1>4. CASE Read
  <2>1. pass' = pass \/ pass' = [pass EXCEPT !.thread = stored]
    BY <1>4 DEF Read
  <2>2. pass'.thread \in {pass.thread, stored}
    BY <2>1 DEF TypeOK
  <2> QED BY <1>1, <1>2, <1>4, <2>2 DEF Read, Editor
<1>5. CASE Show
  <2>1. ASSUME NEW d \in Document PROVE Current(ShownAfter(d).seen, MessagesOf(ShownAfter(d)))
    <3>1. CASE d \in pass.documents \cap Places(pass.thread)
      <4>1. ShownAfter(d).seen = pass.thread.stamp
        BY <3>1, PassShows DEF Stands
      <4> QED BY <1>1, <3>1, <4>1, PassShowsMessages
    <3>2. CASE d \notin pass.documents \cap Places(pass.thread)
      BY <1>1, <3>2, PassShows, NothingIsAView
    <3> QED BY <3>1, <3>2
  <2>2. \A d \in Document : shown'[d] \in {shown[d], ShownAfter(d)}
    BY <1>5 DEF Show
  <2>3. \A d \in Document : Current(shown'[d].seen, MessagesOf(shown'[d]))
    BY <1>1, <2>1, <2>2
  <2>4. stored' = stored /\ command' = command /\ pass'.thread = Unread
    BY <1>5 DEF Show, NoPass
  <2> QED BY <1>1, <1>2, <2>3, <2>4, NothingIsAView
<1>6. CASE Loop
  <2>1. /\ pass'.thread \in {pass.thread, Unread} /\ stored' = stored /\ shown' = shown
        /\ command' = command \/ command' = NoCommand
    BY <1>6 DEF Loop, BeginPass, Editor
  <2>2. command'.step = "sent" => command' = command
    BY <2>1 DEF NoCommand
  <2> QED BY <1>1, <1>2, <2>1, <2>2, NothingIsAView
<1>7. CASE Dispose
  <2>1. \A d \in Document : shown'[d] = Nothing
    BY <1>7 DEF Dispose
  <2> QED BY <1>1, <1>2, <1>7, <2>1, NothingIsAView DEF Dispose
<1>8. CASE Execute
  <2>1. /\ pass' = pass /\ shown' = shown
        /\ stored' \in {stored, Changed} /\ command.step = "sent"
    BY <1>8 DEF Execute, Editor, Worker
  <2>2. command'.step # "sent"
    BY <1>8, EndsOfCommands DEF Execute
  <2> QED BY <1>1, <1>2, <1>3, <2>1, <2>2, CommandsContinue DEF Continues
<1>9. CASE Announce
  <2>1. pass'.thread \in {pass.thread, Unread}
    BY <1>9, RequestIsTyped DEF Announce, TypeOK, Worker
  <2>2. command'.step = "sent" => command' = command
    <3>1. \/ command' = command
          \/ command' = NoCommand
          \/ command' = [command EXCEPT !.step = "refreshing"]
      BY <1>9 DEF Announce
    <3> QED BY <3>1 DEF NoCommand, TypeOK, CommandRecord
  <2> QED BY <1>1, <1>2, <1>9, <2>1, <2>2, NothingIsAView DEF Announce, Editor
<1>10. CASE Answer
  BY <1>3, <1>10, AnswersContinue DEF Answer, Continues, Editor, Worker
<1>11. CASE ChangeReview
  BY <1>1, <1>2, <1>11, ReviewsKeepMessages DEF ChangeReview, Editor, Worker
<1>12. ASSUME NEW d \in Document, OpenDocument(d) \/ CloseDocument(d) PROVE VersionsAreTold'
  <2>1. /\ open' \in SUBSET Document /\ Request(open') /\ stored' = stored /\ shown' = shown
        /\ command' = command
    BY <1>12 DEF OpenDocument, CloseDocument, TypeOK
  <2>2. pass'.thread \in {pass.thread, Unread}
    BY <2>1, RequestIsTyped
  <2> QED BY <1>1, <1>2, <2>1, <2>2, NothingIsAView
<1>13. CASE Sends
  <2>1. stored' = stored /\ pass' = pass /\ shown' = shown
    BY <1>13 DEF Sends, Editor, Worker
  <2>2. command'.step = "sent" => Current(command'.expected, command'.basis)
    BY <1>13 DEF Sends, Current
  <2> QED BY <1>1, <1>2, <2>1, <2>2
<1>14. CASE Retouches
  <2>1. /\ stored' = stored /\ pass' = pass /\ command' = command
        /\ \A d \in Document : shown'[d].seen = shown[d].seen
                               /\ MessagesOf(shown'[d]) = MessagesOf(shown[d])
    BY <1>14 DEF Retouches, Retouched, Worker
  <2> QED BY <1>1, <1>2, <2>1
<1>15. CASE UNCHANGED vars
  BY <1>1, <1>2, <1>15 DEF vars, Editor, Worker
<1> QED
  BY <1>4, <1>5, <1>6, <1>7, <1>8, <1>9, <1>10, <1>11, <1>12, <1>13, <1>14, <1>15, StepKinds

LEMMA ViewsInit == Init => ViewsAreWhole
  BY NothingIsAView DEF Init, ViewsAreWhole

LEMMA ViewsStep ==
    ASSUME TypeOK, VersionsAreTold, ViewsAreWhole, [Next]_vars
    PROVE  ViewsAreWhole'
<1>1. CASE Show
  <2>1. \A d \in Document : shown'[d] \in {shown[d], ShownAfter(d)}
    BY <1>1 DEF Show
  <2> QED BY <2>1, PassShows DEF ViewsAreWhole
<1>2. CASE Dispose
  <2>1. \A d \in Document : shown'[d] = Nothing
    BY <1>2 DEF Dispose
  <2> QED BY <2>1, NothingIsAView DEF ViewsAreWhole
<1>3. CASE Retouches
  BY <1>3 DEF Retouches, Retouched, ViewsAreWhole
<1>4. CASE shown' = shown
  BY <1>4 DEF ViewsAreWhole
<1>5. \/ Show \/ Dispose \/ Retouches \/ shown' = shown
  BY StepKinds DEF Read, Loop, Execute, Announce, Answer, ChangeReview, OpenDocument,
     CloseDocument, Sends, vars, Editor
<1> QED BY <1>1, <1>2, <1>3, <1>4, <1>5

-----------------------------------------------------------------------------
(* Commands and passes.                                                    *)

LEMMA CommandInit == Init => CommandIsFollowed
  BY DEF Init, CommandIsFollowed, NoCommand

(* A request is taken up at once, or later.                                *)
LEMMA RequestIsTaken ==
    ASSUME NEW documents, Request(documents), ~disposed
    PROVE  \/ /\ worker' = "reading" /\ ~requested'
              /\ pass' = [documents |-> documents, thread |-> Unread]
           \/ /\ requested' /\ worker # "idle" /\ worker' = worker /\ pass' = pass
  BY DEF Request, BeginPass

LEMMA CommandStep ==
    ASSUME TypeOK, TextsAreTold, VersionsAreTold, ViewsAreWhole, PassIsCurrent,
           CommandIsFollowed, [Next]_vars
    PROVE  CommandIsFollowed'
<1>0. /\ stored.stamp \in Nat /\ Stamp = stored.stamp + 1 /\ pass.thread.stamp \in Nat
      /\ command.expected \in Nat
      /\ \A d \in Document : shown[d].seen \in Nat
  BY DEF TypeOK, CommandRecord, Thread, View, Stamp
<1>1. CASE Read
  <2>1. /\ pass' = pass \/ pass' = [pass EXCEPT !.thread = stored]
        /\ worker = "reading" /\ worker' = "showing" /\ stored' = stored /\ command' = command
    BY <1>1 DEF Read
  <2>2. pass.thread = Unread
    BY <2>1 DEF PassIsCurrent
  <2>3. pass'.thread \in {Unread, stored}
    BY <2>1, <2>2 DEF TypeOK
  <2> QED BY <1>0, <2>1, <2>3 DEF CommandIsFollowed
<1>2. CASE Show
  <2>1. /\ worker = "showing" /\ worker' = "through" /\ stored' = stored /\ command' = command
        /\ requested' = requested /\ disposed' = disposed
        /\ ~disposed => shown' = [d \in Document |-> ShownAfter(d)]
    BY <1>2 DEF Show
  <2>2. ASSUME pass.thread = Unread \/ pass.thread.stamp >= command.expected, ~disposed,
               NEW d \in Document
        PROVE  Shows(d, command.expected)'
    <3>1. shown'[d] = ShownAfter(d)
      BY <2>1, <2>2
    <3>2. ShownAfter(d) = Nothing \/ ShownAfter(d).seen >= command.expected
      BY <2>2, PassShows, NothingIsAView DEF Stands
    <3> QED BY <2>1, <3>1, <3>2 DEF Shows
  <2> QED BY <2>1, <2>2 DEF CommandIsFollowed
<1>3. CASE Loop
  <2>1. CASE requested /\ ~disposed
    BY <1>3, <2>1 DEF Loop, BeginPass, Editor, CommandIsFollowed
  <2>2. CASE ~(requested /\ ~disposed)
    <3>1. command' = IF command.step = "refreshing" THEN NoCommand ELSE command
      BY <1>3, <2>2 DEF Loop
    <3>2. command'.step # "refreshing" /\ (command' = command \/ command'.step = "none")
      BY <3>1 DEF NoCommand
    <3> QED BY <1>3, <3>2 DEF Loop, CommandIsFollowed
  <2> QED BY <2>1, <2>2
<1>4. CASE Dispose
  BY <1>4 DEF Dispose, CommandIsFollowed
<1>5. CASE Execute
  <2>1. CASE stored' = Changed /\ command' = [NoCommand EXCEPT !.step = "stored", !.expected = Stamp]
    <3>1. command'.step = "stored" /\ command'.expected = Stamp
      BY <2>1 DEF NoCommand
    <3>2. stored'.stamp = Stamp
      BY <1>5, <2>1, CommandsContinue DEF Execute, Continues
    <3> QED BY <1>0, <3>1, <3>2 DEF CommandIsFollowed
  <2>2. CASE command' = NoCommand
    BY <2>2 DEF NoCommand, CommandIsFollowed
  <2> QED BY <1>5, <2>1, <2>2 DEF Execute
<1>6. CASE Announce
  <2>1. stored' = stored /\ shown' = shown /\ disposed' = disposed
    BY <1>6 DEF Announce, Editor
  <2>2. \/ command' = command
        \/ command'.step = "none"
        \/ /\ command.step = "stored" /\ ~disposed
           /\ command' = [command EXCEPT !.step = "refreshing"] /\ Request(open)
    BY <1>6 DEF Announce, NoCommand
  <2>3. command'.step \in {"stored", "refreshing"} => command'.expected <= stored'.stamp
    BY <2>1, <2>2 DEF CommandIsFollowed, TypeOK, CommandRecord
  <2>4. CASE disposed
    BY <2>1, <2>3, <2>4 DEF CommandIsFollowed
  <2>5. CASE Request(open) /\ ~disposed
    BY <2>3, <2>5, RequestIsTaken DEF CommandIsFollowed
  <2>6. CASE UNCHANGED Worker /\ ~Request(open)
    <3>1. command' = command \/ command'.step = "none"
      BY <2>2, <2>6
    <3> QED BY <2>1, <2>3, <2>6, <3>1 DEF CommandIsFollowed, Shows, Worker
  <2> QED BY <1>6, <2>4, <2>5, <2>6 DEF Announce
<1>7. ASSUME stored'.stamp >= stored.stamp, stored'.stamp \in Nat, UNCHANGED <<Editor, Worker, command>>
      PROVE  CommandIsFollowed'
  BY <1>0, <1>7 DEF CommandIsFollowed, Shows, Editor, Worker
<1>8. CASE Answer
  <2>1. stored'.stamp = Stamp
    BY <1>8, AnswersContinue DEF Continues
  <2> QED BY <1>0, <1>7, <1>8, <2>1 DEF Answer
<1>9. CASE ChangeReview
  <2>1. stored'.stamp = stored.stamp
    BY <1>9, ReviewsKeepMessages
  <2> QED BY <1>0, <1>7, <1>9, <2>1 DEF ChangeReview
<1>10. ASSUME NEW d \in Document, OpenDocument(d) \/ CloseDocument(d) PROVE CommandIsFollowed'
  <2>1. /\ Request(open') /\ ~disposed /\ stored' = stored /\ command' = command
    BY <1>10 DEF OpenDocument, CloseDocument
  <2> QED BY <2>1, RequestIsTaken DEF CommandIsFollowed
<1>11. CASE Sends
  <2>1. command'.step \in {"none", "finding", "sent"}
    BY <1>11 DEF Sends
  <2> QED BY <2>1 DEF CommandIsFollowed
<1>12. CASE Retouches
  <2>1. \A d \in Document : Shows(d, command.expected) => Shows(d, command.expected)'
    BY <1>12 DEF Retouches, Retouched, Shows
  <2> QED BY <1>12, <2>1 DEF Retouches, CommandIsFollowed, Worker
<1>13. CASE UNCHANGED vars
  BY <1>0, <1>7, <1>13 DEF vars
<1> QED
  BY <1>1, <1>2, <1>3, <1>4, <1>5, <1>6, <1>8, <1>9, <1>10, <1>11, <1>12, <1>13, StepKinds

LEMMA PassInit == Init => PassIsCurrent
  BY DEF Init, PassIsCurrent

(* A view that stands for what is stored, where it belongs, is faithful.   *)
LEMMA PassIsFaithful ==
    ASSUME TypeOK, ViewsAreWhole, NEW d \in Document, pass.documents = open, pass.thread = stored,
           open' = open, stored' = stored, shown'[d] = ShownAfter(d)
    PROVE  Faithful(d)'
  BY PassShows DEF Faithful, Stands

LEMMA FaithfulStays ==
    ASSUME NEW d \in Document, Faithful(d), open' = open, stored' = stored, shown' = shown
    PROVE  Faithful(d)'
  BY DEF Faithful

LEMMA RetouchedIsFaithful ==
    ASSUME NEW d \in Document, Faithful(d), open' = open, stored' = stored,
           Retouched(shown[d], shown'[d])
    PROVE  Faithful(d)'
  BY DEF Faithful, Retouched, SameMessages

LEMMA PassStep ==
    ASSUME TypeOK, TextsAreTold, VersionsAreTold, ViewsAreWhole, PassIsCurrent, [Next]_vars
    PROVE  PassIsCurrent'
<1>1. CASE Read
  <2>1. /\ worker = "reading" /\ worker' = "showing" /\ pass'.documents = pass.documents
        /\ UNCHANGED <<stored, announced, open, shown, disposed, requested>>
        /\ (pass'.thread = stored /\ ~missed') \/ missed'
    BY <1>1 DEF Read, Fail, Editor, TypeOK
  <2> QED BY <2>1 DEF PassIsCurrent
<1>2. CASE Show
  <2>1. /\ worker = "showing" /\ worker' = "through"
        /\ UNCHANGED <<stored, announced, open, disposed, requested, missed>>
        /\ shown' = IF disposed THEN shown ELSE [d \in Document |-> ShownAfter(d)]
    BY <1>2 DEF Show
  <2>2. ASSUME ~disposed, announced, ~missed, ~requested, NEW d \in Document PROVE Faithful(d)'
    <3>1. pass.documents = open /\ pass.thread = stored
      BY <2>1, <2>2 DEF PassIsCurrent
    <3> QED BY <2>1, <2>2, <3>1, PassIsFaithful
  <2> QED BY <2>1, <2>2 DEF PassIsCurrent
<1>3. CASE Loop
  <2>1. UNCHANGED <<stored, announced, open, shown, disposed, missed>> /\ worker = "through"
    BY <1>3 DEF Loop, Editor
  <2>2. CASE requested /\ ~disposed
    <3>1. /\ ~requested' /\ worker' = "reading"
          /\ pass'.documents = open /\ pass'.thread = Unread
      BY <1>3, <2>2 DEF Loop, BeginPass
    <3> QED BY <2>1, <3>1 DEF PassIsCurrent
  <2>3. CASE ~(requested /\ ~disposed)
    <3>1. worker' = "idle" /\ requested' = requested /\ pass' = pass
      BY <1>3, <2>3 DEF Loop
    <3> QED BY <2>1, <2>3, <3>1, FaithfulStays DEF PassIsCurrent
  <2> QED BY <2>2, <2>3
<1>4. CASE Dispose
  BY <1>4 DEF Dispose, PassIsCurrent
<1>5. ASSUME UNCHANGED <<Editor, Worker>>, ~announced' PROVE PassIsCurrent'
  BY <1>5 DEF PassIsCurrent, Editor, Worker
<1>6. ASSUME UNCHANGED <<stored, announced, open, Worker, disposed, missed>>,
             \A d \in Document : shown[d] = Nothing => shown'[d] = Nothing,
             \A d \in Document : Faithful(d) => Faithful(d)'
      PROVE  PassIsCurrent'
  BY <1>6 DEF PassIsCurrent, Worker
<1>7. CASE Execute
  BY <1>5, <1>6, <1>7, FaithfulStays DEF Execute, Editor
<1>8. CASE Announce
  <2>1. UNCHANGED <<stored, open, shown, disposed>> /\ announced'
    BY <1>8 DEF Announce, Editor
  <2>2. CASE Request(open) /\ disposed
    BY <2>1, <2>2 DEF Request, PassIsCurrent, Worker
  <2>3. CASE Request(open) /\ ~disposed
    BY <2>1, <2>3, RequestIsTaken DEF PassIsCurrent
  <2>4. CASE UNCHANGED Worker /\ missed'
    BY <2>1, <2>4 DEF PassIsCurrent, Worker
  <2> QED BY <1>8, <2>2, <2>3, <2>4 DEF Announce, Fail
<1>9. CASE Answer
  BY <1>5, <1>9 DEF Answer
<1>10. CASE ChangeReview
  BY <1>5, <1>10 DEF ChangeReview
<1>11. ASSUME NEW d \in Document, OpenDocument(d) \/ CloseDocument(d) PROVE PassIsCurrent'
  <2>1. /\ Request(open') /\ ~disposed
        /\ UNCHANGED <<stored, announced, shown, disposed, missed>>
    BY <1>11 DEF OpenDocument, CloseDocument
  <2> QED BY <2>1, RequestIsTaken DEF PassIsCurrent
<1>12. CASE Sends
  BY <1>6, <1>12, FaithfulStays DEF Sends, Editor
<1>13. CASE Retouches
  <2>1. \A d \in Document : shown[d] = Nothing => shown'[d] = Nothing
    BY <1>13 DEF Retouches, Retouched
  <2>2. \A d \in Document : Faithful(d) => Faithful(d)'
    BY <1>13, RetouchedIsFaithful DEF Retouches
  <2> QED BY <1>6, <1>13, <2>1, <2>2 DEF Retouches
<1>14. CASE UNCHANGED vars
  BY <1>6, <1>14, FaithfulStays DEF vars, Editor
<1> QED
  BY <1>1, <1>2, <1>3, <1>4, <1>7, <1>8, <1>9, <1>10, <1>11, <1>12, <1>13, <1>14, StepKinds

-----------------------------------------------------------------------------
(* Theorems.                                                               *)

LEMMA Invariance == Spec => []Inv
<1>1. Init => Inv
  BY TypeInit, TextsInit, VersionsInit, ViewsInit, CommandInit, PassInit DEF Inv
<1>2. Inv /\ [Next]_vars => Inv'
  BY TypeStep, TextsStep, VersionsStep, ViewsStep, CommandStep, PassStep DEF Inv
<1> QED BY <1>1, <1>2, PTL DEF Spec

(* At rest the editor shows what is stored, where it belongs, unless a     *)
(* failure has been missed: the worker of #refreshWorker loses no request. *)
THEOREM RestShowsTheStore == Spec => []RestIsUpToDate
<1>1. Inv => RestIsUpToDate
  <2> SUFFICES ASSUME Inv, worker = "idle", disposed \/ (announced /\ ~missed) PROVE UpToDate
    BY DEF RestIsUpToDate
  <2> QED BY DEF Inv, PassIsCurrent, UpToDate
<1> QED BY <1>1, Invariance, PTL

(* The version that assertExpectedThread compares stands for the messages  *)
(* the user had in front of him in the editor, or findThread found for the *)
(* Comments tree: a command is carried out on those only.                  *)
THEOREM CommandsHitWhatWasRead == Spec => CommandsActOnWhatWasRead
<1> DEFINE Holds == command.step = "sent" /\ command'.step = "stored"
                        => command.basis = stored.messages
<1>1. Inv /\ [Next]_vars => [Holds]_vars
  <2> SUFFICES ASSUME Inv, [Next]_vars, command.step = "sent", command'.step = "stored"
               PROVE  command.basis = stored.messages
    OBVIOUS
  <2>1. CASE Execute
    <3>1. stored.stamp = command.expected
      BY <2>1, EndsOfCommands DEF Execute, Allowed
    <3> QED BY <3>1 DEF Inv, VersionsAreTold
  <2>2. CASE ~Execute
    <3>1. \/ command' = command
          \/ command' = NoCommand
          \/ command.step \in {"none", "finding", "stored"}
      BY <2>2, StepKinds DEF Inv, Read, Show, Loop, Dispose, Announce, Answer, ChangeReview,
         OpenDocument, CloseDocument, Sends, Retouches, vars
    <3> QED BY <3>1, EndsOfCommands
  <2> QED BY <2>1, <2>2
<1> QED BY <1>1, Invariance, PTL DEF Spec, CommandsActOnWhatWasRead

(* A command that has waited for its refresh ends when its result is shown *)
(* in every document that shows the thread.                                *)
THEOREM CommandsEndShown == Spec => ResultIsShown
<1> DEFINE Holds == command.step = "refreshing" /\ command' = NoCommand =>
                        \A d \in Document : shown[d] = Nothing \/ shown[d].seen >= command.expected
<1>1. Inv /\ [Next]_vars => [Holds]_vars
  <2> SUFFICES ASSUME Inv, [Next]_vars, command.step = "refreshing", command' = NoCommand,
                      NEW d \in Document
               PROVE  shown[d] = Nothing \/ shown[d].seen >= command.expected
    OBVIOUS
  <2>1. CASE Loop
    <3>1. worker = "through" /\ (~requested \/ disposed)
      BY <2>1 DEF Loop, NoCommand
    <3> QED BY <3>1 DEF Inv, CommandIsFollowed, PassIsCurrent, Shows
  <2>2. CASE ~Loop
    <3>1. command' = command \/ command.step \in {"none", "finding", "sent", "stored"}
      BY <2>2, StepKinds DEF Inv, Read, Show, Dispose, Execute, Announce, Answer, ChangeReview,
         OpenDocument, CloseDocument, Sends, Retouches, vars
    <3> QED BY <3>1 DEF NoCommand
  <2> QED BY <2>1, <2>2
<1> QED BY <1>1, Invariance, PTL DEF Spec, ResultIsShown

(* A draft stays in a document when the pass has read the messages as they *)
(* are shown: updateEntry renders them anew only if they look different.   *)
THEOREM DraftsAreKept == Spec => DraftsStay
<1> DEFINE Holds ==
        worker = "showing" /\ worker' = "through" /\ ~disposed =>
            \A d \in pass.documents \cap Places(pass.thread) :
                Basis(d) = pass.thread.messages /\ shown[d].writable = Writable(d, pass.thread) =>
                    \A i \in DOMAIN shown[d].comments :
                        shown[d].comments[i].editing => shown'[d].comments[i].editing
<1>1. Inv /\ [Next]_vars => [Holds]_vars
  <2> SUFFICES ASSUME Inv, [Next]_vars, worker = "showing", worker' = "through", ~disposed,
                      NEW d \in pass.documents \cap Places(pass.thread),
                      Basis(d) = pass.thread.messages,
                      shown[d].writable = Writable(d, pass.thread),
                      NEW i \in DOMAIN shown[d].comments, shown[d].comments[i].editing
               PROVE  shown'[d].comments[i].editing
    OBVIOUS
  <2>1. Show
    BY StepKinds, RequestIsTaken DEF Inv, Read, Loop, Dispose, Execute, Announce, Answer,
       ChangeReview, OpenDocument, CloseDocument, Sends, Retouches, vars, Worker,
       BeginPass
  <2>2. d \in Document /\ shown[d] \in View /\ pass.thread \in Thread /\ Whole(shown[d])
    BY DEF Inv, TypeOK, ViewsAreWhole
  <2>3. shown[d] # Nothing
    <3>1. DOMAIN Nothing.comments = {}
      BY NothingIsAView
    <3> QED BY <3>1
  <2> DEFINE t == pass.thread
             fresh == Rendered(d, t)
             cs == shown[d].comments
  <2>4. SameMessages(cs, fresh)
    <3>1. DOMAIN cs = DOMAIN fresh /\ DOMAIN cs = DOMAIN t.messages
      BY <2>2, RenderedIsWhole DEF Basis
    <3>2. ASSUME NEW j \in DOMAIN cs
          PROVE  cs[j].message = fresh[j].message /\ cs[j].editable = fresh[j].editable
      <4>1. cs[j].message = t.messages[j]
        BY DEF Basis
      <4>2. fresh[j].message = t.messages[j]
        BY <2>2, <3>1, RenderedIsWhole
      <4>3. fresh[j].editable = (shown[d].writable /\ cs[j].message.author = "user")
        BY <2>2, <3>1, <4>1, RenderedIsWhole
      <4>4. cs[j].editable <=> (shown[d].writable /\ cs[j].message.author = "user")
        BY <2>2 DEF Whole
      <4>5. cs[j].editable \in BOOLEAN /\ fresh[j].editable \in BOOLEAN
        <5>1. cs[j] \in Comment
          BY <2>2, MessagesAreMessages
        <5>2. fresh \in Seq(Comment) /\ j \in DOMAIN fresh
          BY <2>2, <3>1, RenderedIsWhole
        <5> HIDE DEF fresh, cs
        <5>3. fresh[j] \in Comment
          BY <5>2, ElementOfSeq, LenProperties
        <5> QED BY <5>1, <5>3 DEF Comment
      <4> HIDE DEF cs, fresh, t
      <4> QED BY <4>1, <4>2, <4>3, <4>4, <4>5
    <3> HIDE DEF cs, fresh, t
    <3> QED BY <3>1, <3>2, SignaturesAgree DEF SameMessages
  <2>5. shown'[d] = Entry(d, t, [j \in DOMAIN fresh |-> [cs[j] EXCEPT !.seen = t.stamp]])
    BY <2>1, <2>2, <2>3, <2>4 DEF Show, ShownAfter, UpdatedEntry
  <2>6. shown'[d].comments[i] = [cs[i] EXCEPT !.seen = t.stamp]
    <3>1. i \in DOMAIN fresh
      BY <2>4, SignaturesTell
    <3> HIDE DEF fresh, cs
    <3> QED BY <2>5, <3>1 DEF Entry
  <2>7. cs[i] \in Comment
    BY <2>2, MessagesAreMessages
  <2>8. [cs[i] EXCEPT !.seen = t.stamp].editing = cs[i].editing
    BY <2>7 DEF Comment
  <2> QED BY <2>6, <2>8
<1> QED BY <1>1, Invariance, PTL DEF Spec, DraftsStay
=============================================================================
