-------------------------- MODULE AppSessionProofs --------------------------
(***************************************************************************)
(* The safety of the session for any sessions, messages, starts and        *)
(* notices: files are whole, what is shown is saved once no turn is under  *)
(* way, and what was deleted stays so. The argument is about who may save  *)
(* under which id: the UI thread under the current one, the worker under   *)
(* the one its turn captured, which is the current one unless the session  *)
(* was left in mid-turn.                                                   *)
(***************************************************************************)
EXTENDS AppSession, SequenceTheorems, TLAPS

-----------------------------------------------------------------------------
(* The inductive invariant.                                                *)

StoreTypes ==
  /\ files \in [Ids -> Seq(Message) \union {Missing, Torn}]
  /\ tmp \subseteq Ids
  /\ newer \subseteq Ids \X Ids
  /\ saver \in [Threads -> [id : Ids \union {Missing}, data : Seq(Message),
                            on : {"tmp", "file", "gone", "none"}]]
  /\ shared \subseteq Ids

\* A session no two threads were saving: its file is whole, its one saver has the temporary
\* file open, or one that is gone.
Apart(s) ==
  /\ files[s] # Torn
  /\ \A t \in Threads : saver[t].id = s =>
       /\ \A u \in Threads : saver[u].id = s => u = t
       /\ (saver[t].on = "tmp" /\ s \in tmp) \/ (saver[t].on = "gone" /\ s \notin tmp)

AppTypes ==
  /\ ui \in {"down", "choosing", "open", "saving", "waiting", "picker", "leaving", "gone"}
  /\ after \in {"down", "open", "picker", "leaving"}
  /\ sessionId \in Ids \union {Missing} /\ (sessionId = Missing => ui \in {"down", "choosing"})
  /\ messages \in Seq(Message)
  /\ cancel \in BOOLEAN /\ running \in BOOLEAN /\ thinking \in BOOLEAN
  /\ jobs \in Seq(Ids) /\ turn \in Ids \union {Missing} /\ wpc \in Places
  /\ (turn = Missing <=> wpc = "free") /\ (running <=> wpc # "free")
  /\ posts \in Seq({"show", "think"})
  /\ made \subseteq Ids /\ mixed \subseteq Ids /\ deleted \subseteq Ids
  /\ sent \in 0 .. MaxSends /\ starts \in 0 .. MaxStarts
  /\ visits \in 0 .. MaxVisits /\ notices \in 0 .. MaxNotices

Store == \A s \in Ids \ shared : Apart(s)

\* Who saves, and under which id.
Savers ==
  /\ IF ui = "saving" THEN saver["ui"].id = sessionId /\ after \in {"open", "picker", "leaving"}
                      ELSE saver["ui"].id = Missing
  /\ IF wpc = "saving" THEN saver["worker"].id = turn ELSE saver["worker"].id = Missing
  /\ ui \in {"down", "choosing"} => sessionId = Missing /\ ~Busy

\* A turn queued or running belongs to the current session or to one left in mid-turn.
Captured ==
  /\ \A i \in 1 .. Len(jobs) : jobs[i] = sessionId \/ {jobs[i], sessionId} \subseteq mixed
  /\ turn = Missing \/ turn = sessionId \/ {turn, sessionId} \subseteq mixed

\* The current session, while there is a vector of its messages: what its file holds, or its
\* saver will write.
Current == sessionId \in Ids \ (mixed \union shared) /\ ui # "gone" =>
  /\ ~Busy /\ ui # "saving" /\ messages # <<>> => files[sessionId] = messages
  /\ ~Busy /\ ui = "saving" => saver["ui"].data = messages
  /\ ui = "saving" => saver["ui"].on = "tmp"
  /\ wpc = "saving" /\ turn = sessionId => saver["worker"].data = messages /\ saver["worker"].on = "tmp"

\* Ids that were given out, and sessions that are gone for good.
Known ==
  /\ sessionId \in made \union {Missing} /\ turn \in made \union {Missing}
  /\ \A i \in 1 .. Len(jobs) : jobs[i] \in made
  /\ \A s \in Ids : files[s] # Missing => s \in made
  /\ \A s \in deleted \ mixed : files[s] = Missing /\ s \in made /\ s # sessionId

SessionInv == StoreTypes /\ AppTypes /\ Store /\ Savers /\ Captured /\ Current /\ Known

-----------------------------------------------------------------------------
(* The operations of the store.                                            *)

LEMMA Types == TypeOK <=> StoreTypes /\ AppTypes
BY DEF TypeOK, StoreTypes, AppTypes

LEMMA TouchedType == ASSUME newer \subseteq Ids \X Ids, NEW s \in Ids PROVE Touched(s) \subseteq Ids \X Ids
BY DEF Touched

LEMMA Begun ==
  ASSUME StoreTypes, Store, NEW t \in Threads, NEW s \in Ids, NEW d \in Seq(Message),
         saver[t].id = Missing, BeginSave(t, s, d)
  PROVE  /\ StoreTypes' /\ Store' /\ files' = files /\ shared \subseteq shared'
         /\ saver'[t] = [id |-> s, data |-> d, on |-> "tmp"]
         /\ \A u \in Threads \ {t} : saver'[u] = saver[u] /\ (saver[u].id = s => s \in shared')
<1>1. saver'[t] = [id |-> s, data |-> d, on |-> "tmp"] /\ \A u \in Threads \ {t} : saver'[u] = saver[u]
  BY DEF BeginSave, StoreTypes
<1>2. files' = files /\ newer' = newer /\ tmp' = tmp \union {s} /\ shared \subseteq shared' /\ shared' \subseteq Ids
  BY DEF BeginSave, StoreTypes
<1>3. \A u \in Threads \ {t} : saver[u].id = s => s \in shared'
  BY DEF BeginSave, Others
<1>4. StoreTypes'
  <2>1. saver' \in [Threads -> [id : Ids \union {Missing}, data : Seq(Message),
                                on : {"tmp", "file", "gone", "none"}]]
    BY DEF BeginSave, StoreTypes
  <2> QED  BY <1>2, <2>1 DEF StoreTypes
<1>5. ASSUME NEW r \in Ids \ shared' PROVE Apart(r)'
  <2>1. Apart(r)
    BY <1>2 DEF Store
  <2>2. CASE r = s
    <3>1. \A u \in Threads : saver'[u].id = s => u = t
      BY <1>1, <1>3, <2>2
    <3> QED  BY <1>1, <1>2, <2>1, <2>2, <3>1 DEF Apart
  <2>3. CASE r # s
    <3>1. \A u \in Threads : saver'[u].id = r => u # t /\ saver'[u] = saver[u]
      BY <1>1, <2>3
    <3>2. r \in tmp' <=> r \in tmp
      BY <1>2, <2>3
    <3> QED  BY <1>2, <2>1, <3>1, <3>2 DEF Apart
  <2> QED  BY <2>2, <2>3
<1> QED  BY <1>1, <1>2, <1>3, <1>4, <1>5 DEF Store

LEMMA Finished ==
  ASSUME StoreTypes, Store, NEW t \in Threads, EndSave(t)
  PROVE  /\ StoreTypes' /\ Store' /\ shared' = shared /\ saver[t].id \in Ids
         /\ saver'[t] = NotSaving
         /\ \A u \in Threads \ {t} : saver'[u].id = saver[u].id /\ saver'[u].data = saver[u].data
                                     /\ (saver[u].id # saver[t].id => saver'[u] = saver[u])
         /\ \A r \in Ids : r # saver[t].id => files'[r] = files[r]
         /\ saver[t].id \notin shared /\ saver[t].on = "tmp" => files'[saver[t].id] = saver[t].data
         /\ saver[t].id \notin shared /\ saver[t].on = "gone" => files'[saver[t].id] = files[saver[t].id]
<1> DEFINE s == saver[t].id
           w == saver[t]
<1>1. s \in Ids /\ shared' = shared /\ w.data \in Seq(Message) /\ w.on \in {"tmp", "file", "gone", "none"}
  BY DEF EndSave, Saving, StoreTypes
<1>2. /\ saver' = [u \in Threads |->
                    IF u = t THEN NotSaving
                    ELSE IF u \in Others(t, s) /\ saver[u].on = "tmp" THEN [saver[u] EXCEPT !.on = "file"]
                    ELSE saver[u]]
      /\ tmp' = tmp \ {s}
  BY DEF EndSave
<1>3. PICK c \in Written(t) :
        CASE w.on = "tmp" -> files' = [files EXCEPT ![s] = c] /\ newer' = Touched(s)
          [] w.on = "file" -> files' = [files EXCEPT ![s] = IF s \in tmp THEN Torn ELSE c] /\ newer' = Touched(s)
          [] OTHER -> /\ files' = [files EXCEPT ![s] = IF s \in tmp THEN Torn ELSE @]
                      /\ newer' = IF s \in tmp THEN Touched(s) ELSE newer
  BY DEF EndSave
<1>4. c \in {w.data, Torn}
  BY DEF Written
<1>5. PICK v \in {c, Torn, files[s]} :
        /\ files' = [files EXCEPT ![s] = v]
        /\ w.on = "tmp" => v = c
        /\ w.on = "gone" /\ s \notin tmp => v = files[s]
  <2>1. CASE w.on = "tmp"
    <3>1. files' = [files EXCEPT ![s] = c]  BY <1>3, <2>1
    <3> QED  BY <2>1, <3>1
  <2>2. CASE w.on = "file"
    <3>1. files' = [files EXCEPT ![s] = IF s \in tmp THEN Torn ELSE c]  BY <1>3, <2>2
    <3>2. CASE s \in tmp
      <4>1. files' = [files EXCEPT ![s] = Torn]  BY <3>1, <3>2
      <4> QED  BY <2>2, <4>1
    <3>3. CASE s \notin tmp
      <4>1. files' = [files EXCEPT ![s] = c]  BY <3>1, <3>3
      <4> QED  BY <2>2, <4>1
    <3> QED  BY <3>2, <3>3
  <2>3. CASE w.on \in {"gone", "none"}
    <3>1. files' = [files EXCEPT ![s] = IF s \in tmp THEN Torn ELSE files[s]]  BY <1>3, <2>3
    <3>2. CASE s \in tmp
      <4>1. files' = [files EXCEPT ![s] = Torn]  BY <3>1, <3>2
      <4> QED  BY <2>3, <3>2, <4>1
    <3>3. CASE s \notin tmp
      <4>1. files' = [files EXCEPT ![s] = files[s]]  BY <3>1, <3>3
      <4> QED  BY <2>3, <4>1
    <3> QED  BY <3>2, <3>3
  <2> QED  BY <1>1, <2>1, <2>2, <2>3
<1>6. \A r \in Ids : r # s => files'[r] = files[r]
  BY <1>1, <1>5 DEF StoreTypes
<1>7. saver'[t] = NotSaving
      /\ \A u \in Threads \ {t} : /\ saver'[u].id = saver[u].id /\ saver'[u].data = saver[u].data
                                  /\ saver[u].id # s => saver'[u] = saver[u]
  BY <1>2 DEF StoreTypes, Others
<1>8. ASSUME s \notin shared
      PROVE  /\ w.on = "tmp" => files'[s] = w.data
             /\ w.on = "gone" => files'[s] = files[s]
             /\ files'[s] # Torn
             /\ \A u \in Threads \ {t} : saver[u].id # s
  <2>1. Apart(s)
    BY <1>1, <1>8 DEF Store
  <2>2. (w.on = "tmp" /\ s \in tmp) \/ (w.on = "gone" /\ s \notin tmp)
    BY <2>1 DEF Apart
  <2>3. \A u \in Threads \ {t} : saver[u].id # s
    BY <2>1 DEF Apart
  <2>4. c = w.data
    BY <2>2, <2>3 DEF Written, Others
  <2>5. w.data # Torn
    BY <1>1, SentinelAssumption
  <2>6. CASE w.on = "tmp"
    <3>1. files'[s] = c  BY <1>1, <1>5, <2>6 DEF StoreTypes
    <3> QED  BY <2>3, <2>4, <2>5, <2>6, <3>1
  <2>7. CASE w.on = "gone" /\ s \notin tmp
    <3>1. files'[s] = files[s]  BY <1>1, <1>5, <2>7 DEF StoreTypes
    <3> QED  BY <2>1, <2>3, <2>7, <3>1 DEF Apart
  <2> QED  BY <2>2, <2>6, <2>7
<1>9. StoreTypes'
  <2>1. files' \in [Ids -> Seq(Message) \union {Missing, Torn}]
    <3>1. v \in Seq(Message) \union {Missing, Torn}  BY <1>1, <1>4, <1>5 DEF StoreTypes
    <3> QED  BY <1>1, <1>5, <3>1 DEF StoreTypes
  <2>2. newer' \subseteq Ids \X Ids
    <3>1. newer' = Touched(s) \/ newer' = newer
      BY <1>3
    <3> QED  BY <1>1, <3>1, TouchedType DEF StoreTypes
  <2>3. saver' \in [Threads -> [id : Ids \union {Missing}, data : Seq(Message),
                                on : {"tmp", "file", "gone", "none"}]]
    <3>1. NotSaving \in [id : Ids \union {Missing}, data : Seq(Message), on : {"tmp", "file", "gone", "none"}]
      BY EmptySeq DEF NotSaving
    <3> QED  BY <1>2, <3>1 DEF StoreTypes
  <2> QED  BY <1>1, <1>2, <2>1, <2>2, <2>3 DEF StoreTypes
<1>10. ASSUME NEW r \in Ids \ shared' PROVE Apart(r)'
  <2>1. Apart(r) /\ r \notin shared
    BY <1>1, <1>10 DEF Store
  <2>2. Missing \notin Ids /\ NotSaving.id = Missing
    BY SentinelAssumption DEF NotSaving
  <2>3. CASE r = s
    <3>1. \A u \in Threads : saver'[u].id # r
      BY <1>7, <1>8, <2>1, <2>2, <2>3
    <3> QED  BY <1>8, <2>1, <2>3, <3>1 DEF Apart
  <2>4. CASE r # s
    <3>1. \A u \in Threads : saver'[u].id = r => saver'[u] = saver[u]
      BY <1>7, <2>2, <2>4
    <3>2. files'[r] = files[r] /\ (r \in tmp' <=> r \in tmp)
      BY <1>2, <1>6, <2>4
    <3> QED  BY <2>1, <3>1, <3>2 DEF Apart
  <2> QED  BY <2>3, <2>4
<1> QED  BY <1>1, <1>6, <1>7, <1>8, <1>9, <1>10 DEF Store

LEMMA Deleted ==
  ASSUME StoreTypes, Store, NEW s \in Ids, Removed(s)
  PROVE  /\ StoreTypes' /\ Store' /\ shared' = shared /\ files'[s] = Missing
         /\ \A r \in Ids : r # s => files'[r] = files[r]
         /\ \A u \in Threads : /\ saver'[u].id = saver[u].id /\ saver'[u].data = saver[u].data
                               /\ saver[u].id # s => saver'[u] = saver[u]
<1>1. files'[s] = Missing /\ (\A r \in Ids : r # s => files'[r] = files[r])
      /\ shared' = shared /\ tmp' = tmp \ {s}
  BY DEF Removed, StoreTypes
<1>2. \A u \in Threads : /\ saver'[u].id = saver[u].id /\ saver'[u].data = saver[u].data
                         /\ saver[u].id = s => saver'[u].on = "gone"
                         /\ saver[u].id # s => saver'[u] = saver[u]
  BY DEF Removed, StoreTypes
<1>3. StoreTypes'
  <2>1. files' \in [Ids -> Seq(Message) \union {Missing, Torn}] /\ newer' \subseteq Ids \X Ids
        /\ tmp' \subseteq Ids /\ shared' \subseteq Ids
    BY DEF Removed, StoreTypes
  <2>2. saver' \in [Threads -> [id : Ids \union {Missing}, data : Seq(Message),
                                on : {"tmp", "file", "gone", "none"}]]
    BY DEF Removed, StoreTypes
  <2> QED  BY <2>1, <2>2 DEF StoreTypes
<1>4. ASSUME NEW r \in Ids \ shared' PROVE Apart(r)'
  <2>1. Apart(r)
    BY <1>1, <1>4 DEF Store
  <2>2. CASE r = s
    <3>1. files'[r] # Torn /\ r \notin tmp'
      BY <1>1, <2>2, SentinelAssumption
    <3> QED  BY <1>2, <2>1, <2>2, <3>1 DEF Apart
  <2>3. CASE r # s
    <3>1. files'[r] = files[r] /\ (r \in tmp' <=> r \in tmp)
      BY <1>1, <2>3
    <3>2. \A u \in Threads : saver'[u].id = r => saver'[u] = saver[u]
      BY <1>2, <2>3
    <3> QED  BY <1>2, <2>1, <3>1, <3>2 DEF Apart
  <2> QED  BY <2>2, <2>3
<1> QED  BY <1>1, <1>2, <1>3, <1>4 DEF Store

\* A step that leaves the store alone.
LEMMA StoreStays ==
  ASSUME StoreTypes, Store, UNCHANGED storeVars
  PROVE  StoreTypes' /\ Store'
BY DEF StoreTypes, Store, Apart, storeVars

-----------------------------------------------------------------------------
(* Queues, and the steps that leave the sessions alone.                    *)

LEMMA Popped ==
  ASSUME NEW S, NEW q \in Seq(S), q # <<>>
  PROVE  /\ Tail(q) \in Seq(S) /\ Head(q) \in S /\ Head(q) = q[1] /\ 1 \in 1 .. Len(q)
         /\ \A i \in 1 .. Len(Tail(q)) : i + 1 \in 1 .. Len(q) /\ Tail(q)[i] = q[i + 1]
<1>1. Len(q) \in Nat /\ Len(q) # 0
  BY EmptySeq, LenProperties
<1>2. Tail(q) \in Seq(S) /\ Head(q) \in S /\ Len(Tail(q)) = Len(q) - 1
      /\ \A i \in 1 .. Len(Tail(q)) : Tail(q)[i] = q[i + 1]
  BY HeadTailProperties
<1> QED  BY <1>1, <1>2

LEMMA Pushed ==
  ASSUME NEW S, NEW q \in Seq(S), NEW x \in S
  PROVE  /\ Append(q, x) \in Seq(S) /\ Append(q, x) # <<>>
         /\ \A i \in 1 .. Len(Append(q, x)) :
              \/ i \in 1 .. Len(q) /\ Append(q, x)[i] = q[i]
              \/ Append(q, x)[i] = x
<1>1. Append(q, x) \in Seq(S) /\ Len(Append(q, x)) = Len(q) + 1 /\ Len(q) \in Nat
      /\ (\A i \in 1 .. Len(q) : Append(q, x)[i] = q[i]) /\ Append(q, x)[Len(q) + 1] = x
  BY AppendProperties, LenProperties
<1> QED  BY <1>1

LEMMA PostType ==
  ASSUME posts \in Seq({"show", "think"}), Post(<<"show">>) \/ Post(<<"show", "think">>)
  PROVE  posts' \in Seq({"show", "think"})
<1> DEFINE S == {"show", "think"}
<1>1. PICK ts \in {<<"show">>, <<"show", "think">>} : posts' \in {posts, posts \o Tail(ts), posts \o ts}
  BY DEF Post, Posted
<1>2. ts \in Seq(S) /\ ts # <<>>
  <2>1. <<"show">> \in Seq(S) /\ <<"show">> # <<>>
    OBVIOUS
  <2>2. <<"show", "think">> \in Seq(S) /\ <<"show", "think">> # <<>>
    OBVIOUS
  <2> QED  BY <2>1, <2>2
<1>3. Tail(ts) \in Seq(S)
  BY <1>2, Popped
<1> QED  BY <1>1, <1>2, <1>3, ConcatProperties

LEMMA TwoThreads == "ui" \in Threads /\ "worker" \in Threads /\ "ui" # "worker" /\ Missing \notin Ids
BY ThreadsAssumption, SentinelAssumption

LEMMA Aside ==
  ASSUME SessionInv, AppTypes',
         UNCHANGED <<storeVars, after, sessionId, messages, turnVars, made, histVars>>,
         \/ ui' = ui
         \/ ui \in {"open", "waiting", "picker", "leaving"} /\ ui' \in {"open", "waiting", "leaving", "gone"}
  PROVE  SessionInv'
<1>1. StoreTypes' /\ Store'
  BY StoreStays DEF SessionInv
<1>2. Busy' = Busy /\ saver' = saver /\ files' = files /\ shared' = shared
  BY DEF Busy, turnVars, storeVars
<1>3. Savers' /\ Captured' /\ Current' /\ Known'
  BY <1>2 DEF SessionInv, Savers, Captured, Current, Known, turnVars, histVars
<1> QED  BY <1>1, <1>3 DEF SessionInv

LEMMA AsideSteps ==
  ASSUME SessionInv, RunPosted \/ Refuse \/ Notice \/ Sessions \/ LeavePicker \/ Quit \/ Destroy
  PROVE  SessionInv'
<1> USE BoundsAssumption DEF viewVars, turnVars, bounds, histVars
<1>1. CASE RunPosted
  <2>1. posts' \in Seq({"show", "think"})
    BY <1>1, Popped DEF SessionInv, AppTypes, RunPosted
  <2>2. AppTypes'
    BY <1>1, <2>1 DEF SessionInv, AppTypes, RunPosted
  <2> QED  BY <1>1, <2>2, Aside DEF RunPosted
<1>2. CASE Refuse
  <2>1. posts' \in Seq({"show", "think"})
    BY <1>2, PostType DEF SessionInv, AppTypes, Refuse
  <2>2. AppTypes'
    BY <1>2, <2>1 DEF SessionInv, AppTypes, Refuse
  <2> QED  BY <1>2, <2>2, Aside DEF Refuse
<1>3. CASE Notice
  <2>1. posts' \in Seq({"show", "think"})
    BY <1>3, PostType DEF SessionInv, AppTypes, Notice
  <2>2. AppTypes'
    BY <1>3, <2>1 DEF SessionInv, AppTypes, Notice
  <2> QED  BY <1>3, <2>2, Aside DEF Notice
<1>4. CASE Sessions
  <2>1. AppTypes'
    BY <1>4 DEF SessionInv, AppTypes, Sessions, Entered
  <2> QED  BY <1>4, <2>1, Aside DEF Sessions, Entered
<1>5. CASE LeavePicker
  <2>1. AppTypes'
    BY <1>5 DEF SessionInv, AppTypes, LeavePicker, Back
  <2> QED  BY <1>5, <2>1, Aside DEF LeavePicker, Back
<1>6. CASE Quit
  <2>1. AppTypes'
    BY <1>6 DEF SessionInv, AppTypes, Quit
  <2> QED  BY <1>6, <2>1, Aside DEF Quit
<1>7. CASE Destroy
  <2>1. posts' \in Seq({"show", "think"})
    BY <1>7, EmptySeq DEF Destroy
  <2>2. AppTypes'
    BY <1>7, <2>1 DEF SessionInv, AppTypes, Destroy
  <2> QED  BY <1>7, <2>2, Aside DEF Destroy
<1> QED  BY <1>1, <1>2, <1>3, <1>4, <1>5, <1>6, <1>7

-----------------------------------------------------------------------------
(* The UI thread: the sessions it opens, saves, deletes and switches to.   *)

LEMMA Opened ==
  ASSUME SessionInv, ui \in {"down", "choosing"}, AppTypes', ui' = "open",
         UNCHANGED <<storeVars, after, turnVars, histVars>>,
         NEW s \in Ids, sessionId' = s, made \subseteq made',
         \/ s \notin made /\ messages' = <<>> /\ s \in made'
         \/ Readable(s) /\ messages' = files[s]
  PROVE  SessionInv'
<1>1. StoreTypes' /\ Store'
  BY StoreStays DEF SessionInv
<1>2. saver' = saver /\ files' = files /\ shared' = shared /\ mixed' = mixed /\ deleted' = deleted
      /\ jobs' = jobs /\ turn' = turn /\ wpc' = wpc
  BY DEF turnVars, storeVars, histVars
<1>3. jobs = <<>> /\ wpc = "free" /\ turn = Missing /\ saver["ui"].id = Missing /\ saver["worker"].id = Missing
  BY DEF SessionInv, Savers, Busy, AppTypes
<1>4. Savers' /\ Captured'
  BY <1>2, <1>3, EmptySeq DEF Savers, Captured, Busy
<1>5. Current'
  BY <1>2, <1>3 DEF Current
<1>6. s \in made' /\ s \notin deleted \ mixed
  BY DEF SessionInv, Known, Readable
<1>7. Known'
  BY <1>2, <1>3, <1>6, EmptySeq DEF SessionInv, Known
<1> QED  BY <1>1, <1>4, <1>5, <1>7 DEF SessionInv

LEMMA OpeningSteps ==
  ASSUME SessionInv, Start \/ ChooseAtStart
  PROVE  SessionInv'
<1> USE BoundsAssumption DEF viewVars
<1>1. ASSUME NEW s \in Ids, OpenFresh(s), ui \in {"down", "choosing"}, starts' \in 0 .. MaxStarts,
             UNCHANGED <<storeVars, after, cancel, viewVars, turnVars, sent, visits, notices, histVars>>
      PROVE  SessionInv'
  <2>1. s \notin made /\ s \in made' /\ made \subseteq made' /\ made' \subseteq Ids
    BY <1>1 DEF OpenFresh, NewId, SessionInv, AppTypes
  <2>2. AppTypes'
    BY <1>1, <2>1, EmptySeq, SentinelAssumption DEF SessionInv, AppTypes, OpenFresh, turnVars, histVars
  <2> QED  BY <1>1, <2>1, <2>2, Opened DEF OpenFresh
<1>2. ASSUME NEW s \in Ids, Readable(s), OpenSaved(s), ui \in {"down", "choosing"}, starts' \in 0 .. MaxStarts,
             UNCHANGED <<storeVars, after, cancel, viewVars, turnVars, sent, visits, notices, histVars>>
      PROVE  SessionInv'
  <2>1. files[s] \in Seq(Message)
    BY <1>2 DEF SessionInv, StoreTypes, Readable
  <2>2. AppTypes'
    BY <1>2, <2>1, SentinelAssumption DEF SessionInv, AppTypes, OpenSaved, turnVars, histVars
  <2> QED  BY <1>2, <2>2, Opened DEF OpenSaved
<1>3. CASE Start
  <2>1. starts' \in 0 .. MaxStarts
    BY <1>3 DEF SessionInv, AppTypes, Start
  <2>2. CASE ui' = "choosing" /\ UNCHANGED <<sessionId, messages, made>>
    <3>1. AppTypes'
      BY <1>3, <2>1, <2>2 DEF SessionInv, AppTypes, Start, turnVars, histVars
    <3>2. StoreTypes' /\ Store'
      BY <1>3, StoreStays DEF SessionInv, Start
    <3>3. Savers' /\ Captured' /\ Current' /\ Known'
      BY <1>3, <2>2 DEF SessionInv, Savers, Captured, Current, Known, Busy, Start, storeVars, turnVars, histVars
    <3> QED  BY <3>1, <3>2, <3>3 DEF SessionInv
  <2> QED  BY <1>1, <1>2, <1>3, <2>1, <2>2 DEF Start, Latest
<1>4. CASE ChooseAtStart
  <2>1. starts' \in 0 .. MaxStarts
    BY <1>4 DEF SessionInv, AppTypes, ChooseAtStart
  <2> QED  BY <1>1, <1>2, <1>4, <2>1 DEF ChooseAtStart
<1> QED  BY <1>3, <1>4

\* The UI thread begins to save the conversation under the current session.
LEMMA UiSaves ==
  ASSUME SessionInv, ui \in {"open", "waiting"}, AppTypes', NEW next \in {"picker", "leaving"},
         SaveTurn(sessionId, messages, next),
         UNCHANGED <<sessionId, messages, turnVars, made, histVars>>
  PROVE  SessionInv'
<1>1. sessionId \in Ids /\ saver["ui"].id = Missing /\ messages \in Seq(Message)
  BY DEF SessionInv, AppTypes, Savers
<1>2. BeginSave("ui", sessionId, messages) /\ ui' = "saving" /\ after' = next
  BY DEF SaveTurn
<1>3. /\ StoreTypes' /\ Store' /\ files' = files /\ shared \subseteq shared'
      /\ saver'["ui"] = [id |-> sessionId, data |-> messages, on |-> "tmp"]
      /\ saver'["worker"] = saver["worker"] /\ (saver["worker"].id = sessionId => sessionId \in shared')
  BY <1>1, <1>2, Begun, TwoThreads DEF SessionInv
<1>4. jobs' = jobs /\ turn' = turn /\ wpc' = wpc /\ mixed' = mixed /\ deleted' = deleted
  BY DEF turnVars, histVars
<1>5. Savers' /\ Captured' /\ Known'
  BY <1>2, <1>3, <1>4 DEF SessionInv, Savers, Captured, Known, Busy
<1>6. Current'
  BY <1>2, <1>3, <1>4 DEF SessionInv, Current, Busy
<1> QED  BY <1>3, <1>5, <1>6 DEF SessionInv

LEMMA SavingSteps ==
  ASSUME SessionInv, StopWaiting \/ CtrlC
  PROVE  SessionInv'
<1> USE DEF viewVars, turnVars, bounds, histVars
<1>1. CASE StopWaiting
  <2>1. AppTypes'
    BY <1>1 DEF SessionInv, AppTypes, StopWaiting, SaveTurn
  <2> QED  BY <1>1, <2>1, UiSaves DEF StopWaiting
<1>2. CASE CtrlC
  <2>1. AppTypes'
    BY <1>2 DEF SessionInv, AppTypes, CtrlC, SaveTurn
  <2> QED  BY <1>2, <2>1, UiSaves DEF CtrlC
<1> QED  BY <1>1, <1>2

\* What is left in mid-turn is marked, and so is the session the user turns to.
LEMMA Marked ==
  ASSUME AppTypes, NEW next \in Ids
  PROVE  /\ mixed \subseteq Mixed(next)
         /\ sessionId \in Ids => Mixed(next) \subseteq Ids
         /\ Busy => /\ \A i \in 1 .. Len(jobs) : jobs[i] \in Mixed(next)
                    /\ turn \in Mixed(next) \union {Missing} /\ next \in Mixed(next)
<1>1. \A i \in 1 .. Len(jobs) : jobs[i] \in Ids
  BY LenProperties DEF AppTypes
<1>2. DOMAIN jobs = 1 .. Len(jobs)
  BY LenProperties DEF AppTypes
<1> QED  BY <1>1, <1>2 DEF AppTypes, Mixed

LEMMA ClearKeeps == ASSUME SessionInv, Clear PROVE SessionInv'
<1>1. PICK s \in Ids : /\ NewId(s) /\ sessionId' = s /\ messages' = <<>>
                       /\ SaveTurn(s, <<>>, "open") /\ mixed' = Mixed(s)
  BY DEF Clear
<1>2. ui = "open" /\ Post(<<"show">>)
      /\ UNCHANGED <<cancel, thinking, turnVars, sent, starts, visits, notices, deleted>>
  BY DEF Clear, Entered
<1>3. s \notin made /\ made' = made \union {s} /\ made' \subseteq Ids /\ sessionId \in Ids
  BY <1>1, <1>2 DEF NewId, SessionInv, AppTypes
<1>4. /\ mixed \subseteq mixed' /\ mixed' \subseteq Ids
      /\ Busy => /\ \A i \in 1 .. Len(jobs) : jobs[i] \in mixed'
                 /\ turn \in mixed' \union {Missing} /\ s \in mixed'
  BY <1>1, <1>3, Marked DEF SessionInv
<1>5. saver["ui"].id = Missing
  BY <1>2 DEF SessionInv, Savers
<1>6. BeginSave("ui", s, <<>>) /\ ui' = "saving" /\ after' = "open" /\ <<>> \in Seq(Message)
  BY <1>1, EmptySeq DEF SaveTurn
<1>7. /\ StoreTypes' /\ Store' /\ files' = files /\ shared \subseteq shared'
      /\ saver'["ui"] = [id |-> s, data |-> <<>>, on |-> "tmp"] /\ saver'["worker"] = saver["worker"]
  BY <1>5, <1>6, Begun, TwoThreads DEF SessionInv
<1>8. jobs' = jobs /\ turn' = turn /\ wpc' = wpc /\ running' = running /\ deleted' = deleted
  BY <1>2 DEF turnVars
<1>9. AppTypes'
  <2>1. posts' \in Seq({"show", "think"})
    BY <1>2, PostType DEF SessionInv, AppTypes
  <2> QED  BY <1>1, <1>2, <1>3, <1>4, <1>6, <1>8, <2>1, TwoThreads DEF SessionInv, AppTypes
<1>10. Savers'
  BY <1>1, <1>6, <1>7, <1>8 DEF SessionInv, Savers
<1>11. Captured'
  <2>1. CASE Busy
    BY <1>1, <1>4, <1>8, <2>1 DEF Captured
  <2>2. CASE ~Busy
    <3>1. jobs = <<>> /\ turn = Missing
      BY <2>2 DEF Busy, SessionInv, AppTypes
    <3> QED  BY <1>8, <3>1, EmptySeq DEF Captured
  <2> QED  BY <2>1, <2>2
<1>12. Current'
  <2>1. s \notin mixed' => ~Busy
    BY <1>4
  <2> QED  BY <1>1, <1>6, <1>7, <1>8, <2>1 DEF Current, Busy
<1>13. Known'
  BY <1>1, <1>3, <1>4, <1>7, <1>8, TwoThreads DEF SessionInv, Known
<1> QED  BY <1>7, <1>9, <1>10, <1>11, <1>12, <1>13 DEF SessionInv

LEMMA SwitchKeeps == ASSUME SessionInv, Switch PROVE SessionInv'
<1>1. PICK s \in Ids \ {sessionId} : Readable(s) /\ sessionId' = s /\ messages' = files[s] /\ mixed' = Mixed(s)
  BY DEF Switch
<1>2. ui = "picker" /\ Post(<<"show">>) /\ Back
      /\ UNCHANGED <<storeVars, after, thinking, turnVars, bounds, deleted>>
  BY DEF Switch
<1>3. sessionId \in Ids /\ files[s] \in Seq(Message) /\ s \in made
  BY <1>1, <1>2 DEF SessionInv, AppTypes, StoreTypes, Readable, Known
<1>4. /\ mixed \subseteq mixed' /\ mixed' \subseteq Ids
      /\ Busy => /\ \A i \in 1 .. Len(jobs) : jobs[i] \in mixed'
                 /\ turn \in mixed' \union {Missing} /\ s \in mixed'
  BY <1>1, <1>3, Marked DEF SessionInv
<1>5. StoreTypes' /\ Store'
  BY <1>2, StoreStays DEF SessionInv
<1>6. saver' = saver /\ files' = files /\ shared' = shared /\ jobs' = jobs /\ turn' = turn /\ wpc' = wpc
      /\ running' = running /\ deleted' = deleted /\ made' = made /\ ui' = "open"
  BY <1>2 DEF storeVars, turnVars, bounds, Back
<1>7. AppTypes'
  <2>1. posts' \in Seq({"show", "think"})
    BY <1>2, PostType DEF SessionInv, AppTypes
  <2>2. cancel' \in BOOLEAN
    BY <1>2 DEF Back, SessionInv, AppTypes
  <2> QED  BY <1>1, <1>2, <1>3, <1>4, <1>6, <2>1, <2>2, TwoThreads DEF SessionInv, AppTypes, bounds
<1>8. Savers'
  BY <1>2, <1>6 DEF SessionInv, Savers
<1>9. Captured'
  <2>1. CASE Busy
    BY <1>1, <1>4, <1>6, <2>1 DEF Captured
  <2>2. CASE ~Busy
    <3>1. jobs = <<>> /\ turn = Missing
      BY <2>2 DEF Busy, SessionInv, AppTypes
    <3> QED  BY <1>6, <3>1, EmptySeq DEF Captured
  <2> QED  BY <2>1, <2>2
<1>10. Current'
  <2>1. s \notin mixed' => ~Busy
    BY <1>4
  <2> QED  BY <1>1, <1>6, <2>1 DEF Current, Busy
<1>11. Known'
  <2>1. s \notin deleted \ mixed
    BY <1>1 DEF SessionInv, Known, Readable
  <2> QED  BY <1>1, <1>3, <1>4, <1>6, <2>1 DEF SessionInv, Known
<1> QED  BY <1>5, <1>7, <1>8, <1>9, <1>10, <1>11 DEF SessionInv

LEMMA DeleteKeeps == ASSUME SessionInv, Delete PROVE SessionInv'
<1>1. PICK s \in Ids : /\ Readable(s) /\ (ui = "picker" => s # sessionId)
                       /\ Removed(s) /\ deleted' = deleted \union {s}
  BY DEF Delete
<1>2. /\ ui \in {"choosing", "picker"}
      /\ UNCHANGED <<ui, after, sessionId, messages, cancel, viewVars, turnVars, bounds, mixed>>
  BY DEF Delete
<1>3. /\ StoreTypes' /\ Store' /\ shared' = shared /\ files'[s] = Missing
      /\ \A r \in Ids : r # s => files'[r] = files[r]
      /\ \A u \in Threads : /\ saver'[u].id = saver[u].id /\ saver'[u].data = saver[u].data
                            /\ saver[u].id # s => saver'[u] = saver[u]
  BY <1>1, Deleted DEF SessionInv
<1>4. s # sessionId
  BY <1>1, <1>2, TwoThreads DEF SessionInv, Savers
<1>5. s \in made
  BY <1>1 DEF SessionInv, Known, Readable
<1>6. AppTypes'
  BY <1>1, <1>2 DEF SessionInv, AppTypes, viewVars, turnVars, bounds
<1>7. Savers' /\ Captured'
  BY <1>2, <1>3, TwoThreads DEF SessionInv, Savers, Captured, Busy, turnVars
<1>8. Current'
  <2>1. ui' # "saving"
    BY <1>2
  <2>2. wpc = "saving" /\ turn = sessionId => saver'["worker"] = saver["worker"]
    BY <1>3, <1>4, TwoThreads DEF SessionInv, Savers
  <2> QED  BY <1>2, <1>3, <1>4, <2>1, <2>2 DEF SessionInv, Current, Busy, turnVars
<1>9. Known'
  <2>1. UNCHANGED <<sessionId, turn, jobs, made, mixed>>
    BY <1>2 DEF turnVars, bounds
  <2>2. \A r \in Ids : files'[r] # Missing => r \in made
    BY <1>3 DEF SessionInv, Known
  <2>3. ASSUME NEW r \in deleted' \ mixed PROVE files'[r] = Missing /\ r \in made /\ r # sessionId
    <3>1. CASE r = s
      BY <1>3, <1>4, <1>5, <3>1
    <3>2. CASE r # s
      BY <1>1, <1>3, <2>3, <3>2 DEF SessionInv, Known, AppTypes
    <3> QED  BY <3>1, <3>2
  <2> QED  BY <2>1, <2>2, <2>3 DEF SessionInv, Known
<1> QED  BY <1>3, <1>6, <1>7, <1>8, <1>9 DEF SessionInv

LEMMA SubmitKeeps == ASSUME SessionInv, Submit PROVE SessionInv'
<1>1. ui = "open" /\ ~running /\ sessionId \in Ids
  BY DEF Submit, Entered, SessionInv, AppTypes
<1>2. [by |-> sessionId, n |-> sent + 1, role |-> "user"] \in Message
  BY <1>1, BoundsAssumption DEF Submit, SessionInv, AppTypes, Message
<1>3. messages' \in Seq(Message)
  BY <1>2, Pushed DEF Submit, SessionInv, AppTypes
<1>4. jobs' \in Seq(Ids) /\ jobs' # <<>>
      /\ \A i \in 1 .. Len(jobs') : (i \in 1 .. Len(jobs) /\ jobs'[i] = jobs[i]) \/ jobs'[i] = sessionId
  BY <1>1, Pushed DEF Submit, SessionInv, AppTypes
<1>5. posts' \in Seq({"show", "think"})
  BY PostType DEF Submit, SessionInv, AppTypes
<1>6. AppTypes'
  <2>1. sent' \in 0 .. MaxSends
    BY BoundsAssumption DEF Submit, SessionInv, AppTypes
  <2> QED  BY <1>1, <1>3, <1>4, <1>5, <2>1 DEF Submit, SessionInv, AppTypes, histVars
<1>7. StoreTypes' /\ Store' /\ saver' = saver /\ files' = files /\ shared' = shared
  BY StoreStays DEF Submit, SessionInv, storeVars
<1>8. Savers'
  BY <1>1, <1>7 DEF Submit, SessionInv, Savers
<1>9. Captured'
  BY <1>4 DEF Submit, SessionInv, Captured, histVars
<1>10. Current'
  BY <1>1, <1>4, <1>7 DEF Submit, SessionInv, AppTypes, Current, Busy
<1>11. Known'
  BY <1>1, <1>4, <1>7, TwoThreads DEF Submit, SessionInv, Known, histVars
<1> QED  BY <1>6, <1>7, <1>8, <1>9, <1>10, <1>11 DEF SessionInv

LEMMA UiSaveKeeps == ASSUME SessionInv, UiSave PROVE SessionInv'
<1>1. /\ ui = "saving" /\ EndSave("ui") /\ ui' = after /\ after' = "down"
      /\ UNCHANGED <<sessionId, messages, cancel, viewVars, turnVars, bounds, histVars>>
  BY DEF UiSave
<1>2. saver["ui"].id = sessionId /\ after \in {"open", "picker", "leaving"} /\ sessionId \in Ids
  BY <1>1 DEF SessionInv, Savers, AppTypes
<1>3. /\ StoreTypes' /\ Store' /\ shared' = shared /\ saver'["ui"] = NotSaving
      /\ saver'["worker"].id = saver["worker"].id
      /\ saver["worker"].id # sessionId => saver'["worker"] = saver["worker"]
      /\ \A r \in Ids : r # sessionId => files'[r] = files[r]
      /\ sessionId \notin shared /\ saver["ui"].on = "tmp" => files'[sessionId] = saver["ui"].data
  BY <1>1, <1>2, Finished, TwoThreads DEF SessionInv
<1>4. AppTypes'
  BY <1>1, <1>2 DEF SessionInv, AppTypes, viewVars, turnVars, bounds, histVars
<1>5. jobs' = jobs /\ turn' = turn /\ wpc' = wpc /\ mixed' = mixed /\ deleted' = deleted /\ made' = made
  BY <1>1 DEF turnVars, histVars, bounds
<1>6. Savers' /\ Captured'
  BY <1>1, <1>2, <1>3, <1>5 DEF SessionInv, Savers, Captured, Busy, NotSaving
<1>7. ASSUME sessionId \in Ids \ (mixed \union shared) PROVE saver["worker"].id # sessionId
  <2>1. Apart(sessionId)
    BY <1>2, <1>7 DEF SessionInv, Store
  <2> QED  BY <1>2, <2>1, TwoThreads DEF Apart
<1>8. Current'
  BY <1>1, <1>2, <1>3, <1>5, <1>7 DEF SessionInv, Savers, Current, Busy
<1>9. Known'
  <2>1. \A r \in Ids : files'[r] # Missing => r \in made
    BY <1>2, <1>3, TwoThreads DEF SessionInv, Known
  <2>2. \A r \in deleted \ mixed : r \in Ids /\ r # sessionId
    BY DEF SessionInv, Known, AppTypes
  <2>3. \A r \in deleted \ mixed : files'[r] = Missing /\ r \in made
    BY <1>3, <2>2 DEF SessionInv, Known
  <2> QED  BY <1>1, <1>5, <2>1, <2>2, <2>3 DEF SessionInv, Known
<1> QED  BY <1>3, <1>4, <1>6, <1>8, <1>9 DEF SessionInv

-----------------------------------------------------------------------------
(* The worker.                                                             *)

LEMMA StartTurnKeeps == ASSUME SessionInv, StartTurn PROVE SessionInv'
<1>1. /\ Tail(jobs) \in Seq(Ids) /\ Head(jobs) \in Ids /\ Head(jobs) = jobs[1] /\ 1 \in 1 .. Len(jobs)
      /\ \A i \in 1 .. Len(Tail(jobs)) : i + 1 \in 1 .. Len(jobs) /\ Tail(jobs)[i] = jobs[i + 1]
  BY Popped DEF StartTurn, SessionInv, AppTypes
<1>2. Busy /\ Busy' /\ wpc = "free" /\ wpc' = "turn" /\ turn' = Head(jobs) /\ jobs' = Tail(jobs)
  BY DEF StartTurn, Busy
<1>3. AppTypes'
  BY <1>1, <1>2, TwoThreads DEF StartTurn, SessionInv, AppTypes, Places, viewVars, bounds, histVars
<1>4. StoreTypes' /\ Store' /\ saver' = saver /\ files' = files /\ shared' = shared
  BY StoreStays DEF StartTurn, SessionInv, storeVars
<1>5. Savers'
  BY <1>2, <1>4 DEF StartTurn, SessionInv, Savers
<1>6. Captured'
  BY <1>1, <1>2 DEF StartTurn, SessionInv, Captured, histVars
<1>7. Current'
  BY <1>2, <1>4 DEF StartTurn, SessionInv, Current, histVars
<1>8. Known'
  BY <1>1, <1>2, <1>4 DEF StartTurn, SessionInv, Known, histVars, bounds
<1> QED  BY <1>3, <1>4, <1>5, <1>6, <1>7, <1>8 DEF SessionInv

LEMMA TurnGoesOn == ASSUME SessionInv, Answer \/ Show PROVE SessionInv'
<1>1. /\ wpc \in {"turn", "answered"} /\ wpc' \in {"answered", "shown"} /\ turn \in Ids
      /\ UNCHANGED <<storeVars, ui, after, sessionId, cancel, thinking, jobs, turn, running, bounds, histVars>>
  BY DEF Answer, Show, viewVars, SessionInv, AppTypes
<1>2. messages' \in Seq(Message) /\ posts' \in Seq({"show", "think"})
  <2>1. CASE Answer
    <3>1. [by |-> turn, n |-> 0, role |-> "assistant"] \in Message
      BY <1>1, BoundsAssumption DEF Message
    <3> QED  BY <2>1, <3>1, Pushed DEF Answer, SessionInv, AppTypes, viewVars
  <2>2. CASE Show
    BY <2>2, PostType DEF Show, SessionInv, AppTypes
  <2> QED  BY <2>1, <2>2
<1>3. AppTypes'
  BY <1>1, <1>2 DEF SessionInv, AppTypes, Places, bounds, histVars
<1>4. StoreTypes' /\ Store' /\ saver' = saver /\ files' = files /\ shared' = shared
  BY <1>1, StoreStays DEF SessionInv, storeVars
<1>5. Busy /\ Busy' /\ wpc # "saving" /\ wpc' # "saving"
  BY <1>1 DEF Busy
<1>6. ui \in {"down", "choosing"} => FALSE
  BY <1>5 DEF SessionInv, Savers
<1>7. Savers' /\ Captured' /\ Known'
  BY <1>1, <1>4, <1>5, <1>6 DEF SessionInv, Savers, Captured, Known, bounds, histVars
<1>8. Current'
  BY <1>1, <1>4, <1>5 DEF SessionInv, Current, histVars
<1> QED  BY <1>3, <1>4, <1>7, <1>8 DEF SessionInv

LEMMA SnapshotKeeps == ASSUME SessionInv, Snapshot PROVE SessionInv'
<1>1. PICK c \in Readings :
        /\ wpc = "shown" /\ wpc' = "saving" /\ BeginSave("worker", turn, c)
        /\ UNCHANGED <<ui, after, sessionId, messages, cancel, viewVars, jobs, turn, running, bounds, histVars>>
  BY DEF Snapshot
<1>2. /\ turn \in Ids /\ saver["worker"].id = Missing /\ c \in Seq(Message)
      /\ ui # "gone" => c = messages
  BY <1>1, ResiduesAssumption DEF SessionInv, AppTypes, Savers, Readings
<1>3. /\ StoreTypes' /\ Store' /\ files' = files /\ shared \subseteq shared'
      /\ saver'["worker"] = [id |-> turn, data |-> c, on |-> "tmp"]
      /\ saver'["ui"] = saver["ui"] /\ (saver["ui"].id = turn => turn \in shared')
  BY <1>1, <1>2, Begun, TwoThreads DEF SessionInv
<1>4. AppTypes'
  BY <1>1 DEF SessionInv, AppTypes, Places, viewVars, bounds, histVars
<1>5. Busy /\ Busy'
  BY <1>1 DEF Busy
<1>6. Savers' /\ Captured' /\ Known'
  BY <1>1, <1>3, <1>5 DEF SessionInv, Savers, Captured, Known, bounds, histVars
<1>7. Current'
  BY <1>1, <1>2, <1>3, <1>5 DEF SessionInv, Current, histVars
<1> QED  BY <1>3, <1>4, <1>6, <1>7 DEF SessionInv

LEMMA EndTurnKeeps == ASSUME SessionInv, EndTurn PROVE SessionInv'
<1>1. /\ wpc = "saving" /\ EndSave("worker") /\ wpc' = "free" /\ running' = FALSE /\ turn' = Missing
      /\ UNCHANGED <<ui, after, sessionId, messages, cancel, viewVars, jobs, bounds, histVars>>
  BY DEF EndTurn
<1>2. saver["worker"].id = turn /\ turn \in Ids
  BY <1>1 DEF SessionInv, Savers, AppTypes
<1>3. /\ StoreTypes' /\ Store' /\ shared' = shared /\ saver'["worker"] = NotSaving
      /\ saver'["ui"].id = saver["ui"].id /\ saver'["ui"].data = saver["ui"].data
      /\ saver["ui"].id # turn => saver'["ui"] = saver["ui"]
      /\ \A r \in Ids : r # turn => files'[r] = files[r]
      /\ turn \notin shared /\ saver["worker"].on = "tmp" => files'[turn] = saver["worker"].data
  BY <1>1, <1>2, Finished, TwoThreads DEF SessionInv
<1>4. AppTypes'
  BY <1>1 DEF SessionInv, AppTypes, Places, viewVars, bounds, histVars
<1>5. ui \notin {"down", "choosing"}
  BY <1>1 DEF SessionInv, Savers, Busy
<1>6. Savers' /\ Captured'
  BY <1>1, <1>3, <1>5 DEF SessionInv, Savers, Captured, histVars, NotSaving
<1>7. ASSUME sessionId \in Ids \ (mixed \union shared) PROVE turn = sessionId /\ ui # "saving"
  <2>1. turn = sessionId
    BY <1>2, <1>7, TwoThreads DEF SessionInv, Captured
  <2>2. Apart(sessionId)
    BY <1>7 DEF SessionInv, Store
  <2>3. saver["ui"].id # sessionId
    BY <1>2, <2>1, <2>2, TwoThreads DEF Apart
  <2> QED  BY <2>1, <2>3 DEF SessionInv, Savers
<1>8. Current'
  BY <1>1, <1>3, <1>7 DEF SessionInv, Current, histVars
<1>9. Known'
  <2>1. turn \in made /\ (turn \in deleted \ mixed => FALSE)
    BY <1>2, TwoThreads DEF SessionInv, Known, Captured
  <2>2. \A r \in Ids : files'[r] # Missing => r \in made
    BY <1>3, <2>1 DEF SessionInv, Known
  <2>3. \A r \in deleted \ mixed : r \in Ids /\ r # turn
    BY <2>1 DEF SessionInv, AppTypes
  <2>4. \A r \in deleted \ mixed : files'[r] = Missing /\ r \in made /\ r # sessionId
    BY <1>3, <2>3 DEF SessionInv, Known
  <2>5. UNCHANGED <<sessionId, jobs, made, mixed, deleted>>
    BY <1>1 DEF bounds, histVars
  <2> QED  BY <1>1, <2>2, <2>4, <2>5 DEF SessionInv, Known
<1> QED  BY <1>3, <1>4, <1>6, <1>8, <1>9 DEF SessionInv

\* The process ends, or dies.
LEMMA DownKeeps == ASSUME SessionInv, Down PROVE SessionInv'
<1>1. StoreTypes'
  <2>1. NotSaving \in [id : Ids \union {Missing}, data : Seq(Message), on : {"tmp", "file", "gone", "none"}]
    BY EmptySeq DEF NotSaving
  <2> QED  BY <2>1 DEF Down, StoreDies, SessionInv, StoreTypes
<1>2. saver' = [t \in Threads |-> NotSaving] /\ files' = files /\ shared' = shared
  BY DEF Down, StoreDies
<1>3. \A t \in Threads : saver'[t].id = Missing
  BY <1>2 DEF NotSaving
<1>4. Store'
  BY <1>2, <1>3, TwoThreads DEF SessionInv, Store, Apart
<1>5. AppTypes'
  BY EmptySeq DEF Down, SessionInv, AppTypes, Places, bounds, histVars
<1>6. Savers' /\ Captured' /\ Current'
  BY <1>3, TwoThreads, EmptySeq DEF Down, Savers, Captured, Current, Busy
<1>7. Known'
  <2>1. UNCHANGED <<made, mixed, deleted>> /\ sessionId' = Missing /\ turn' = Missing /\ jobs' = <<>>
    BY DEF Down, bounds, histVars
  <2>2. \A r \in deleted \ mixed : r \in Ids
    BY DEF SessionInv, AppTypes
  <2>3. \A r \in deleted \ mixed : r # Missing
    BY <2>2, TwoThreads
  <2> QED  BY <1>2, <2>1, <2>3, EmptySeq DEF SessionInv, Known
<1> QED  BY <1>1, <1>4, <1>5, <1>6, <1>7 DEF SessionInv

-----------------------------------------------------------------------------
(* The theorems.                                                           *)

\* The inductive invariant holds of every state: who saves under which id, what the current
\* session's file holds or is about to, and which ids were given out.
THEOREM SessionInvariant == Spec => []SessionInv
<1>1. Init => SessionInv
  <2> SUFFICES ASSUME Init PROVE SessionInv
    OBVIOUS
  <2>1. NotSaving \in [id : Ids \union {Missing}, data : Seq(Message), on : {"tmp", "file", "gone", "none"}]
        /\ NotSaving.id = Missing
    BY EmptySeq DEF NotSaving
  <2>2. StoreTypes
    BY <2>1 DEF Init, StoreInit, StoreTypes
  <2>3. AppTypes
    <3>1. 0 \in 0 .. MaxSends /\ 0 \in 0 .. MaxStarts /\ 0 \in 0 .. MaxVisits /\ 0 \in 0 .. MaxNotices
      BY BoundsAssumption
    <3> QED  BY <3>1, EmptySeq DEF Init, AppTypes, Places
  <2>4. Store
    BY <2>1, TwoThreads, SentinelAssumption DEF Init, StoreInit, Store, Apart
  <2>5. Savers /\ Captured /\ Current
    BY <2>1, TwoThreads, EmptySeq DEF Init, StoreInit, Savers, Captured, Current, Busy
  <2>6. Known
    BY EmptySeq DEF Init, StoreInit, Known
  <2> QED  BY <2>2, <2>3, <2>4, <2>5, <2>6 DEF SessionInv
<1>2. SessionInv /\ [Next]_vars => SessionInv'
  <2>1. ASSUME SessionInv, UNCHANGED vars PROVE SessionInv'
    <3>1. StoreTypes' /\ Store'
      BY <2>1, StoreStays DEF SessionInv, vars
    <3>2. AppTypes'
      BY <2>1 DEF SessionInv, AppTypes, vars, viewVars, turnVars, bounds, histVars
    <3>3. Savers' /\ Captured' /\ Current' /\ Known'
      BY <2>1 DEF SessionInv, Savers, Captured, Current, Known, Busy, vars, storeVars, turnVars, bounds, histVars
    <3> QED  BY <3>1, <3>2, <3>3 DEF SessionInv
  <2> QED  BY <2>1, AsideSteps, OpeningSteps, SavingSteps, ClearKeeps, SwitchKeeps, DeleteKeeps,
              SubmitKeeps, UiSaveKeeps, StartTurnKeeps, TurnGoesOn, SnapshotKeeps, EndTurnKeeps, DownKeeps
              DEF Next, UiStep, WorkerStep, Leave, Crash
<1> QED  BY <1>1, <1>2, PTL DEF Spec

\* Every variable has its type, and taskRunning_ is up exactly while a job runs.
THEOREM SessionTypeCorrect == Spec => []TypeOK
<1>1. SessionInv => TypeOK
  BY Types DEF SessionInv
<1> QED  BY <1>1, SessionInvariant, PTL

\* A crash finds every file whole that two threads were not saving at once: a thread alone
\* has the temporary file it made open until it renames it (SessionStore.cpp:39).
THEOREM CrashesTearNoFile == Spec => []FilesWhole
<1>1. SessionInv => FilesWhole
  BY DEF SessionInv, Store, Apart, FilesWhole
<1> QED  BY <1>1, SessionInvariant, PTL

\* With no turn under way, and the vector of messages not destroyed yet, the current session's
\* file is the conversation the user sees (App.cpp:510-526): the last to save it saved all of
\* it. A turn that outlives the vector may save anything, and nothing is claimed of it.
THEOREM IdleIsSaved == Spec => []SavedWhenIdle
<1>1. SessionInv => SavedWhenIdle
  <2> SUFFICES ASSUME SessionInv, ui \in {"open", "leaving"}, ~Busy, sessionId \notin mixed \union shared,
                      messages # <<>>
               PROVE  files[sessionId] = messages
    BY DEF SavedWhenIdle
  <2>1. sessionId \in Ids
    BY DEF SessionInv, AppTypes
  <2> QED  BY <2>1 DEF SessionInv, Current
<1> QED  BY <1>1, SessionInvariant, PTL

\* What was deleted is gone for good: only a turn that captured it could save it again, and
\* then it had been left in mid-turn (App.cpp:462, ResumePicker.cpp:79-116).
THEOREM DeletedAreGone == Spec => []DeletedStays
<1>1. SessionInv => DeletedStays
  BY DEF SessionInv, Known, DeletedStays
<1> QED  BY <1>1, SessionInvariant, PTL

=============================================================================
