---------------------------- MODULE HistoryProofs ----------------------------
(***************************************************************************)
(* Proofs about the two histories of undo.c, the positions and the writes. *)
(***************************************************************************)
EXTENDS SeekHistory, WriteHistory, SequenceTheorems, FiniteSetTheorems, WellFoundedInduction, TLAPS

------------------------------------------------------------------------------
(***************************************************************************)
(* The seek history never writes outside its array, never offers a         *)
(* position that was not visited, and its three ways back agree, for every *)
(* capacity and set of positions.                                          *)
(***************************************************************************)
\* What undo_push keeps of a well-formed history.
GoodHist(h) ==
  /\ h \in Hist
  /\ 0 <= h.idx /\ h.idx <= h.lim /\ h.lim <= UNDOS - 1

\* Every entry redo can reach lies in S.
Within(h, S) == \A i \in 0 .. h.lim - 1 : h.undos[i] \in S

\* undo_push keeps the index and the high-water mark inside the array.
LEMMA PushGood ==
  ASSUME NEW h, GoodHist(h), NEW s \in Addr, NEW word \in Addr
  PROVE  GoodHist(undo_push(h, s, word))
<1> USE UndosAssumption
<1>1. CASE Below(h, word) = s
  BY <1>1 DEF undo_push
<1>2. CASE Below(h, word) # s /\ h.idx = UNDOS - 1
  <2> DEFINE t == [i \in Slots |-> Stored(h, s)[IF i < UNDOS - 1 THEN i + 1 ELSE i]]
  <2>1. Stored(h, s) \in [Slots -> Addr]
    BY DEF Stored, GoodHist, Hist, Slots
  <2>2. t \in [Slots -> Addr]
    BY <2>1 DEF Slots
  <2>3. h.lim = h.idx /\ h.idx \in Int
    BY <1>2 DEF GoodHist, Hist
  <2>4. undo_push(h, s, word) = [undos |-> t, idx |-> h.idx, lim |-> h.lim]
    BY <1>2, <2>3 DEF undo_push
  <2>5. QED BY <2>2, <2>3, <2>4, <1>2 DEF GoodHist, Hist
<1>3. CASE Below(h, word) # s /\ h.idx # UNDOS - 1
  <2>1. Stored(h, s) \in [Slots -> Addr]
    BY DEF Stored, GoodHist, Hist, Slots
  <2>2. undo_push(h, s, word) = [undos |-> Stored(h, s), idx |-> h.idx + 1,
                              lim |-> IF h.lim < h.idx + 1 THEN h.idx + 1 ELSE h.lim]
    BY <1>3 DEF undo_push
  <2>3. h.idx \in Int /\ h.lim \in Int
    BY DEF GoodHist, Hist
  <2>4. QED BY <2>1, <2>2, <2>3, <1>3 DEF GoodHist, Hist
<1>4. QED BY <1>1, <1>2, <1>3

\* undo_push of a position in S keeps every reachable entry in S.
LEMMA PushWithin ==
  ASSUME NEW S, NEW h, GoodHist(h), Within(h, S), NEW s \in S, NEW word \in Addr
  PROVE  Within(undo_push(h, s, word), S)
<1> USE UndosAssumption
<1>1. CASE Below(h, word) = s
  BY <1>1 DEF undo_push
<1>2. CASE Below(h, word) # s /\ h.idx = UNDOS - 1
  <2>1. h.lim = UNDOS - 1 /\ h.idx \in Int /\ h.undos \in [Slots -> Addr]
    BY <1>2 DEF GoodHist, Hist
  <2>2. ASSUME NEW i \in 0 .. UNDOS - 2
        PROVE  undo_push(h, s, word).undos[i] \in S
    <3>1. undo_push(h, s, word).undos[i] = Stored(h, s)[i + 1]
      BY <1>2, <2>2 DEF undo_push, Slots
    <3>2. CASE i + 1 = h.idx
      BY <3>1, <3>2, <2>1 DEF Stored, Slots
    <3>3. CASE i + 1 # h.idx
      BY <3>1, <3>3, <2>1, <1>2 DEF Stored, Slots, Within
    <3>4. QED BY <3>2, <3>3
  <2>3. undo_push(h, s, word).lim = UNDOS - 1
    BY <1>2, <2>1 DEF undo_push
  <2>4. QED BY <2>2, <2>3 DEF Within
<1>3. CASE Below(h, word) # s /\ h.idx # UNDOS - 1
  <2>1. undo_push(h, s, word) = [undos |-> Stored(h, s), idx |-> h.idx + 1,
                              lim |-> IF h.lim < h.idx + 1 THEN h.idx + 1 ELSE h.lim]
    BY <1>3 DEF undo_push
  <2>2. h.idx \in Int /\ h.lim \in Int /\ h.undos \in [Slots -> Addr]
        /\ 0 <= h.idx /\ h.idx <= h.lim /\ h.lim <= UNDOS - 1
    BY DEF GoodHist, Hist
  <2>3. QED BY <2>1, <2>2, <1>3 DEF Within, Stored, Slots
<1>4. QED BY <1>1, <1>2, <1>3

\* The invariant of the induction.
SeekInv == SeekTypeOK /\ OnlyVisited /\ seek \in visited

\* The history variable stays well-typed.
LEMMA NoteTyped ==
  ASSUME NEW k \in {"none", "reset", "seek", "jump", "scroll", "undo", "redo"},
         seek \in Addr, Note(k)
  PROVE  lastseek' \in Last
<1>1. Synced \in BOOLEAN
  BY DEF Synced
<1> HIDE DEF Synced
<1>2. QED BY <1>1 DEF Last, Note

\* A step that leaves the history alone or moves the index inside the marks
\* and reads the entry below it keeps the invariant.
LEMMA MoveKeeps ==
  ASSUME SeekInv, NEW i \in Int, 0 <= i, i <= hist.lim,
         hist' = [hist EXCEPT !.idx = i],
         NEW word \in Addr, NEW k \in {"undo", "redo"}, Arrive(Below(hist', word), k)
  PROVE  SeekInv'
<1> USE UndosAssumption
<1>1. hist' \in Hist /\ hist'.idx = i /\ hist'.lim = hist.lim /\ hist'.undos = hist.undos
  BY DEF SeekInv, SeekTypeOK, Hist
<1>2. Below(hist', word) \in Addr
  BY <1>1 DEF Below, SeekInv, SeekTypeOK, Hist, Slots
<1>3. SeekTypeOK'
  BY <1>1, <1>2, NoteTyped DEF SeekInv, SeekTypeOK, Arrive
<1>4. OnlyVisited' /\ (seek \in visited)'
  BY <1>1, <1>2 DEF SeekInv, OnlyVisited, Arrive
<1>5. QED BY <1>3, <1>4 DEF SeekInv

\* Every step keeps the invariant.
LEMMA SeekStepKeeps == SeekInv /\ [SeekNext]_seekvars => SeekInv'
<1> SUFFICES ASSUME SeekInv, [SeekNext]_seekvars PROVE SeekInv'
  OBVIOUS
<1> USE UndosAssumption
<1>0. GoodHist(hist) /\ Within(hist, visited) /\ seek \in Addr /\ seek \in visited
  BY DEF SeekInv, SeekTypeOK, GoodHist, OnlyVisited, Within
<1>1. ASSUME NEW a \in Addr, SeekCmd(a) PROVE SeekInv'
  <2>1. PICK word \in Addr : hist' = undo_push(hist, a, word)
    BY <1>1 DEF SeekCmd
  <2>2. Within(hist, visited \union {a})
    BY <1>0 DEF Within
  <2>3. GoodHist(hist')
    BY <2>1, <1>0, PushGood
  <2>4. Within(hist', visited \union {a})
    BY <2>1, <2>2, <1>0, PushWithin
  <2>5. QED BY <2>3, <2>4, <1>1, <1>0, NoteTyped
          DEF SeekInv, SeekTypeOK, OnlyVisited, SeekCmd, Arrive, GoodHist, Within
<1>2. ASSUME NEW a \in Addr, VisualJump(a) PROVE SeekInv'
  <2>1. PICK word \in Addr : hist' = undo_push(hist, seek, word)
    BY <1>2 DEF VisualJump
  <2>2. GoodHist(hist')
    BY <2>1, <1>0, PushGood
  <2>3. Within(hist', visited)
    BY <2>1, <1>0, PushWithin
  <2>4. QED BY <2>2, <2>3, <1>2, <1>0, NoteTyped
          DEF SeekInv, SeekTypeOK, OnlyVisited, VisualJump, Arrive, GoodHist, Within
<1>3. ASSUME NEW a \in Addr, VisualDigit(a) PROVE SeekInv'
  <2>1. PICK word \in Addr, v \in Addr : hist' = undo_push(undo_push(hist, seek, word), a, v)
    BY <1>3 DEF VisualDigit
  <2> DEFINE h1 == undo_push(hist, seek, word)
  <2>2. GoodHist(h1) /\ Within(h1, visited)
    BY <1>0, PushGood, PushWithin
  <2>3. Within(h1, visited \union {a})
    BY <2>2 DEF Within
  <2> HIDE DEF h1
  <2>4. GoodHist(undo_push(h1, a, v)) /\ Within(undo_push(h1, a, v), visited \union {a})
    BY <2>2, <2>3, PushGood, PushWithin
  <2>5. GoodHist(hist') /\ Within(hist', visited \union {a})
    BY <2>1, <2>4 DEF h1
  <2>6. QED BY <2>5, <1>3, <1>0, NoteTyped
          DEF SeekInv, SeekTypeOK, OnlyVisited, VisualDigit, Arrive, GoodHist, Within
<1>4. ASSUME NEW a \in Addr, Scroll(a) PROVE SeekInv'
  BY <1>4, NoteTyped DEF SeekInv, SeekTypeOK, OnlyVisited, Scroll, Arrive
<1>5. ASSUME undo_seek PROVE SeekInv'
  <2>1. CASE hist.idx = 0
    BY <1>5, <2>1, NoteTyped DEF SeekInv, SeekTypeOK, OnlyVisited, undo_seek
  <2>2. CASE hist.idx # 0
    <3>1. hist.idx \in Int /\ hist.lim \in Int /\ 0 <= hist.idx /\ hist.idx <= hist.lim
      BY DEF SeekInv, SeekTypeOK, Hist
    <3>2. hist' = [hist EXCEPT !.idx = hist.idx - 1]
      BY <1>5, <2>2 DEF undo_seek
    <3>3. PICK word \in Addr : Arrive(Below(hist', word), "undo")
      BY <1>5, <2>2 DEF undo_seek
    <3>4. QED BY <3>1, <3>2, <3>3, <2>2, MoveKeeps
  <2>3. QED BY <2>1, <2>2
<1>6. ASSUME undo_redo PROVE SeekInv'
  <2>1. CASE ~(hist.idx < hist.lim)
    BY <1>6, <2>1, NoteTyped DEF SeekInv, SeekTypeOK, OnlyVisited, undo_redo
  <2>2. CASE hist.idx < hist.lim
    <3>1. hist.idx \in Int /\ hist.lim \in Int /\ 0 <= hist.idx /\ hist.idx <= hist.lim
      BY DEF SeekInv, SeekTypeOK, Hist
    <3>2. hist' = [hist EXCEPT !.idx = hist.idx + 1]
      BY <1>6, <2>2 DEF undo_redo
    <3>3. PICK word \in Addr : Arrive(Below(hist', word), "redo")
      BY <1>6, <2>2 DEF undo_redo
    <3>4. QED BY <3>1, <3>2, <3>3, <2>2, MoveKeeps
  <2>3. QED BY <2>1, <2>2
<1>7. ASSUME undo_reset PROVE SeekInv'
  BY <1>7, NoteTyped DEF SeekInv, SeekTypeOK, OnlyVisited, undo_reset, Hist
<1>8. ASSUME UNCHANGED seekvars PROVE SeekInv'
  BY <1>8 DEF SeekInv, SeekTypeOK, OnlyVisited, seekvars
<1>9. QED BY <1>1, <1>2, <1>3, <1>4, <1>5, <1>6, <1>7, <1>8 DEF SeekNext

\* The invariant holds initially.
LEMMA SeekInitHolds == SeekInit => SeekInv
<1> USE UndosAssumption
<1>1. SUFFICES ASSUME SeekInit PROVE SeekInv
  OBVIOUS
<1>2. QED BY <1>1 DEF SeekInit, SeekInv, SeekTypeOK, OnlyVisited, Hist, Slots, Last

\* Every write of undo_push goes to a slot of the array and redo never passes
\* the high-water mark, whatever the order of seeks, undos, redos and resets.
THEOREM SeekTyped == SeekSpec => []SeekTypeOK
<1>1. SeekInv => SeekTypeOK
  BY DEF SeekInv
<1>2. QED BY <1>1, SeekInitHolds, SeekStepKeeps, PTL DEF SeekSpec

\* Every entry redo can reach was once the current position.
THEOREM HistoryVisited == SeekSpec => []OnlyVisited
<1>1. SeekInv => OnlyVisited
  BY DEF SeekInv
<1>2. QED BY <1>1, SeekInitHolds, SeekStepKeeps, PTL DEF SeekSpec

------------------------------------------------------------------------------
(***************************************************************************)
(* Undo and redo agree.  The invariant says where the array keeps the      *)
(* position the last command left: two below the index after a recorded    *)
(* seek, at the index after an undo.                                       *)
(***************************************************************************)
LastRemembered ==
  /\ lastseek.kind = "seek" /\ lastseek.synced /\ lastseek.from # seek
       => hist.idx >= 2 /\ hist.undos[hist.idx - 2] = lastseek.from
  /\ lastseek.kind = "undo" =>
       /\ hist.idx < hist.lim
       /\ lastseek.synced => hist.undos[hist.idx] = lastseek.from

\* A push of another position keeps the newest entry, one deeper, also when
\* the full array is shifted.
LEMMA PushDeepens ==
  ASSUME NEW h, GoodHist(h), NEW s \in Addr, NEW word \in Addr, h.idx >= 1, h.undos[h.idx - 1] # s
  PROVE  LET p == undo_push(h, s, word) IN p.idx >= 2 /\ p.undos[p.idx - 2] = h.undos[h.idx - 1]
<1> USE UndosAssumption
<1>1. /\ h.idx \in Int /\ h.lim \in Int /\ h.undos \in [Slots -> Addr]
      /\ h.idx <= UNDOS - 1 /\ h.idx <= h.lim /\ h.lim <= UNDOS - 1
  BY DEF GoodHist, Hist
<1>2. Below(h, word) # s
  BY DEF Below
<1>3. CASE h.idx = UNDOS - 1
  <2> DEFINE t == [i \in Slots |-> Stored(h, s)[IF i < UNDOS - 1 THEN i + 1 ELSE i]]
  <2>1. undo_push(h, s, word).undos = t /\ undo_push(h, s, word).idx = UNDOS - 1
    BY <1>2, <1>3 DEF undo_push
  <2>2. t[UNDOS - 3] = Stored(h, s)[UNDOS - 2]
    BY DEF Slots
  <2>3. Stored(h, s)[UNDOS - 2] = h.undos[UNDOS - 2]
    BY <1>1, <1>3 DEF Stored, Slots
  <2> HIDE DEF t
  <2>4. QED BY <1>3, <2>1, <2>2, <2>3
<1>4. CASE h.idx # UNDOS - 1
  <2>1. undo_push(h, s, word).undos = Stored(h, s) /\ undo_push(h, s, word).idx = h.idx + 1
    BY <1>2, <1>4 DEF undo_push
  <2>2. Stored(h, s)[h.idx - 1] = h.undos[h.idx - 1]
    BY <1>1 DEF Stored, Slots
  <2>3. QED BY <1>1, <2>1, <2>2
<1>5. QED BY <1>3, <1>4

\* A push of the newest entry changes nothing.
LEMMA PushSame ==
  ASSUME NEW h, NEW s, NEW word, h.idx >= 1, h.undos[h.idx - 1] = s
  PROVE  undo_push(h, s, word) = h
BY DEF undo_push, Below

\* Every step keeps track of the position the last command left.
LEMMA RememberedStep == SeekInv /\ LastRemembered /\ [SeekNext]_seekvars => LastRemembered'
<1> SUFFICES ASSUME SeekInv, LastRemembered, [SeekNext]_seekvars PROVE LastRemembered'
  OBVIOUS
<1>0. /\ GoodHist(hist) /\ seek \in Addr /\ hist.idx \in Int /\ hist.lim \in Int
      /\ 0 <= hist.idx /\ hist.idx <= hist.lim
  BY DEF SeekInv, SeekTypeOK, GoodHist, Hist
<1>1. ASSUME NEW k \in {"none", "reset", "jump", "scroll", "redo"}, Note(k) PROVE LastRemembered'
  <2>1. lastseek'.kind = k
    BY <1>1 DEF Note
  <2>2. lastseek'.kind # "seek" /\ lastseek'.kind # "undo"
    BY <2>1
  <2>3. QED BY <2>2 DEF LastRemembered
<1>2. ASSUME NEW a \in Addr, SeekCmd(a) \/ VisualDigit(a) PROVE LastRemembered'
  <2>1. Note("seek") /\ seek' = a
    BY <1>2 DEF SeekCmd, VisualDigit, Arrive
  <2>2. lastseek'.kind = "seek" /\ lastseek'.from = seek /\ lastseek'.synced = Synced
    BY <2>1 DEF Note
  <2>3. ASSUME Synced, seek # a PROVE hist'.idx >= 2 /\ hist'.undos[hist'.idx - 2] = seek
    <3>1. hist.idx >= 1 /\ hist.undos[hist.idx - 1] = seek
      BY <2>3 DEF Synced, Below
    <3>2. \A word : undo_push(hist, seek, word) = hist
      BY <3>1, PushSame
    <3>3. \E word \in Addr : hist' = undo_push(hist, a, word)
      BY <1>2, <3>2 DEF SeekCmd, VisualDigit
    <3>4. PICK word \in Addr : hist' = undo_push(hist, a, word)
      BY <3>3
    <3>5. QED BY <1>0, <2>3, <3>1, <3>4, PushDeepens
  <2>4. QED BY <2>1, <2>2, <2>3 DEF LastRemembered
<1>3. ASSUME undo_seek PROVE LastRemembered'
  <2>1. CASE hist.idx = 0
    BY <1>1, <1>3, <2>1 DEF undo_seek
  <2>2. CASE hist.idx # 0
    <3>1. hist' = [hist EXCEPT !.idx = hist.idx - 1] /\ Note("undo")
      BY <1>3, <2>2 DEF undo_seek, Arrive
    <3>2. hist'.idx = hist.idx - 1 /\ hist'.lim = hist.lim /\ hist'.undos = hist.undos
      BY <1>0, <3>1 DEF GoodHist, Hist
    <3>3. lastseek'.kind = "undo" /\ lastseek'.from = seek /\ lastseek'.synced = Synced
      BY <3>1 DEF Note
    <3>4. hist'.idx < hist'.lim
      BY <1>0, <3>2
    <3>5. Synced => hist'.undos[hist'.idx] = seek
      BY <3>2 DEF Synced, Below
    <3>6. QED BY <3>3, <3>4, <3>5 DEF LastRemembered
  <2>3. QED BY <2>1, <2>2
<1>4. ASSUME undo_redo \/ undo_reset PROVE LastRemembered'
  BY <1>1, <1>4 DEF undo_redo, undo_reset, Arrive
<1>5. ASSUME NEW a \in Addr, VisualJump(a) \/ Scroll(a) PROVE LastRemembered'
  BY <1>1, <1>5 DEF VisualJump, Scroll, Arrive
<1>6. ASSUME UNCHANGED seekvars PROVE LastRemembered'
  BY <1>6 DEF seekvars, LastRemembered
<1>7. QED BY <1>2, <1>3, <1>4, <1>5, <1>6 DEF SeekNext

\* Only undo_seek above index 0 reports an undo, only undo_redo a redo.
LEMMA KindsTell ==
  ASSUME SeekInv, SeekNext
  PROVE  /\ lastseek'.kind = "undo" =>
              /\ hist.idx # 0 /\ hist' = [hist EXCEPT !.idx = hist.idx - 1]
              /\ \E word \in Addr : seek' = Below(hist', word)
         /\ lastseek'.kind = "redo" =>
              /\ hist' = [hist EXCEPT !.idx = hist.idx + 1]
              /\ \E word \in Addr : seek' = Below(hist', word)
<1>1. ASSUME NEW a \in Addr, SeekCmd(a) \/ VisualDigit(a) \/ VisualJump(a) \/ Scroll(a)
      PROVE  lastseek'.kind \notin {"undo", "redo"}
  <2>1. lastseek'.kind \in {"seek", "jump", "scroll"}
    BY <1>1 DEF SeekCmd, VisualDigit, VisualJump, Scroll, Arrive, Note
  <2>2. QED BY <2>1
<1>2. ASSUME undo_reset PROVE lastseek'.kind \notin {"undo", "redo"}
  <2>1. lastseek'.kind = "reset"
    BY <1>2 DEF undo_reset, Note
  <2>2. QED BY <2>1
<1>3. ASSUME undo_seek
      PROVE  /\ lastseek'.kind # "redo"
             /\ lastseek'.kind = "undo" =>
                  /\ hist.idx # 0 /\ hist' = [hist EXCEPT !.idx = hist.idx - 1]
                  /\ \E word \in Addr : seek' = Below(hist', word)
  <2>1. CASE hist.idx = 0
    <3>1. lastseek'.kind = "none"
      BY <1>3, <2>1 DEF undo_seek, Note
    <3>2. QED BY <3>1
  <2>2. CASE hist.idx # 0
    <3>1. lastseek'.kind = "undo"
      BY <1>3, <2>2 DEF undo_seek, Arrive, Note
    <3>2. QED BY <1>3, <2>2, <3>1 DEF undo_seek, Arrive
  <2>3. QED BY <2>1, <2>2
<1>4. ASSUME undo_redo
      PROVE  /\ lastseek'.kind # "undo"
             /\ lastseek'.kind = "redo" =>
                  /\ hist' = [hist EXCEPT !.idx = hist.idx + 1]
                  /\ \E word \in Addr : seek' = Below(hist', word)
  <2>1. CASE ~(hist.idx < hist.lim)
    <3>1. lastseek'.kind = "none"
      BY <1>4, <2>1 DEF undo_redo, Note
    <3>2. QED BY <3>1
  <2>2. CASE hist.idx < hist.lim
    <3>1. lastseek'.kind = "redo"
      BY <1>4, <2>2 DEF undo_redo, Arrive, Note
    <3>2. QED BY <1>4, <2>2, <3>1 DEF undo_redo, Arrive
  <2>3. QED BY <2>1, <2>2
<1>5. QED BY <1>1, <1>2, <1>3, <1>4 DEF SeekNext

\* The three ways back in the history agree, for every capacity of the array
\* and every order of seeks, jumps, scrolls, undos, redos and resets.
THEOREM HistoryAgrees == SeekSpec => UndoRedoAgree
<1> USE UndosAssumption
<1>0. ASSUME SeekInv
      PROVE  /\ hist \in Hist /\ hist.idx \in Int /\ hist.lim \in Int /\ 0 <= hist.idx
             /\ \A i \in Int : /\ [hist EXCEPT !.idx = i].idx = i
                               /\ [hist EXCEPT !.idx = i].undos = hist.undos
  BY <1>0 DEF SeekInv, SeekTypeOK, Hist
<1>1. ASSUME SeekInv, LastRemembered, SeekNext, lastseek'.kind = "undo"
      PROVE  /\ hist.idx >= 2 => seek' = undo_get_last_seek(hist, seek, seek)
             /\ lastseek.kind = "seek" /\ lastseek.synced /\ lastseek.from # seek => seek' = lastseek.from
  <2>1. hist.idx # 0 /\ hist' = [hist EXCEPT !.idx = hist.idx - 1]
    BY <1>1, KindsTell
  <2>2. PICK word \in Addr : seek' = Below(hist', word)
    BY <1>1, KindsTell
  <2>3. hist'.idx = hist.idx - 1 /\ hist'.undos = hist.undos
    BY <1>0, <1>1, <2>1
  <2>4. hist.idx >= 2 => seek' = hist.undos[hist.idx - 2]
    BY <1>0, <1>1, <2>2, <2>3 DEF Below
  <2>5. hist.idx >= 2 => undo_get_last_seek(hist, seek, seek) = hist.undos[hist.idx - 2]
    BY <1>0, <1>1 DEF undo_get_last_seek, Below
  <2>6. QED BY <1>1, <2>4, <2>5 DEF LastRemembered
<1>2. ASSUME SeekInv, LastRemembered, SeekNext, lastseek.kind = "undo", lastseek.synced
      PROVE  hist.idx < hist.lim /\ (lastseek'.kind = "redo" => seek' = lastseek.from)
  <2>1. hist.idx < hist.lim /\ hist.undos[hist.idx] = lastseek.from
    BY <1>2 DEF LastRemembered
  <2>2. ASSUME lastseek'.kind = "redo" PROVE seek' = lastseek.from
    <3>1. hist' = [hist EXCEPT !.idx = hist.idx + 1]
      BY <1>2, <2>2, KindsTell
    <3>2. PICK word \in Addr : seek' = Below(hist', word)
      BY <1>2, <2>2, KindsTell
    <3>3. hist'.idx = hist.idx + 1 /\ hist'.undos = hist.undos
      BY <1>0, <1>2, <3>1
    <3>4. QED BY <1>0, <1>2, <2>1, <3>2, <3>3 DEF Below
  <2>3. QED BY <2>1, <2>2
<1>3. SeekInit => LastRemembered
  <2>1. SeekInit => lastseek.kind = "none"
    BY DEF SeekInit
  <2>2. QED BY <2>1 DEF LastRemembered
<1>4. SeekInv /\ LastRemembered /\ [SeekNext]_seekvars =>
        /\ [lastseek.kind = "seek" /\ lastseek.synced /\ lastseek.from # seek /\ lastseek'.kind = "undo"
              => seek' = lastseek.from]_seekvars
        /\ [lastseek.kind = "undo" /\ lastseek.synced =>
              /\ hist.idx < hist.lim
              /\ lastseek'.kind = "redo" => seek' = lastseek.from]_seekvars
        /\ [lastseek'.kind = "undo" /\ hist.idx >= 2
              => seek' = undo_get_last_seek(hist, seek, seek)]_seekvars
  BY <1>1, <1>2
<1>5. QED
  BY <1>3, <1>4, SeekInitHolds, SeekStepKeeps, RememberedStep, PTL
     DEF SeekSpec, UndoRedoAgree, UndoGoesBack, RedoRestores, LastSeekAgrees

------------------------------------------------------------------------------
(***************************************************************************)
(* The write history can always bring the recorded bytes of the file back  *)
(* to what they were: for every file size, history length, section layout  *)
(* and setting of the eval variables.                                      *)
(***************************************************************************)
\* Every non-empty set of naturals has a smallest element.
LEMMA Smallest ==
  ASSUME NEW T, T \subseteq Nat, T # {}
  PROVE  \E x \in T : \A y \in T : x <= y
<1> DEFINE R == OpToRel(<, Nat)
<1>1. IsWellFoundedOn(R, Nat)
  BY NatLessThanWellFounded
<1>2. R = {p \in Nat \X Nat : p[1] < p[2]}
  BY Zenon DEF OpToRel
<1>3. ASSUME NEW x \in Nat, NEW y \in Nat, y < x PROVE <<y, x>> \in R
  <2>1. <<y, x>> \in {p \in Nat \X Nat : p[1] < p[2]}
    BY <1>3
  <2>2. QED BY <2>1, <1>2
<1> HIDE DEF R
<1>4. PICK x \in T : \A y \in T : ~(<<y, x>> \in R)
  BY <1>1, WFMin, Zenon
<1>5. ASSUME NEW y \in T PROVE x <= y
  <2>1. x \in Nat /\ y \in Nat
    OBVIOUS
  <2>2. ~(y < x)
    BY <1>3, <1>4, <2>1
  <2>3. QED BY <2>1, <2>2
<1>6. QED BY <1>5

\* What Oldest picks.
LEMMA OldestPicks ==
  ASSUME NEW T, T \subseteq Nat, T # {}
  PROVE  Oldest(T) \in T /\ \A y \in T : Oldest(T) <= y
<1>1. \E x \in T : \A y \in T : x <= y
  BY Smallest
<1>2. QED BY <1>1 DEF Oldest

\* A run of bytes lies inside the file.
LEMMA DataFacts ==
  ASSUME NEW d \in Data
  PROVE  /\ DOMAIN d \in Runs /\ DOMAIN d \subseteq Off
         /\ \A x \in DOMAIN d : d[x] \in Byte
  BY DEF Data, Runs

\* Bytes for every offset of a run are data that can be written.
LEMMA RunGivesData ==
  ASSUME NEW r \in Runs, NEW d \in [r -> Byte]
  PROVE  d \in Data
  BY DEF Data

\* The write mask keeps the length and the type of the data.
LEMMA MaskedData ==
  ASSUME NEW d \in Data, mask \in Byte
  PROVE  Masked(d) \in Data /\ DOMAIN Masked(d) = DOMAIN d
<1>1. \A x \in DOMAIN d : d[x] * mask \in Byte
  BY DataFacts DEF Byte
<1>2. Masked(d) \in [DOMAIN d -> Byte]
  BY <1>1 DEF Masked
<1>3. QED BY <1>2, RunGivesData, DataFacts

\* io_write changes the file only where the run lies, and only when allowed.
LEMMA PatchFacts ==
  ASSUME NEW f \in [Off -> Byte], NEW d, \A x \in DOMAIN d : d[x] \in Byte
  PROVE  /\ Patch(f, d) \in [Off -> Byte]
         /\ \A x \in Off \ DOMAIN d : Patch(f, d)[x] = f[x]
         /\ ~writable => Patch(f, d) = f
  BY DEF Patch

\* The entry undo_write_new adds for the run n.
Fresh(e) == e \in Entry /\ \A x \in DOMAIN e.n : e.o[x] = file[x]

\* The entry a write records holds the bytes the file has.
LEMMA NewEntry ==
  ASSUME NEW d \in Data, file \in [Off -> Byte]
  PROVE  Fresh([set |-> TRUE, n |-> d, o |-> [x \in DOMAIN d |-> file[x]]])
<1>1. [x \in DOMAIN d |-> file[x]] \in [DOMAIN d -> Byte]
  BY DataFacts
<1>2. [x \in DOMAIN d |-> file[x]] \in Data
  BY <1>1, DataFacts, RunGivesData
<1>3. QED BY <1>2 DEF Fresh, Entry

\* h is the history w, with at most one fresh entry more.
Grown(h) == h = w \/ \E e : Fresh(e) /\ h = Append(w, e)

\* undo_write_new appends such an entry, or nothing.
LEMMA NewGrows ==
  ASSUME NEW d \in Data, file \in [Off -> Byte]
  PROVE  Grown(undo_write_new(w, d, file))
  BY NewEntry DEF Grown, undo_write_new

Inv == TypeOK /\ OldestKnowsBase

\* A command that writes keeps the invariant.
LEMMA EffectKeeps ==
  ASSUME Inv, NEW h, NEW f \in [Off -> Byte], NEW touched, touched \subseteq Off,
         Effect(h, f, touched), Grown(h), pos' \in Off,
         \A x \in Off \ touched : f[x] = file[x],
         ~writable => f = file
  PROVE  Inv'
<1>1. /\ w \in Seq(Entry) /\ file \in [Off -> Byte] /\ base \in [Off -> Byte]
      /\ lost \subseteq Off /\ undowrite \in BOOLEAN /\ writable \in BOOLEAN /\ mask \in Byte
  BY DEF Inv, TypeOK
<1>2. /\ w' = h /\ file' = f /\ base' = base /\ mask' = mask
      /\ undowrite' = undowrite /\ writable' = writable
      /\ lost' = IF writable THEN lost \union (touched \ Covered(h)) ELSE lost
  BY DEF Effect
<1>3. w' \in Seq(Entry)
  BY <1>1, <1>2 DEF Grown, Fresh
<1>4. TypeOK'
  BY <1>1, <1>2, <1>3 DEF TypeOK
<1>5. ASSUME NEW x \in Off, x \notin lost' PROVE x \notin lost
  BY <1>2, <1>5
<1>6. \A i \in DOMAIN w : i \in DOMAIN h /\ h[i] = w[i] /\ i \in 1 .. Len(w)
  BY <1>1 DEF Grown
<1>7. ASSUME NEW x \in Off, x \notin Covered(h) PROVE x \notin Covered(w)
  BY <1>6, <1>7 DEF Covered
<1>8. ASSUME NEW x \in Off, x \notin lost', x \notin Covered(h)
      PROVE  f[x] = base[x]
  <2>1. f[x] = file[x]
    BY <1>2, <1>8
  <2>2. x \notin lost /\ x \notin Covered(w)
    BY <1>5, <1>7, <1>8
  <2>3. QED BY <2>1, <2>2 DEF Inv, OldestKnowsBase
<1>9. ASSUME NEW x \in Off, x \notin lost', NEW i \in DOMAIN h, x \in DOMAIN h[i].n,
             \A j \in 1 .. i - 1 : x \notin DOMAIN h[j].n
      PROVE  h[i].o[x] = base[x]
  <2>1. x \notin lost
    BY <1>5, <1>9
  <2>2. CASE i \in DOMAIN w
    <3>1. \A j \in 1 .. i - 1 : j \in DOMAIN w /\ h[j] = w[j]
      BY <1>1, <1>6, <2>2
    <3>2. x \in DOMAIN w[i].n /\ \A j \in 1 .. i - 1 : x \notin DOMAIN w[j].n
      BY <1>6, <1>9, <2>2, <3>1
    <3>3. w[i].o[x] = base[x]
      BY <2>1, <2>2, <3>2 DEF Inv, OldestKnowsBase
    <3>4. QED BY <1>6, <2>2, <3>3
  <2>3. CASE i \notin DOMAIN w
    <3>1. PICK e : Fresh(e) /\ h = Append(w, e)
      BY <1>9, <2>3 DEF Grown
    <3>2. i = Len(w) + 1 /\ h[i] = e /\ Len(w) \in Nat /\ DOMAIN w = 1 .. Len(w)
      BY <1>1, <1>9, <2>3, <3>1
    <3>3. \A j \in DOMAIN w : x \notin DOMAIN w[j].n
      BY <1>6, <1>9, <3>2
    <3>4. x \notin Covered(w)
      BY <3>3 DEF Covered
    <3>5. file[x] = base[x]
      BY <2>1, <3>4 DEF Inv, OldestKnowsBase
    <3>6. QED BY <1>9, <3>1, <3>2, <3>5 DEF Fresh
  <2>4. QED BY <2>2, <2>3
<1>10. OldestKnowsBase'
  BY <1>2, <1>8, <1>9 DEF OldestKnowsBase, Covered
<1>11. QED BY <1>4, <1>10 DEF Inv

\* An undo or redo keeps the invariant: it changes set flags, and the file at
\* covered offsets only.
LEMMA UndoKeeps ==
  ASSUME Inv, pos' \in Off, file' \in [Off -> Byte], w' \in Seq(Entry),
         DOMAIN w' = DOMAIN w,
         \A i \in DOMAIN w : w'[i].n = w[i].n /\ w'[i].o = w[i].o,
         \A x \in Off \ Covered(w) : file'[x] = file[x],
         UNCHANGED <<undowrite, writable, mask, base, lost>>
  PROVE  Inv'
<1>1. TypeOK'
  BY DEF Inv, TypeOK
<1>2. \A x \in Off : x \notin Covered(w)' => x \notin Covered(w)
  BY DEF Covered
<1>3. w \in Seq(Entry)
  BY DEF Inv, TypeOK
<1>4. ASSUME NEW x \in Off, x \notin lost', x \notin Covered(w)'
      PROVE  file'[x] = base'[x]
  BY <1>2, <1>4 DEF Inv, OldestKnowsBase
<1>5. ASSUME NEW x \in Off, x \notin lost', NEW i \in DOMAIN w', x \in DOMAIN w'[i].n,
             \A j \in 1 .. i - 1 : x \notin DOMAIN w'[j].n
      PROVE  w'[i].o[x] = base'[x]
  <2>1. \A j \in 1 .. i - 1 : j \in DOMAIN w
    BY <1>3, <1>5
  <2>2. \A j \in 1 .. i - 1 : x \notin DOMAIN w[j].n
    BY <1>5, <2>1
  <2>3. QED BY <1>5, <2>2 DEF Inv, OldestKnowsBase
<1>6. OldestKnowsBase'
  BY <1>4, <1>5 DEF OldestKnowsBase
<1>7. QED BY <1>1, <1>6 DEF Inv


\* A run is an interval of offsets that begins where Start says.
LEMMA RunShape ==
  ASSUME NEW d \in Data
  PROVE  /\ Start(d) \in Off
         /\ \E l \in Nat \ {0} : DOMAIN d = Start(d) .. Start(d) + l - 1
<1>1. DOMAIN d \subseteq Off /\ DOMAIN d \in Runs
  BY DataFacts
<1>2. PICK a \in Off, l \in 1 .. MaxLen : DOMAIN d = a .. a + l - 1
  BY <1>1 DEF Runs
<1>3. a \in Int /\ l \in Nat \ {0}
  BY DEF Off
<1>4. a \in DOMAIN d /\ a - 1 \notin DOMAIN d
  BY <1>2, <1>3
<1>5. \A b \in DOMAIN d : b - 1 \notin DOMAIN d => b = a
  BY <1>2, <1>3
<1>6. Start(d) = a
  BY <1>4, <1>5 DEF Start
<1>7. QED BY <1>2, <1>3, <1>6

\* Each write command describes its effect in the form EffectKeeps needs.
LEMMA WriteKeeps ==
  ASSUME Inv, NEW d \in Data, NEW m, \A x \in DOMAIN m : m[x] \in Byte,
         DOMAIN m \subseteq Off,
         Effect(undo_write_new(w, d, file), Patch(file, m), DOMAIN m), pos' \in Off
  PROVE  Inv'
<1>1. file \in [Off -> Byte]
  BY DEF Inv, TypeOK
<1>2. Grown(undo_write_new(w, d, file))
  BY <1>1, NewGrows
<1>3. /\ Patch(file, m) \in [Off -> Byte]
      /\ \A x \in Off \ DOMAIN m : Patch(file, m)[x] = file[x]
      /\ ~writable => Patch(file, m) = file
  BY <1>1, PatchFacts
<1>4. QED BY <1>2, <1>3, EffectKeeps

\* A command that leaves the file alone keeps the invariant.
LEMMA RecordKeeps ==
  ASSUME Inv, NEW h, Grown(h), Effect(h, file, {}), pos' \in Off
  PROVE  Inv'
  BY EffectKeeps DEF Inv, TypeOK

\* The repeated run of cfg.count stays a run of bytes.
LEMMA RepeatedBytes ==
  ASSUME NEW d \in Data, NEW t
  PROVE  \A x \in DOMAIN Repeated(d, t) : Repeated(d, t)[x] \in Byte
<1>1. PICK l \in Nat \ {0} : DOMAIN d = Start(d) .. Start(d) + l - 1
  BY RunShape
<1>2. Start(d) \in Int
  BY RunShape DEF Off
<1>3. Cardinality(DOMAIN d) = l
  BY <1>1, <1>2, FS_Interval
<1>4. ASSUME NEW x \in DOMAIN Repeated(d, t)
      PROVE  Repeated(d, t)[x] \in Byte
  <2>1. /\ x \in Int
        /\ Repeated(d, t)[x] = d[Start(d) + ((x - Start(d)) % l)]
    BY <1>3, <1>4 DEF Repeated
  <2>2. (x - Start(d)) % l \in 0 .. l - 1
    BY <1>2, <2>1
  <2>3. Start(d) + ((x - Start(d)) % l) \in DOMAIN d
    BY <1>1, <1>2, <2>2
  <2>4. QED BY <2>1, <2>3, DataFacts
<1>5. QED BY <1>4

\* What undo_write_set_all does to the file: at each offset some accepted
\* entry covers, the bytes of the oldest of them.
LEMMA AllEffect ==
  ASSUME Inv, NEW set \in BOOLEAN, undo_write_set_all(set)
  PROVE  /\ file' \in [Off -> Byte]
         /\ \A x \in Off : Writers(x) = {} => file'[x] = file[x]
         /\ \A x \in Off : Writers(x) # {} /\ writable /\ mask = 1
              => file'[x] = Bytes(w[Oldest(Writers(x))], set)[x]
<1> DEFINE d == [x \in {y \in Off : Writers(y) # {}} |->
                   Bytes(w[Oldest(Writers(x))], set)[x] * mask]
<1>1. file' = Patch(file, d)
  BY DEF undo_write_set_all
<1>2. /\ file \in [Off -> Byte] /\ mask \in Byte
      /\ \A i \in DOMAIN w : i \in Nat /\ w[i] \in Entry
  BY DEF Inv, TypeOK
<1>3. ASSUME NEW x \in Off, Writers(x) # {}
      PROVE  Bytes(w[Oldest(Writers(x))], set)[x] \in Byte
  <2>1. Writers(x) \subseteq Nat
    BY <1>2 DEF Writers, Accepted
  <2>2. Oldest(Writers(x)) \in Writers(x)
    BY <1>3, <2>1, OldestPicks
  <2>3. PICK i \in DOMAIN w : i = Oldest(Writers(x)) /\ x \in DOMAIN w[i].n
    BY <2>2 DEF Writers, Accepted
  <2>4. Bytes(w[i], set) \in Data /\ x \in DOMAIN Bytes(w[i], set)
    BY <1>2, <2>3 DEF Entry, Bytes
  <2>5. QED BY <2>3, <2>4, DataFacts
<1>4. \A x \in DOMAIN d : d[x] \in Byte
  BY <1>2, <1>3 DEF Byte
<1>5. /\ Patch(file, d) \in [Off -> Byte]
      /\ \A x \in Off \ DOMAIN d : Patch(file, d)[x] = file[x]
  BY <1>2, <1>4, PatchFacts
<1>6. ASSUME NEW x \in Off, Writers(x) # {}, writable, mask = 1
      PROVE  file'[x] = Bytes(w[Oldest(Writers(x))], set)[x]
  <2>1. Patch(file, d)[x] = d[x]
    BY <1>6 DEF Patch
  <2>2. d[x] = Bytes(w[Oldest(Writers(x))], set)[x] * 1
    BY <1>6
  <2>3. QED BY <1>1, <1>3, <1>6, <2>1, <2>2 DEF Byte
<1>7. QED BY <1>1, <1>5, <1>6

\* Every step keeps the invariant.
LEMMA StepKeeps == Inv /\ [Next]_vars => Inv'
<1> SUFFICES ASSUME Inv, [Next]_vars PROVE Inv'
  OBVIOUS
<1>0. /\ w \in Seq(Entry) /\ file \in [Off -> Byte] /\ mask \in Byte /\ pos \in Off
      /\ \A i \in DOMAIN w : w[i] \in Entry
  BY DEF Inv, TypeOK
<1>1. ASSUME NEW d \in Data, radare_write_at(d) PROVE Inv'
  <2>1. CASE Start(d) \in WSection
    BY <1>0, <1>1, <2>1, RecordKeeps, RunShape DEF radare_write_at, Grown
  <2>2. CASE Start(d) \notin WSection
    BY <1>0, <1>1, <2>2, MaskedData, DataFacts, WriteKeeps DEF radare_write_at
  <2>3. QED BY <2>1, <2>2
<1>2. ASSUME NEW d \in Data, WriteAssembled(d) PROVE Inv'
  <2>1. CASE Start(d) \in WSection
    BY <1>0, <1>2, <2>1, RecordKeeps, RunShape, NewGrows DEF WriteAssembled
  <2>2. CASE Start(d) \notin WSection
    BY <1>0, <1>2, <2>2, MaskedData, DataFacts, WriteKeeps DEF WriteAssembled
  <2>3. QED BY <2>1, <2>2
<1>3. ASSUME NEW d \in Data, WriteValue(d) PROVE Inv'
  BY <1>0, <1>3, DataFacts, WriteKeeps DEF WriteValue
<1>4. ASSUME NEW d \in Data, NEW t, WriteTimes(d, t) PROVE Inv'
  BY <1>0, <1>4, RepeatedBytes, WriteKeeps DEF WriteTimes
<1>5. ASSUME NEW d \in Data, NEW t, radare_write(d, t) PROVE Inv'
  BY <1>0, <1>4, <1>5, MaskedData DEF radare_write
<1>6. ASSUME NEW d \in Data, NEW t, radare_poke(d, t) PROVE Inv'
  BY <1>4, <1>6 DEF radare_poke
<1>7. ASSUME NEW r \in Runs, radare_dump(r) PROVE Inv'
  <2>1. r \subseteq Off
    BY DEF Runs
  <2>2. [x \in r |-> file[x]] \in Data
    BY <1>0, <2>1, RunGivesData
  <2>3. Grown(undo_write_new(w, [x \in r |-> file[x]], file))
    BY <1>0, <2>2, NewGrows
  <2>4. QED BY <1>0, <1>7, <2>3, RecordKeeps DEF radare_dump
<1>8. ASSUME NEW n \in Int, NEW set \in BOOLEAN, undo_write_set(n, set) PROVE Inv'
  <2> DEFINE k == Len(w) - n
             d == Bytes(w[k], set)
  <2>1. /\ k \in DOMAIN w /\ w' = [w EXCEPT ![k].set = set]
        /\ UNCHANGED <<undowrite, writable, mask, base, lost>>
    BY <1>8 DEF undo_write_set, UndoDone
  <2>2. w[k] \in Entry
    BY <1>0, <2>1
  <2>3. d \in Data /\ DOMAIN d = DOMAIN w[k].n
    BY <2>2 DEF Entry, Bytes
  <2>4. DOMAIN d \subseteq Covered(w)
    BY <2>1, <2>3 DEF Covered
  <2>5. [w[k] EXCEPT !.set = set] \in Entry
    BY <2>2 DEF Entry
  <2>6. w' \in Seq(Entry) /\ DOMAIN w' = DOMAIN w
    BY <1>0, <2>1, <2>5
  <2>7. \A i \in DOMAIN w : w'[i].n = w[i].n /\ w'[i].o = w[i].o
    BY <1>0, <2>1, <2>2 DEF Entry
  <2>8. pos' \in Off
    BY <1>0, <1>8, <2>3, RunShape DEF undo_write_set
  <2>9. /\ file' \in [Off -> Byte]
        /\ \A x \in Off \ Covered(w) : file'[x] = file[x]
    <3>1. CASE Start(d) \in WSection
      BY <1>0, <1>8, <3>1 DEF undo_write_set
    <3>2. CASE Start(d) \notin WSection
      <4>1. file' = Patch(file, Masked(d))
        BY <1>8, <3>2 DEF undo_write_set
      <4>2. Masked(d) \in Data /\ DOMAIN Masked(d) = DOMAIN d
        BY <1>0, <2>3, MaskedData
      <4>3. \A x \in DOMAIN Masked(d) : Masked(d)[x] \in Byte
        BY <4>2, DataFacts
      <4>4. QED BY <1>0, <2>4, <4>1, <4>2, <4>3, PatchFacts
    <3>3. QED BY <3>1, <3>2
  <2>10. QED BY <2>1, <2>6, <2>7, <2>8, <2>9, UndoKeeps
<1>9. ASSUME NEW set \in BOOLEAN, undo_write_set_all(set) PROVE Inv'
  <2>1. /\ w' = [i \in DOMAIN w |-> [w[i] EXCEPT !.set = set]]
        /\ UNCHANGED <<undowrite, writable, mask, base, lost>>
    BY <1>9 DEF undo_write_set_all, UndoDone
  <2>2. \A i \in DOMAIN w : [w[i] EXCEPT !.set = set] \in Entry
    BY <1>0 DEF Entry
  <2>3. w' \in Seq(Entry) /\ DOMAIN w' = DOMAIN w
    BY <1>0, <2>1, <2>2
  <2>4. \A i \in DOMAIN w : w'[i].n = w[i].n /\ w'[i].o = w[i].o
    BY <1>0, <2>1 DEF Entry
  <2>5. pos' \in Off
    <3>1. CASE DOMAIN w \ Accepted = {}
      BY <1>0, <1>9, <3>1 DEF undo_write_set_all
    <3>2. CASE DOMAIN w \ Accepted # {}
      <4>1. pos' = Start(w[Oldest(DOMAIN w \ Accepted)].n)
        BY <1>9, <3>2 DEF undo_write_set_all
      <4>2. DOMAIN w \ Accepted \subseteq Nat
        BY <1>0
      <4>3. Oldest(DOMAIN w \ Accepted) \in DOMAIN w
        BY <3>2, <4>2, OldestPicks
      <4>4. w[Oldest(DOMAIN w \ Accepted)].n \in Data
        BY <1>0, <4>3 DEF Entry
      <4>5. QED BY <4>1, <4>4, RunShape
    <3>3. QED BY <3>1, <3>2
  <2>6. /\ file' \in [Off -> Byte]
        /\ \A x \in Off : Writers(x) = {} => file'[x] = file[x]
    BY <1>9, AllEffect
  <2>7. \A x \in Off \ Covered(w) : Writers(x) = {}
    BY DEF Covered, Writers, Accepted
  <2>8. QED BY <2>1, <2>3, <2>4, <2>5, <2>6, <2>7, UndoKeeps
<1>10. ASSUME undo_write_clear PROVE Inv'
  BY <1>10 DEF Inv, TypeOK, OldestKnowsBase, Covered, undo_write_clear
<1>11. ASSUME Setup PROVE Inv'
  <2>1. UNCHANGED <<file, w, base, lost>>
    BY <1>11 DEF Setup
  <2>2. pos' \in Off /\ mask' \in Byte
    BY <1>0, <1>11, SizeAssumption DEF Setup, Byte
  <2>3. undowrite' \in BOOLEAN /\ writable' \in BOOLEAN
    BY <1>11, SizeAssumption DEF Setup, Inv, TypeOK
  <2>4. TypeOK'
    BY <2>1, <2>2, <2>3 DEF Inv, TypeOK
  <2>5. OldestKnowsBase'
    BY <2>1 DEF Inv, OldestKnowsBase, Covered
  <2>6. QED BY <2>4, <2>5 DEF Inv
<1>12. ASSUME UNCHANGED vars PROVE Inv'
  BY <1>12 DEF Inv, TypeOK, OldestKnowsBase, Covered, vars
<1>13. QED
  BY <1>1, <1>2, <1>3, <1>5, <1>6, <1>7, <1>8, <1>9, <1>10, <1>11, <1>12 DEF Next

\* The invariant holds initially.
LEMMA InitHolds == Init => Inv
<1> SUFFICES ASSUME Init PROVE Inv
  OBVIOUS
<1>1. TypeOK
  <2>1. file \in [Off -> Byte] /\ base \in [Off -> Byte] /\ mask \in Byte /\ lost \subseteq Off
    BY DEF Init, Byte
  <2>2. pos \in Off /\ w \in Seq(Entry)
    BY SizeAssumption DEF Init, Off
  <2>3. undowrite \in BOOLEAN /\ writable \in BOOLEAN
    BY SizeAssumption DEF Init
  <2>4. QED BY <2>1, <2>2, <2>3 DEF TypeOK
<1>2. OldestKnowsBase
  BY DEF Init, OldestKnowsBase, Covered
<1>3. QED BY <1>1, <1>2 DEF Inv

\* Whatever was written, skipped as a duplicate, masked, refused, undone or
\* redone, the oldest entry at each recorded offset keeps the original byte.
THEOREM HistoryKeepsBase == Spec => []OldestKnowsBase
<1>1. Inv => OldestKnowsBase
  BY DEF Inv
<1>2. QED BY <1>1, InitHolds, StepKeeps, PTL DEF Spec

\* One undo of all entries restores the recorded bytes.
LEMMA UndoAllStep ==
  ASSUME Inv, undo_write_set_all(FALSE), mask = 1, writable, Accepted = DOMAIN w,
         NEW x \in Off, x \notin lost
  PROVE  file'[x] = base[x]
<1>1. w \in Seq(Entry)
  BY DEF Inv, TypeOK
<1>2. CASE Writers(x) = {}
  <2>1. x \notin Covered(w)
    BY <1>2 DEF Writers, Covered
  <2>2. file[x] = base[x]
    BY <2>1 DEF Inv, OldestKnowsBase
  <2>3. QED BY <1>2, <2>2, AllEffect
<1>3. CASE Writers(x) # {}
  <2> DEFINE i == Oldest(Writers(x))
  <2>1. Writers(x) \subseteq Nat
    BY <1>1 DEF Writers, Accepted
  <2>2. i \in Writers(x) /\ \A j \in Writers(x) : i <= j
    BY <1>3, <2>1, OldestPicks
  <2>3. file'[x] = w[i].o[x]
    BY <1>3, AllEffect DEF Bytes
  <2> HIDE DEF i
  <2>4. i \in DOMAIN w /\ x \in DOMAIN w[i].n
    BY <2>2 DEF Writers, Accepted
  <2>5. ASSUME NEW j \in 1 .. i - 1 PROVE x \notin DOMAIN w[j].n
    <3>1. j \in DOMAIN w /\ ~(i <= j)
      BY <1>1, <2>4, <2>5
    <3>2. j \notin Writers(x)
      BY <2>2, <3>1
    <3>3. QED BY <3>1, <3>2 DEF Writers
  <2>6. QED BY <2>3, <2>4, <2>5 DEF Inv, OldestKnowsBase
<1>4. QED BY <1>2, <1>3

\* Only undo_write_set_all(FALSE) reports an undo of all entries.
LEMMA UndoAllOnly ==
  ASSUME [Next]_vars, last'.cmd \in {"undo_all", "undo_some"}
  PROVE  undo_write_set_all(FALSE) \/ UNCHANGED <<last, file>>
<1>1. ASSUME NEW h, NEW f, NEW t, Effect(h, f, t) PROVE FALSE
  <2>1. last'.cmd \in {"write", "other"}
    BY <1>1 DEF Effect, Other
  <2>2. QED BY <2>1
<1>2. ASSUME NEW n, NEW set \in BOOLEAN, undo_write_set(n, set) PROVE FALSE
  <2>1. last'.cmd \in {"redo", "undo"}
    BY <1>2 DEF undo_write_set, UndoDone
  <2>2. QED BY <2>1
<1>3. ASSUME undo_write_set_all(TRUE) PROVE FALSE
  <2>1. last'.cmd = "redo_all"
    BY <1>3 DEF undo_write_set_all, UndoDone
  <2>2. QED BY <2>1
<1>4. ASSUME undo_write_clear PROVE FALSE
  <2>1. last'.cmd = "other"
    BY <1>4 DEF undo_write_clear, Other
  <2>2. QED BY <2>1
<1>5. ASSUME NEW d, radare_write_at(d) \/ WriteAssembled(d) \/ WriteValue(d) PROVE FALSE
  BY <1>1, <1>5 DEF radare_write_at, WriteAssembled, WriteValue
<1>6. ASSUME NEW d, NEW t, radare_write(d, t) \/ radare_poke(d, t) PROVE FALSE
  BY <1>1, <1>6 DEF radare_write, radare_poke, WriteTimes
<1>7. ASSUME NEW r, radare_dump(r) PROVE FALSE
  BY <1>1, <1>7 DEF radare_dump
<1>8. ASSUME Setup \/ UNCHANGED vars PROVE UNCHANGED <<last, file>>
  BY <1>8 DEF Setup, vars
<1>9. QED BY <1>2, <1>3, <1>4, <1>5, <1>6, <1>7, <1>8 DEF Next

\* 'ua' restores every byte the history recorded, for every file size, history
\* and section layout.
THEOREM UndoAllCorrect == Spec => UndoAllRestores
<1>1. Inv /\ [Next]_vars =>
        [last'.cmd \in {"undo_all", "undo_some"} /\ mask = 1 /\ writable /\ Accepted = DOMAIN w
           => \A x \in Off \ lost : file'[x] = base[x]]_<<last, file>>
  BY UndoAllOnly, UndoAllStep
<1>2. QED BY <1>1, InitHolds, StepKeeps, PTL DEF Spec, UndoAllRestores

\* Every entry keeps as many old bytes as new ones, for every command.
THEOREM HistoryTyped == Spec => []TypeOK
<1>1. Inv => TypeOK
  BY DEF Inv
<1>2. QED BY <1>1, InitHolds, StepKeeps, PTL DEF Spec

------------------------------------------------------------------------------
(***************************************************************************)
(* 'u 0' after a write.  The step that undoes says nothing of the file the *)
(* write found, so the invariant does: after a command that added an entry *)
(* the file before it is the old bytes of that entry and, everywhere else, *)
(* the file as it is.                                                      *)
(***************************************************************************)
NewestKnowsBefore ==
  last.cmd = "write" =>
    /\ w # <<>> /\ last.before \in [Off -> Byte]
    /\ \A x \in Off :
         last.before[x] = IF x \in DOMAIN w[Len(w)].n THEN w[Len(w)].o[x] ELSE file[x]

\* A command that writes leaves its own file before it behind, or none.
LEMMA EffectKnows ==
  ASSUME Inv, NEW h, NEW f, NEW touched, Effect(h, f, touched), Grown(h),
         \A x \in Off \ touched : f[x] = file[x]
  PROVE  NewestKnowsBefore'
<1> SUFFICES ASSUME last'.cmd = "write" PROVE NewestKnowsBefore'
  BY DEF NewestKnowsBefore
<1>1. w \in Seq(Entry) /\ file \in [Off -> Byte] /\ Len(w) \in Nat
  BY DEF Inv, TypeOK
<1>2. /\ w' = h /\ file' = f /\ Len(h) > Len(w) /\ touched = DOMAIN h[Len(h)].n
      /\ last' = [cmd |-> "write", arg |-> 0, before |-> file]
  BY DEF Effect, Other
<1>3. PICK e : Fresh(e) /\ h = Append(w, e)
  BY <1>1, <1>2 DEF Grown
<1>4. Len(h) = Len(w) + 1 /\ h[Len(h)] = e /\ h # <<>>
  BY <1>1, <1>3
<1>5. \A x \in DOMAIN e.n : e.o[x] = file[x]
  BY <1>3 DEF Fresh
<1>6. last'.before = file
  BY <1>2
<1>7. \A x \in Off : file[x] = IF x \in DOMAIN e.n THEN e.o[x] ELSE f[x]
  BY <1>2, <1>4, <1>5
<1>8. QED BY <1>1, <1>2, <1>4, <1>6, <1>7 DEF NewestKnowsBefore

\* The same for the commands that record one run of bytes and write another.
LEMMA WriteKnows ==
  ASSUME Inv, NEW d \in Data, NEW m, \A x \in DOMAIN m : m[x] \in Byte,
         Effect(undo_write_new(w, d, file), Patch(file, m), DOMAIN m)
  PROVE  NewestKnowsBefore'
<1>1. file \in [Off -> Byte]
  BY DEF Inv, TypeOK
<1>2. Grown(undo_write_new(w, d, file))
  BY <1>1, NewGrows
<1>3. \A x \in Off \ DOMAIN m : Patch(file, m)[x] = file[x]
  BY <1>1, PatchFacts
<1>4. QED BY <1>2, <1>3, EffectKnows

\* Every step keeps what is known of the file before the last write.
LEMMA NewestStep == Inv /\ NewestKnowsBefore /\ [Next]_vars => NewestKnowsBefore'
<1> SUFFICES ASSUME Inv, NewestKnowsBefore, [Next]_vars PROVE NewestKnowsBefore'
  OBVIOUS
<1>0. file \in [Off -> Byte] /\ mask \in Byte
  BY DEF Inv, TypeOK
<1>1. ASSUME NEW h, Grown(h), Effect(h, file, {}) PROVE NewestKnowsBefore'
  BY <1>1, EffectKnows
<1>2. ASSUME NEW d \in Data, radare_write_at(d) \/ WriteAssembled(d) \/ WriteValue(d)
      PROVE  NewestKnowsBefore'
  <2>1. Masked(d) \in Data /\ DOMAIN Masked(d) = DOMAIN d
    BY <1>0, MaskedData
  <2>2. \A x \in DOMAIN d : d[x] \in Byte
    BY DataFacts
  <2>3. \A x \in DOMAIN Masked(d) : Masked(d)[x] \in Byte
    BY <2>1, DataFacts
  <2>4. \/ Effect(w, file, {})
        \/ Effect(undo_write_new(w, d, file), file, {})
        \/ Effect(undo_write_new(w, d, file), Patch(file, Masked(d)), DOMAIN d)
        \/ Effect(undo_write_new(w, d, file), Patch(file, d), DOMAIN d)
    BY <1>2 DEF radare_write_at, WriteAssembled, WriteValue
  <2>5. Grown(w) /\ Grown(undo_write_new(w, d, file))
    BY <1>0, NewGrows DEF Grown
  <2>6. QED BY <1>1, <2>1, <2>2, <2>3, <2>4, <2>5, WriteKnows
<1>3. ASSUME NEW d \in Data, NEW t, WriteTimes(d, t) PROVE NewestKnowsBefore'
  BY <1>3, RepeatedBytes, WriteKnows DEF WriteTimes
<1>4. ASSUME NEW d \in Data, NEW t, radare_write(d, t) \/ radare_poke(d, t) PROVE NewestKnowsBefore'
  BY <1>0, <1>3, <1>4, MaskedData DEF radare_write, radare_poke
<1>5. ASSUME NEW r \in Runs, radare_dump(r) PROVE NewestKnowsBefore'
  <2>1. r \subseteq Off
    BY DEF Runs
  <2>2. [x \in r |-> file[x]] \in Data
    BY <1>0, <2>1, RunGivesData
  <2>3. Grown(undo_write_new(w, [x \in r |-> file[x]], file))
    BY <1>0, <2>2, NewGrows
  <2>4. QED BY <1>1, <1>5, <2>3 DEF radare_dump
<1>6. ASSUME last'.cmd \in {"redo", "undo", "redo_all", "undo_all", "undo_some", "other"}
      PROVE  NewestKnowsBefore'
  <2>1. last'.cmd # "write"
    BY <1>6
  <2>2. QED BY <2>1 DEF NewestKnowsBefore
<1>7. ASSUME NEW n, NEW set \in BOOLEAN, undo_write_set(n, set) PROVE NewestKnowsBefore'
  <2>1. last'.cmd \in {"redo", "undo"}
    BY <1>7 DEF undo_write_set, UndoDone
  <2>2. QED BY <1>6, <2>1
<1>8. ASSUME NEW set \in BOOLEAN, undo_write_set_all(set) PROVE NewestKnowsBefore'
  <2>1. last'.cmd \in {"redo_all", "undo_all", "undo_some"}
    BY <1>8 DEF undo_write_set_all, UndoDone
  <2>2. QED BY <1>6, <2>1
<1>9. ASSUME undo_write_clear PROVE NewestKnowsBefore'
  <2>1. last'.cmd = "other"
    BY <1>9 DEF undo_write_clear, Other
  <2>2. QED BY <1>6, <2>1
<1>10. ASSUME UNCHANGED <<last, w, file>> PROVE NewestKnowsBefore'
  BY <1>10 DEF NewestKnowsBefore
<1>11. ASSUME Setup \/ UNCHANGED vars PROVE NewestKnowsBefore'
  BY <1>10, <1>11 DEF Setup, vars
<1>12. QED BY <1>2, <1>4, <1>5, <1>7, <1>8, <1>9, <1>11 DEF Next

\* What 'u 0' does to the file after a write.
LEMMA UndoNewestStep ==
  ASSUME Inv, NewestKnowsBefore, last.cmd = "write", mask = 1, writable, Len(w) \in Accepted,
         undo_write_set(0, FALSE)
  PROVE  file' = last.before
<1> DEFINE k == Len(w) - 0
           d == w[k].o
<1>1. w \in Seq(Entry) /\ file \in [Off -> Byte] /\ Len(w) \in Nat
  BY DEF Inv, TypeOK
<1>2. k = Len(w) /\ k \in DOMAIN w /\ w[k] \in Entry
  BY <1>1 DEF undo_write_set
<1>3. d \in Data /\ DOMAIN d = DOMAIN w[k].n
  BY <1>2 DEF Entry
<1>4. Start(d) = Start(w[k].n)
  BY <1>3, Zenon DEF Start
<1>5. Start(d) \notin WSection
  BY <1>2, <1>4 DEF Accepted
<1>6. file' = Patch(file, Masked(d))
  BY <1>5 DEF undo_write_set, Bytes
<1>7. \A x \in DOMAIN d : Masked(d)[x] = d[x]
  <2>1. \A x \in DOMAIN d : d[x] \in Int
    BY <1>3, DataFacts DEF Byte
  <2>2. QED BY <2>1 DEF Masked
<1>8. DOMAIN Masked(d) = DOMAIN d
  BY DEF Masked
<1> HIDE DEF d
<1>9. file' = [x \in Off |-> IF x \in DOMAIN d THEN d[x] ELSE file[x]]
  BY <1>6, <1>7, <1>8 DEF Patch
<1>10. /\ last.before \in [Off -> Byte]
       /\ \A x \in Off : last.before[x] = IF x \in DOMAIN d THEN d[x] ELSE file[x]
  BY <1>2, <1>3 DEF NewestKnowsBefore, d
<1>11. QED BY <1>9, <1>10

\* 'u 0' straight after a write puts the file back, for every file, mask set
\* before it, section layout and history.
THEOREM UndoNewestCorrect == Spec => UndoNewestRestores
<1>1. Init => NewestKnowsBefore
  <2>1. Init => last.cmd = "other"
    BY DEF Init, Other
  <2>2. QED BY <2>1 DEF NewestKnowsBefore
<1>2. ASSUME Inv, NewestKnowsBefore, [Next]_vars, last.cmd = "write", last'.cmd = "undo", last'.arg = 0,
             mask = 1, writable, Len(w) \in Accepted
      PROVE  file' = last.before
  <2>1. ASSUME NEW h, NEW f, NEW t, Effect(h, f, t) PROVE FALSE
    <3>1. last'.cmd \in {"write", "other"}
      BY <2>1 DEF Effect, Other
    <3>2. QED BY <1>2, <3>1
  <2>2. ASSUME NEW set \in BOOLEAN, undo_write_set_all(set) PROVE FALSE
    <3>1. last'.cmd \in {"redo_all", "undo_all", "undo_some"}
      BY <2>2 DEF undo_write_set_all, UndoDone
    <3>2. QED BY <1>2, <3>1
  <2>3. ASSUME undo_write_clear PROVE FALSE
    <3>1. last'.cmd = "other"
      BY <2>3 DEF undo_write_clear, Other
    <3>2. QED BY <1>2, <3>1
  <2>4. ASSUME Setup \/ UNCHANGED vars PROVE FALSE
    <3>1. last' = last
      BY <2>4 DEF Setup, vars
    <3>2. QED BY <1>2, <3>1
  <2>5. ASSUME NEW d, radare_write_at(d) \/ WriteAssembled(d) \/ WriteValue(d) PROVE FALSE
    BY <2>1, <2>5 DEF radare_write_at, WriteAssembled, WriteValue
  <2>6. ASSUME NEW d, NEW t, radare_write(d, t) \/ radare_poke(d, t) PROVE FALSE
    BY <2>1, <2>6 DEF radare_write, radare_poke, WriteTimes
  <2>7. ASSUME NEW r, radare_dump(r) PROVE FALSE
    BY <2>1, <2>7 DEF radare_dump
  <2>8. ASSUME NEW n, NEW set \in BOOLEAN, undo_write_set(n, set) PROVE n = 0 /\ set = FALSE
    <3>1. last'.cmd = (IF set THEN "redo" ELSE "undo") /\ last'.arg = n
      BY <2>8 DEF undo_write_set, UndoDone
    <3>2. QED BY <1>2, <3>1
  <2>9. undo_write_set(0, FALSE)
    BY <1>2, <2>2, <2>3, <2>4, <2>5, <2>6, <2>7, <2>8 DEF Next
  <2>10. QED BY <1>2, <2>9, UndoNewestStep
<1>3. Inv /\ NewestKnowsBefore /\ [Next]_vars =>
        [last.cmd = "write" /\ last'.cmd = "undo" /\ last'.arg = 0
           /\ mask = 1 /\ writable /\ Len(w) \in Accepted
           => file' = last.before]_<<last, file>>
  BY <1>2
<1>4. QED BY <1>1, <1>3, InitHolds, StepKeeps, NewestStep, PTL DEF Spec, UndoNewestRestores
==============================================================================
