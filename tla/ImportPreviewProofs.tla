------------------------- MODULE ImportPreviewProofs -------------------------
(***************************************************************************)
(* Proofs about ImportPreview, for every set of users, files, previews and *)
(* commit requests: what a preview becomes, and that the line by line      *)
(* transactions of any number of overlapping files register each file at   *)
(* once, with exact counts.                                                *)
(***************************************************************************)
EXTENDS ImportPreview, FiniteSetTheorems, TLAPS

(* Next, with the deadlock detector's abort among the other aborts.        *)
LEMMA NextCases ==
  ASSUME Next
  PROVE  \/ \E u \in Users, f \in Files, id \in PreviewIds : PreviewImport(u, f, id)
         \/ \E c \in Commits, u \in Users, id \in DOMAIN issued : CommitImport(c, u, id)
         \/ \E c \in Commits : InsertLine(c)
         \/ \E c \in Commits, reply \in {"ok", "lost"} : CommitTx(c, reply)
         \/ \E c \in Commits : AbortTx(c)
         \/ Tick
         \/ \E victims \in SUBSET Open : Restart(victims)
  BY Zenon DEF Next, Proceed, ResolveDeadlock

LEMMA LineFacts ==
  ASSUME NEW f \in Files
  PROVE  /\ Lines[f] \in Seq(Fingerprints)
         /\ Len(Lines[f]) \in Nat
         /\ DOMAIN Lines[f] = 1 .. Len(Lines[f])
         /\ LinesOf(f) \subseteq Fingerprints
<1>1. Lines[f] \in Seq(Fingerprints)
  BY LinesAreSequences
<1> HIDE DEF Fingerprints
<1> QED  BY <1>1 DEF LinesOf

LEMMA TailFacts ==
  ASSUME NEW S, NEW s \in Seq(S), s # <<>>
  PROVE  /\ Len(s) \in Nat \ {0} /\ Len(Tail(s)) = Len(s) - 1
         /\ Tail(s) \in Seq(S) /\ Head(s) \in S
         /\ \A i \in 1 .. Len(s) : s[i] = Head(s) \/ \E j \in 1 .. Len(Tail(s)) : Tail(s)[j] = s[i]
<1>1. Len(s) \in Nat \ {0} /\ Len(Tail(s)) = Len(s) - 1 /\ Tail(s) \in Seq(S)
      /\ Head(s) \in S /\ Head(s) = s[1]
  OBVIOUS
<1>2. ASSUME NEW i \in 1 .. Len(s), i # 1
      PROVE  i - 1 \in 1 .. Len(Tail(s)) /\ Tail(s)[i - 1] = s[i]
  BY <1>1, <1>2
<1> QED  BY <1>1, <1>2

(* What the functions of previews keep and change.                         *)
LEMMA WithFacts ==
  ASSUME NEW f, NEW x, NEW v
  PROVE  /\ DOMAIN With(f, x, v) = DOMAIN f \cup {x}
         /\ With(f, x, v)[x] = v
         /\ \A y \in DOMAIN f : y # x => With(f, x, v)[y] = f[y]
  BY DEF With

LEMMA KeepFacts ==
  ASSUME NEW f, NEW S
  PROVE  /\ DOMAIN Keep(f, S) = DOMAIN f \cap S
         /\ \A y \in DOMAIN f \cap S : Keep(f, S)[y] = f[y]
  BY DEF Keep

LEMMA SweptFacts ==
  ASSUME NEW entries
  PROVE  /\ DOMAIN Swept(entries) = {id \in DOMAIN entries : ~Expired(entries[id])}
         /\ \A id \in DOMAIN Swept(entries) : Swept(entries)[id] = entries[id]
<1> DEFINE fresh == {id \in DOMAIN entries : ~Expired(entries[id])}
<1>1. Swept(entries) = [id \in DOMAIN entries \cap fresh |-> entries[id]]
  BY DEF Swept, Keep
<1>2. DOMAIN entries \cap fresh = fresh
  OBVIOUS
<1> HIDE DEF fresh
<1>3. DOMAIN Swept(entries) = fresh /\ \A id \in fresh : Swept(entries)[id] = entries[id]
  BY <1>1, <1>2
<1> QED  BY <1>3 DEF fresh

-----------------------------------------------------------------------------
LEMMA InitType == Init => TypeOK
  BY TTLIsNatural DEF Init, TypeOK, Holds, Registered, NoTx, Transactions

LEMMA NextType == TypeOK /\ [Next]_vars => TypeOK'
<1> SUFFICES ASSUME TypeOK, [Next]_vars PROVE TypeOK'
  OBVIOUS
<1> USE TTLIsNatural DEF TypeOK
<1> USE DEF Holds, Registered
<1>1. ASSUME NEW u \in Users, NEW f \in Files, NEW id \in PreviewIds, PreviewImport(u, f, id)
      PROVE  TypeOK'
  <2> DEFINE entry == [owner |-> u, file |-> f, expiresAt |-> clock + TTL]
  <2>1. entry \in Previews
    BY DEF Previews
  <2>2. cache' = With(Swept(cache), id, entry) /\ issued' = With(issued, id, entry)
        /\ owed' = owed \cup {id} /\ UNCHANGED <<clock, rows, pc, took, tx>>
    BY <1>1 DEF PreviewImport
  <2> HIDE DEF entry
  <2>3. DOMAIN cache' \subseteq PreviewIds /\ \A x \in DOMAIN cache' : cache'[x] \in Previews
    <3>1. DOMAIN Swept(cache) \subseteq DOMAIN cache
          /\ \A x \in DOMAIN Swept(cache) : Swept(cache)[x] = cache[x]
      BY SweptFacts
    <3> QED  BY <2>1, <2>2, <3>1 DEF With
  <2>4. DOMAIN issued' = DOMAIN issued \cup {id} /\ \A x \in DOMAIN issued' : issued'[x] \in Previews
    BY <2>1, <2>2 DEF With
  <2> QED  BY <2>2, <2>3, <2>4
<1>2. ASSUME NEW c \in Commits, NEW u \in Users, NEW id \in DOMAIN issued, CommitImport(c, u, id)
      PROVE  TypeOK'
  <2>1. DOMAIN cache' \subseteq PreviewIds /\ \A x \in DOMAIN cache' : cache'[x] \in Previews
    BY <1>2 DEF CommitImport, Keep
  <2>2. owed' \subseteq DOMAIN issued'
    BY <1>2 DEF CommitImport
  <2>3. CASE Takes(u, id) /\ ~Expired(cache[id])
    <3>1. cache[id].file \in Files
      BY <2>3 DEF Takes, Previews
    <3>2. [NoTx EXCEPT !.todo = Lines[cache[id].file]] \in Transactions
      BY <3>1, LineFacts DEF NoTx, Transactions
    <3>3. tx' \in [Commits -> Transactions]
      BY <1>2, <2>3, <3>2 DEF CommitImport
    <3>4. pc' = [pc EXCEPT ![c] = "importing"] /\ took' = [took EXCEPT ![c] = <<u, id>>]
          /\ <<u, id>> \in Users \X PreviewIds
      BY <1>2, <2>3 DEF CommitImport
    <3> QED  BY <1>2, <2>1, <2>2, <3>3, <3>4 DEF CommitImport
  <2>4. CASE ~(Takes(u, id) /\ ~Expired(cache[id]))
    BY <1>2, <2>1, <2>2, <2>4 DEF CommitImport
  <2> QED  BY <2>3, <2>4
<1>3. ASSUME NEW c \in Commits, InsertLine(c) PROVE TypeOK'
  <2>1. tx[c] \in Transactions /\ tx[c].todo # <<>>
    BY <1>3 DEF InsertLine
  <2>2. Tail(tx[c].todo) \in Seq(Fingerprints) /\ Head(tx[c].todo) \in Fingerprints
    BY <2>1, TailFacts DEF Transactions
  <2>3. tx' \in [Commits -> Transactions]
    BY <1>3, <2>1, <2>2 DEF InsertLine, Transactions
  <2> QED  BY <1>3, <2>3 DEF InsertLine
<1>4. ASSUME NEW c \in Commits, NEW reply \in {"ok", "lost"}, CommitTx(c, reply) PROVE TypeOK'
  <2>1. UserOf(c) \in Users /\ tx[c].mine \subseteq Fingerprints
    BY <1>4 DEF CommitTx, UserOf, Transactions
  <2>2. tx' \in [Commits -> Transactions]
    BY <1>4 DEF CommitTx, Transactions
  <2> QED  BY <1>4, <2>1, <2>2 DEF CommitTx, Ends
<1>5. ASSUME NEW c \in Commits, AbortTx(c) PROVE TypeOK'
  <2>1. NoTx \in Transactions
    BY DEF NoTx, Transactions
  <2> QED  BY <1>5, <2>1 DEF AbortTx, Ends
<1>6. CASE Tick
  BY <1>6 DEF Tick
<1>7. ASSUME NEW victims \in SUBSET Open, Restart(victims) PROVE TypeOK'
  <2>1. NoTx \in Transactions
    BY DEF NoTx, Transactions
  <2> QED  BY <1>7, <2>1 DEF Restart
<1>8. CASE UNCHANGED vars
  BY <1>8 DEF vars
<1> QED  BY <1>1, <1>2, <1>3, <1>4, <1>5, <1>6, <1>7, <1>8, NextCases

(* The variables keep their types: a request holds a preview exactly while *)
(* it imports or has registered it.                                        *)
THEOREM ImportType == Spec => []TypeOK
  BY InitType, NextType, PTL DEF Spec

-----------------------------------------------------------------------------
FileOf(c) == issued[took[c][2]].file

(* The cache holds previews as they were issued; a commit request that     *)
(* holds a preview is the only one and took it from the cache of its owner. *)
TakenInv ==
    /\ \A id \in DOMAIN cache : id \in DOMAIN issued /\ cache[id] = issued[id]
    /\ \A c \in Commits : Holds(c) =>
          /\ took[c][2] \in DOMAIN issued
          /\ took[c][2] \notin DOMAIN cache
    /\ RegisteredOnce

LEMMA InitTaken == Init => TakenInv /\ OwedIsCached
  BY DEF Init, TakenInv, RegisteredOnce, OwedIsCached, Holds, Registered

(* A successful take of a preview; every other commit request is refused.  *)
Begin(c, u, id) ==
    /\ CommitImport(c, u, id)
    /\ Takes(u, id) /\ ~Expired(cache[id])

(* A step that registers nothing and works on no open transaction: it may  *)
(* only end some of them.                                                  *)
Quiet ==
    /\ rows' = rows
    /\ \A c \in Commits :
          /\ Holds(c)' => /\ pc'[c] = pc[c] /\ tx'[c] = tx[c] /\ took'[c] = took[c]
                          /\ issued'[took[c][2]] = issued[took[c][2]]
          /\ Registered(c) => Registered(c)'

LEMMA StepKinds ==
  ASSUME TypeOK, TakenInv, [Next]_vars
  PROVE  \/ Quiet
         \/ \E c \in Commits, u \in Users, id \in DOMAIN issued : Begin(c, u, id)
         \/ \E c \in Commits : InsertLine(c)
         \/ \E c \in Commits, reply \in {"ok", "lost"} : CommitTx(c, reply)
<1> USE DEF Quiet, Holds, Registered
<1>1. ASSUME NEW u \in Users, NEW f \in Files, NEW id \in PreviewIds, PreviewImport(u, f, id)
      PROVE  Quiet
  <2>1. id \notin DOMAIN issued /\ UNCHANGED <<rows, pc, took, tx>>
        /\ \A x \in DOMAIN issued : issued'[x] = issued[x]
    BY <1>1 DEF PreviewImport, With
  <2> QED  BY <2>1 DEF TakenInv
<1>2. ASSUME NEW c \in Commits, NEW u \in Users, NEW id \in DOMAIN issued,
             CommitImport(c, u, id), ~Begin(c, u, id)
      PROVE  Quiet
  BY <1>2 DEF CommitImport, Begin, TypeOK
<1>3. ASSUME NEW c \in Commits, AbortTx(c) PROVE Quiet
  BY <1>3 DEF AbortTx, Ends, TypeOK
<1>4. CASE Tick
  BY <1>4 DEF Tick
<1>5. ASSUME NEW victims \in SUBSET Open, Restart(victims) PROVE Quiet
  BY <1>5 DEF Restart, Open, TypeOK
<1>6. CASE UNCHANGED vars
  BY <1>6 DEF vars
<1> QED  BY <1>1, <1>2, <1>3, <1>4, <1>5, <1>6, NextCases, Zenon

(* The cache shrinks, or grows by a preview that is new.                   *)
LEMMA CacheSteps ==
  ASSUME TypeOK, [Next]_vars
  PROVE  \/ /\ issued' = issued
            /\ \A id \in DOMAIN cache' : id \in DOMAIN cache /\ cache'[id] = cache[id]
         \/ \E u \in Users, f \in Files, id \in PreviewIds : PreviewImport(u, f, id)
<1> DEFINE Shrinks == /\ issued' = issued
                      /\ \A id \in DOMAIN cache' : id \in DOMAIN cache /\ cache'[id] = cache[id]
<1>2. ASSUME NEW c \in Commits, NEW u \in Users, NEW id \in DOMAIN issued, CommitImport(c, u, id)
      PROVE  Shrinks
  BY <1>2 DEF CommitImport, Keep
<1>3. ASSUME NEW c \in Commits, AbortTx(c) \/ InsertLine(c) PROVE Shrinks
  BY <1>3 DEF AbortTx, InsertLine
<1>4. ASSUME NEW c \in Commits, NEW reply, CommitTx(c, reply) PROVE Shrinks
  BY <1>4 DEF CommitTx
<1>5. CASE Tick
  BY <1>5 DEF Tick
<1>6. ASSUME NEW victims \in SUBSET Open, Restart(victims) PROVE Shrinks
  BY <1>6 DEF Restart
<1>7. CASE UNCHANGED vars
  BY <1>7 DEF vars
<1> QED  BY <1>2, <1>3, <1>4, <1>5, <1>6, <1>7, NextCases, Zenon

LEMMA NextTaken == TypeOK /\ TakenInv /\ [Next]_vars => TakenInv'
<1> SUFFICES ASSUME TypeOK, TakenInv, [Next]_vars PROVE TakenInv'
  OBVIOUS
<1> USE DEF UserOf
<1>1. ASSUME NEW u \in Users, NEW f \in Files, NEW id \in PreviewIds, PreviewImport(u, f, id)
      PROVE  TakenInv'
  <2> DEFINE entry == [owner |-> u, file |-> f, expiresAt |-> clock + TTL]
  <2>1. id \notin DOMAIN issued
        /\ cache' = With(Swept(cache), id, entry) /\ issued' = With(issued, id, entry)
        /\ UNCHANGED <<pc, took>>
    BY <1>1 DEF PreviewImport
  <2> HIDE DEF entry
  <2>2. DOMAIN cache' \subseteq DOMAIN cache \cup {id} /\ cache'[id] = entry
        /\ \A x \in DOMAIN cache' : x # id => cache'[x] = cache[x]
    <3>1. DOMAIN Swept(cache) \subseteq DOMAIN cache
          /\ \A x \in DOMAIN Swept(cache) : Swept(cache)[x] = cache[x]
      BY SweptFacts
    <3> QED  BY <2>1, <3>1 DEF With
  <2>3. DOMAIN issued' = DOMAIN issued \cup {id} /\ issued'[id] = entry
        /\ \A x \in DOMAIN issued : issued'[x] = issued[x]
    BY <2>1 DEF With
  <2>4. \A c \in Commits : (Holds(c)' <=> Holds(c)) /\ took'[c] = took[c]
    BY <2>1 DEF Holds, Registered
  <2> QED  BY <2>1, <2>2, <2>3, <2>4 DEF TakenInv, RegisteredOnce
<1>2. ASSUME NEW c \in Commits, NEW u \in Users, NEW id \in DOMAIN issued, Begin(c, u, id)
      PROVE  TakenInv'
  <2>1. DOMAIN cache' = DOMAIN cache \ {id} /\ \A x \in DOMAIN cache' : cache'[x] = cache[x]
    BY <1>2 DEF Begin, CommitImport, Keep, TypeOK
  <2>2. issued' = issued /\ took' = [took EXCEPT ![c] = <<u, id>>]
        /\ id \in DOMAIN cache /\ cache[id].owner = u
        /\ \A d \in Commits : d # c => (Holds(d)' <=> Holds(d))
    BY <1>2 DEF Begin, CommitImport, Takes, Holds, Registered, TypeOK
  <2>3. took'[c] = <<u, id>> /\ \A d \in Commits : d # c => took'[d] = took[d]
    BY <2>2 DEF TypeOK
  <2> QED  BY <2>1, <2>2, <2>3 DEF TakenInv, RegisteredOnce
<1>3. ASSUME issued' = issued,
             \A id \in DOMAIN cache' : id \in DOMAIN cache /\ cache'[id] = cache[id],
             \A c \in Commits : Holds(c)' => Holds(c) /\ took'[c] = took[c]
      PROVE  TakenInv'
  BY <1>3 DEF TakenInv, RegisteredOnce
<1>4. ASSUME Quiet PROVE \A c \in Commits : Holds(c)' => Holds(c) /\ took'[c] = took[c]
  BY <1>4 DEF Quiet, Holds, Registered
<1>5. ASSUME NEW c \in Commits, InsertLine(c)
      PROVE  \A d \in Commits : Holds(d)' => Holds(d) /\ took'[d] = took[d]
  BY <1>5 DEF InsertLine, Holds, Registered
<1>6. ASSUME NEW c \in Commits, NEW reply, CommitTx(c, reply)
      PROVE  \A d \in Commits : Holds(d)' => Holds(d) /\ took'[d] = took[d]
  BY <1>6 DEF CommitTx, Ends, Holds, Registered, TypeOK
<1> QED  BY <1>1, <1>2, <1>3, <1>4, <1>5, <1>6, StepKinds, CacheSteps, Zenon

LEMMA NextOwed == TypeOK /\ OwedIsCached /\ [Next]_vars => OwedIsCached'
<1> SUFFICES ASSUME TypeOK, OwedIsCached, [Next]_vars PROVE OwedIsCached'
  OBVIOUS
<1> USE DEF OwedIsCached, Expired
<1>1. ASSUME NEW u \in Users, NEW f \in Files, NEW id \in PreviewIds, PreviewImport(u, f, id)
      PROVE  OwedIsCached'
  <2> DEFINE entry == [owner |-> u, file |-> f, expiresAt |-> clock + TTL]
  <2>1. id \notin DOMAIN issued /\ clock' = clock /\ owed' = owed \cup {id}
        /\ cache' = With(Swept(cache), id, entry) /\ issued' = With(issued, id, entry)
    BY <1>1 DEF PreviewImport
  <2> HIDE DEF entry
  <2>2. ASSUME NEW x \in owed, ~(clock > issued[x].expiresAt)
        PROVE  x \in DOMAIN cache' /\ cache'[x] = issued'[x]
    <3>1. x \in DOMAIN issued /\ x # id /\ x \in DOMAIN cache /\ cache[x] = issued[x]
      BY <2>1, <2>2 DEF TypeOK
    <3>2. x \in DOMAIN Swept(cache) /\ Swept(cache)[x] = cache[x]
      BY <2>2, <3>1, SweptFacts
    <3> QED  BY <2>1, <3>1, <3>2 DEF With
  <2>3. id \in DOMAIN cache' /\ cache'[id] = issued'[id]
    BY <2>1 DEF With
  <2>4. \A x \in owed : issued'[x] = issued[x]
    BY <2>1 DEF With, TypeOK
  <2> QED  BY <2>1, <2>2, <2>3, <2>4
<1>2. ASSUME NEW c \in Commits, NEW u \in Users, NEW id \in DOMAIN issued, CommitImport(c, u, id)
      PROVE  OwedIsCached'
  <2>1. clock' = clock /\ issued' = issued /\ owed' \subseteq owed
        /\ (issued[id].owner = u => id \notin owed')
    BY <1>2 DEF CommitImport
  <2>2. cache' = cache \/ (Takes(u, id) /\ cache' = Keep(cache, PreviewIds \ {id}))
    BY <1>2 DEF CommitImport
  <2>3. ASSUME NEW x \in owed', ~(clock > issued[x].expiresAt)
        PROVE  x \in DOMAIN cache' /\ cache'[x] = issued[x]
    <3>1. x \in DOMAIN cache /\ cache[x] = issued[x] /\ x \in PreviewIds
      BY <2>1, <2>3 DEF TypeOK
    <3>2. Takes(u, id) => x # id
      BY <2>1, <3>1 DEF Takes
    <3> QED  BY <2>2, <3>1, <3>2 DEF Keep
  <2> QED  BY <2>1, <2>3
<1>3. ASSUME NEW c \in Commits, InsertLine(c) \/ AbortTx(c) PROVE OwedIsCached'
  BY <1>3 DEF InsertLine, AbortTx
<1>4. ASSUME NEW c \in Commits, NEW reply, CommitTx(c, reply) PROVE OwedIsCached'
  BY <1>4 DEF CommitTx
<1>5. CASE Tick
  BY <1>5 DEF Tick, TypeOK, Previews
<1>6. ASSUME NEW victims \in SUBSET Open, Restart(victims) PROVE OwedIsCached'
  BY <1>6 DEF Restart
<1>7. CASE UNCHANGED vars
  BY <1>7 DEF vars
<1> QED  BY <1>1, <1>2, <1>3, <1>4, <1>5, <1>6, <1>7, NextCases, Zenon

(* A preview is registered for its owner and by at most one commit         *)
(* request, for any number of requests and users racing for any number of  *)
(* previews.                                                               *)
THEOREM ImportRegisteredOnce == Spec => []RegisteredOnce
<1>1. TakenInv => RegisteredOnce
  BY DEF TakenInv
<1> QED  BY <1>1, InitType, NextType, InitTaken, NextTaken, PTL DEF Spec

(* Between its answer and its expiry a preview leaves the cache only by    *)
(* its owner's commit or a restart.                                        *)
THEOREM ImportOwedIsCached == Spec => []OwedIsCached
  BY InitType, NextType, InitTaken, NextOwed, PTL DEF Spec

-----------------------------------------------------------------------------
(* What an open transaction has inserted: some lines of its file, none of  *)
(* them committed; each line of the file is inserted, committed, or left.  *)
WorkOf(c) ==
    /\ tx[c].mine \subseteq LinesOf(FileOf(c))
    /\ \A i \in 1 .. Len(tx[c].todo) : tx[c].todo[i] \in LinesOf(FileOf(c))
    /\ \A line \in tx[c].mine : <<UserOf(c), line>> \notin rows
    /\ \A line \in LinesOf(FileOf(c)) :
          \/ line \in tx[c].mine
          \/ <<UserOf(c), line>> \in rows
          \/ \E i \in 1 .. Len(tx[c].todo) : tx[c].todo[i] = line

(* The counters of an open transaction.                                    *)
CountOf(c) ==
    /\ IsFiniteSet(tx[c].mine)
    /\ tx[c].imported = Cardinality(tx[c].mine)
    /\ tx[c].imported + tx[c].duplicate + Len(tx[c].todo) = Len(Lines[FileOf(c)])

WorkInv ==
    /\ \A c \in Open : WorkOf(c)
    /\ \A c, d \in Open : c # d /\ UserOf(c) = UserOf(d) => tx[c].mine \cap tx[d].mine = {}

CountInv == \A c \in Open : CountOf(c)

(* The lines of a registered file are committed, and nothing else is.      *)
RowsInv ==
    /\ \A c \in Commits : Registered(c) => {UserOf(c)} \X LinesOf(FileOf(c)) \subseteq rows
    /\ \A row \in rows : \E c \in Commits :
          Registered(c) /\ UserOf(c) = row[1] /\ row[2] \in LinesOf(FileOf(c))

RowsOf(u) == {row \in rows : row[1] = u}

ToldInv ==
    \A u \in Users :
        /\ IsFiniteSet(RowsOf(u))
        /\ IsFiniteSet(Told(u))
        /\ Cardinality(RowsOf(u)) = Cardinality(Told(u))

LEMMA InitWork == Init => WorkInv /\ CountInv /\ RowsInv
  BY DEF Init, WorkInv, CountInv, RowsInv, Open, Registered

(* A preview that is held names a file.                                    *)
LEMMA FileFacts ==
  ASSUME TypeOK, TakenInv, NEW c \in Commits, Holds(c)
  PROVE  FileOf(c) \in Files /\ UserOf(c) \in Users
  BY DEF TypeOK, TakenInv, FileOf, UserOf, Previews

(* The work of c is what it was.                                           *)
Same(c) ==
    /\ pc'[c] = pc[c] /\ tx'[c] = tx[c] /\ took'[c] = took[c]
    /\ issued'[took[c][2]] = issued[took[c][2]]

LEMMA SameFacts ==
  ASSUME NEW c, Same(c)
  PROVE  UserOf(c)' = UserOf(c) /\ FileOf(c)' = FileOf(c)
  BY DEF Same, UserOf, FileOf

LEMMA SameWork ==
  ASSUME NEW c, Same(c)
  PROVE  /\ CountOf(c) => CountOf(c)'
         /\ WorkOf(c) /\ (\A line \in tx[c].mine : <<UserOf(c), line>> \notin rows')
              /\ rows \subseteq rows' => WorkOf(c)'
  BY SameFacts DEF Same, CountOf, WorkOf, LinesOf

LEMMA BeginWork ==
  ASSUME TypeOK, TakenInv, NEW c \in Commits, NEW u \in Users, NEW id \in DOMAIN issued,
         Begin(c, u, id)
  PROVE  /\ c \notin Open /\ Open' = Open \cup {c} /\ ~Holds(c)
         /\ rows' = rows /\ \A d \in Commits \ {c} : Same(d)
         /\ ~Registered(c)'
         /\ tx'[c].mine = {}
         /\ WorkOf(c)' /\ CountOf(c)'
<1> DEFINE f == issued[id].file
<1>1. f \in Files /\ cache[id] = issued[id]
  BY DEF Begin, Takes, TakenInv, TypeOK, Previews
<1>2. /\ pc[c] = "idle" /\ pc' = [pc EXCEPT ![c] = "importing"]
      /\ took' = [took EXCEPT ![c] = <<u, id>>]
      /\ tx' = [tx EXCEPT ![c] = [NoTx EXCEPT !.todo = Lines[f]]]
      /\ UNCHANGED <<rows, issued>>
  BY <1>1 DEF Begin, CommitImport
<1>3. tx'[c] = [todo |-> Lines[f], mine |-> {}, imported |-> 0, duplicate |-> 0]
  BY <1>2 DEF TypeOK, NoTx
<1>4. FileOf(c)' = f /\ pc'[c] = "importing" /\ took'[c] = <<u, id>>
  BY <1>2 DEF FileOf, TypeOK
<1> HIDE DEF f
<1>5. \A d \in Commits \ {c} : Same(d)
  BY <1>2 DEF Same, TypeOK
<1>6. WorkOf(c)'
  BY <1>1, <1>3, <1>4, LineFacts DEF WorkOf, LinesOf
<1>7. CountOf(c)'
  BY <1>1, <1>3, <1>4, LineFacts, FS_EmptySet DEF CountOf
<1>8. c \notin Open /\ Open' = Open \cup {c} /\ ~Holds(c) /\ ~Registered(c)'
  BY <1>2 DEF Open, Holds, Registered, TypeOK
<1> QED  BY <1>2, <1>3, <1>5, <1>6, <1>7, <1>8

LEMMA InsertWork ==
  ASSUME TypeOK, TakenInv, WorkInv, CountInv, NEW c \in Commits, InsertLine(c)
  PROVE  /\ c \in Open /\ Open' = Open
         /\ rows' = rows /\ took' = took /\ issued' = issued /\ pc' = pc
         /\ \A d \in Commits \ {c} : Same(d)
         /\ \A d \in Open \ {c} : UserOf(d) = UserOf(c) => tx'[c].mine \cap tx[d].mine = {}
         /\ WorkOf(c)' /\ CountOf(c)'
<1> DEFINE line == Head(tx[c].todo)
           fresh == <<UserOf(c), line>> \notin rows /\ line \notin tx[c].mine
<1>1. /\ pc[c] = "importing" /\ tx[c].todo # <<>> /\ ~Blocked(c)
      /\ tx' = [tx EXCEPT ![c] =
              [todo      |-> Tail(tx[c].todo),
               mine      |-> IF fresh THEN tx[c].mine \cup {line} ELSE tx[c].mine,
               imported  |-> tx[c].imported + (IF fresh THEN 1 ELSE 0),
               duplicate |-> tx[c].duplicate + (IF fresh THEN 0 ELSE 1)]]
      /\ UNCHANGED <<clock, cache, rows, pc, took, issued, owed>>
  BY DEF InsertLine
<1>2. c \in Open /\ Open' = Open /\ \A d \in Commits \ {c} : Same(d)
  BY <1>1 DEF Open, Same, TypeOK
<1>3. tx[c] \in Transactions /\ tx[c].todo \in Seq(Fingerprints)
      /\ tx[c].imported \in Nat /\ tx[c].duplicate \in Nat
  BY DEF TypeOK, Transactions
<1>4. FileOf(c)' = FileOf(c) /\ UserOf(c)' = UserOf(c) /\ LinesOf(FileOf(c))' = LinesOf(FileOf(c))
  BY <1>1 DEF FileOf, UserOf, LinesOf
<1>5. /\ tx'[c].todo = Tail(tx[c].todo)
      /\ tx'[c].mine = (IF fresh THEN tx[c].mine \cup {line} ELSE tx[c].mine)
      /\ tx'[c].imported = tx[c].imported + (IF fresh THEN 1 ELSE 0)
      /\ tx'[c].duplicate = tx[c].duplicate + (IF fresh THEN 0 ELSE 1)
  BY <1>1 DEF TypeOK
<1>6. WorkOf(c) /\ CountOf(c)
  BY <1>2 DEF WorkInv, CountInv
<1>7. ASSUME NEW d \in Open \ {c}, UserOf(d) = UserOf(c) PROVE tx'[c].mine \cap tx[d].mine = {}
  <2>1. line \notin tx[d].mine
    BY <1>1, <1>2, <1>7 DEF Blocked, WaitsFor, Open
  <2>2. tx[c].mine \cap tx[d].mine = {}
    BY <1>2, <1>7 DEF WorkInv
  <2> QED  BY <1>5, <2>1, <2>2
<1>8. /\ Len(tx[c].todo) \in Nat \ {0} /\ Len(tx'[c].todo) = Len(tx[c].todo) - 1
      /\ tx'[c].todo \in Seq(Fingerprints)
      /\ \A i \in 1 .. Len(tx[c].todo) :
             tx[c].todo[i] = line \/ \E j \in 1 .. Len(tx'[c].todo) : tx'[c].todo[j] = tx[c].todo[i]
  <2> DEFINE s == tx[c].todo
             t == tx'[c].todo
  <2>1. s \in Seq(Fingerprints) /\ s # <<>> /\ line = Head(s) /\ t = Tail(s)
    BY <1>1, <1>3, <1>5
  <2> HIDE DEF s, t, line, Fingerprints
  <2> QED  BY <2>1, TailFacts DEF s, t
<1>9. /\ line = tx[c].todo[1]
      /\ \A j \in 1 .. Len(tx'[c].todo) :
            j + 1 \in 1 .. Len(tx[c].todo) /\ tx'[c].todo[j] = tx[c].todo[j + 1]
  BY <1>1, <1>3, <1>5
<1>10. line \in LinesOf(FileOf(c))
  BY <1>6, <1>8, <1>9 DEF WorkOf
<1> HIDE DEF line
<1>11. CountOf(c)'
  <2>1. IsFiniteSet(tx'[c].mine) /\ tx'[c].imported = Cardinality(tx'[c].mine)
    <3>1. IsFiniteSet(tx[c].mine) /\ tx[c].imported = Cardinality(tx[c].mine)
      BY <1>6 DEF CountOf
    <3>2. CASE fresh
      <4>1. tx'[c].mine = tx[c].mine \cup {line} /\ tx'[c].imported = tx[c].imported + 1
        BY <1>5, <3>2
      <4>2. line \notin tx[c].mine
        BY <3>2
      <4> HIDE DEF fresh
      <4> QED  BY <3>1, <4>1, <4>2, FS_AddElement
    <3>3. CASE ~fresh
      BY <1>3, <1>5, <3>1, <3>3
    <3> QED  BY <3>2, <3>3
  <2>2. tx'[c].imported + tx'[c].duplicate + Len(tx'[c].todo)
          = tx[c].imported + tx[c].duplicate + Len(tx[c].todo)
    <3> HIDE DEF fresh
    <3> DEFINE i == tx[c].imported
               d == tx[c].duplicate
               n == Len(tx[c].todo)
               i1 == tx'[c].imported
               d1 == tx'[c].duplicate
               n1 == Len(tx'[c].todo)
    <3>1. (i1 = i + 1 /\ d1 = d + 0) \/ (i1 = i + 0 /\ d1 = d + 1)
      BY <1>5
    <3>2. i \in Nat /\ d \in Nat /\ n \in Nat \ {0} /\ n1 = n - 1
      BY <1>3, <1>8
    <3> HIDE DEF i, d, n, i1, d1, n1
    <3>3. i1 + d1 + n1 = i + d + n
      BY <3>1, <3>2
    <3> QED  BY <3>3 DEF i, d, n, i1, d1, n1
  <2> QED  BY <1>4, <1>6, <2>1, <2>2 DEF CountOf
<1>12. WorkOf(c)'
  <2>1. tx'[c].mine \subseteq LinesOf(FileOf(c))
    BY <1>5, <1>6, <1>10 DEF WorkOf
  <2>2. \A i \in 1 .. Len(tx'[c].todo) : tx'[c].todo[i] \in LinesOf(FileOf(c))
    BY <1>6, <1>9 DEF WorkOf
  <2>3. \A x \in tx'[c].mine : <<UserOf(c), x>> \notin rows
    BY <1>5, <1>6 DEF WorkOf
  <2>4. ASSUME NEW x \in LinesOf(FileOf(c))
        PROVE  \/ x \in tx'[c].mine \/ <<UserOf(c), x>> \in rows
               \/ \E i \in 1 .. Len(tx'[c].todo) : tx'[c].todo[i] = x
    <3>1. CASE x = line
      BY <1>5, <3>1
    <3>2. CASE x # line
      BY <1>5, <1>6, <1>8, <3>2 DEF WorkOf
    <3> QED  BY <3>1, <3>2
  <2> QED  BY <1>1, <1>4, <2>1, <2>2, <2>3, <2>4 DEF WorkOf
<1> QED  BY <1>1, <1>2, <1>7, <1>11, <1>12

LEMMA CommitWork ==
  ASSUME TypeOK, TakenInv, WorkInv, CountInv,
         NEW c \in Commits, NEW reply \in {"ok", "lost"}, CommitTx(c, reply)
  PROVE  /\ c \in Open /\ Open' = Open \ {c} /\ Registered(c)'
         /\ \A d \in Commits \ {c} : Same(d)
         /\ took' = took /\ issued' = issued
         /\ tx'[c].imported = tx[c].imported /\ tx'[c].duplicate = tx[c].duplicate
         /\ rows' = rows \cup ({UserOf(c)} \X tx[c].mine)
         /\ tx[c].mine \subseteq LinesOf(FileOf(c))
         /\ {UserOf(c)} \X LinesOf(FileOf(c)) \subseteq rows'
         /\ \A line \in tx[c].mine : <<UserOf(c), line>> \notin rows
         /\ IsFiniteSet(tx[c].mine) /\ tx[c].imported = Cardinality(tx[c].mine)
         /\ tx[c].imported + tx[c].duplicate = Len(Lines[FileOf(c)])
<1>1. /\ pc[c] = "importing" /\ tx[c].todo = <<>>
      /\ rows' = rows \cup ({UserOf(c)} \X tx[c].mine)
      /\ pc' = [pc EXCEPT ![c] = IF reply = "ok" THEN "imported" ELSE "unknown"]
      /\ tx' = [tx EXCEPT ![c].mine = {}]
      /\ UNCHANGED <<took, issued>>
  BY DEF CommitTx, Ends
<1>2. c \in Open /\ Open' = Open \ {c} /\ Registered(c)'
  BY <1>1 DEF Open, Registered, TypeOK
<1>3. \A d \in Commits \ {c} : Same(d)
  BY <1>1 DEF Same, TypeOK
<1>4. tx'[c].imported = tx[c].imported /\ tx'[c].duplicate = tx[c].duplicate
      /\ tx[c].imported \in Nat /\ tx[c].duplicate \in Nat
  BY <1>1 DEF TypeOK, Transactions
<1>5. WorkOf(c) /\ CountOf(c)
  BY <1>2 DEF WorkInv, CountInv
<1>6. 1 .. Len(tx[c].todo) = {} /\ Len(tx[c].todo) = 0
  BY <1>1
<1>7. {UserOf(c)} \X LinesOf(FileOf(c)) \subseteq rows'
  BY <1>1, <1>5, <1>6 DEF WorkOf
<1>8. tx[c].imported + tx[c].duplicate = Len(Lines[FileOf(c)])
  BY <1>4, <1>5, <1>6 DEF CountOf
<1> QED  BY <1>1, <1>2, <1>3, <1>4, <1>5, <1>7, <1>8 DEF WorkOf, CountOf

(* The four kinds of steps, seen from the other transactions.              *)
LEMMA NextWork ==
  TypeOK /\ TakenInv /\ WorkInv /\ CountInv /\ [Next]_vars => WorkInv' /\ CountInv'
<1> SUFFICES ASSUME TypeOK, TakenInv, WorkInv, CountInv, [Next]_vars
             PROVE  WorkInv' /\ CountInv'
  OBVIOUS
<1>0. \A d \in Open : d \in Commits /\ WorkOf(d) /\ CountOf(d)
  BY DEF WorkInv, CountInv, Open
<1>1. CASE Quiet
  <2>1. rows' = rows /\ Open' \subseteq Open /\ \A d \in Open' : Same(d)
    BY <1>1 DEF Quiet, Open, Holds, Same
  <2>2. \A d \in Open' : WorkOf(d)' /\ CountOf(d)'
    <3> SUFFICES ASSUME NEW d \in Open' PROVE WorkOf(d)' /\ CountOf(d)'
      OBVIOUS
    <3>1. Same(d) /\ WorkOf(d) /\ CountOf(d)
      BY <1>0, <2>1
    <3> QED  BY <2>1, <3>1, SameWork DEF WorkOf
  <2>3. \A d \in Open' : UserOf(d)' = UserOf(d) /\ tx'[d].mine = tx[d].mine
    BY <2>1, SameFacts DEF Same
  <2> QED  BY <2>1, <2>2, <2>3 DEF WorkInv, CountInv
<1>2. ASSUME NEW c \in Commits, NEW u \in Users, NEW id \in DOMAIN issued, Begin(c, u, id)
      PROVE  WorkInv' /\ CountInv'
  <2>1. /\ c \notin Open /\ Open' = Open \cup {c} /\ rows' = rows
        /\ \A d \in Open : Same(d)
        /\ tx'[c].mine = {} /\ WorkOf(c)' /\ CountOf(c)'
    BY <1>2, <1>0, BeginWork
  <2>2. \A d \in Open' : WorkOf(d)' /\ CountOf(d)'
    <3> SUFFICES ASSUME NEW d \in Open PROVE WorkOf(d)' /\ CountOf(d)'
      BY <2>1
    <3>1. Same(d) /\ WorkOf(d) /\ CountOf(d)
      BY <1>0, <2>1
    <3> QED  BY <2>1, <3>1, SameWork DEF WorkOf
  <2>3. \A d \in Open : UserOf(d)' = UserOf(d) /\ tx'[d].mine = tx[d].mine
    BY <2>1, SameFacts DEF Same
  <2> QED  BY <2>1, <2>2, <2>3 DEF WorkInv, CountInv
<1>3. ASSUME NEW c \in Commits, InsertLine(c) PROVE WorkInv' /\ CountInv'
  <2>1. /\ c \in Open /\ Open' = Open /\ rows' = rows /\ took' = took
        /\ \A d \in Open \ {c} : Same(d)
        /\ \A d \in Open \ {c} : UserOf(d) = UserOf(c) => tx'[c].mine \cap tx[d].mine = {}
        /\ WorkOf(c)' /\ CountOf(c)'
    BY <1>3, <1>0, InsertWork
  <2>2. \A d \in Open' : WorkOf(d)' /\ CountOf(d)'
    <3> SUFFICES ASSUME NEW d \in Open \ {c} PROVE WorkOf(d)' /\ CountOf(d)'
      BY <2>1
    <3>1. Same(d) /\ WorkOf(d) /\ CountOf(d)
      BY <1>0, <2>1
    <3> QED  BY <2>1, <3>1, SameWork DEF WorkOf
  <2>3. \A d \in Open : UserOf(d)' = UserOf(d)
    BY <2>1 DEF UserOf
  <2>4. \A d \in Open \ {c} : tx'[d].mine = tx[d].mine
    BY <2>1 DEF Same
  <2>5. ASSUME NEW d \in Open, NEW e \in Open, d # e, UserOf(d) = UserOf(e)
        PROVE  tx'[d].mine \cap tx'[e].mine = {}
    <3>1. CASE d # c /\ e # c
      BY <2>4, <2>5, <3>1 DEF WorkInv
    <3>2. CASE d = c
      BY <2>1, <2>4, <2>5, <3>2
    <3>3. CASE e = c
      BY <2>1, <2>4, <2>5, <3>3
    <3> QED  BY <3>1, <3>2, <3>3
  <2> QED  BY <2>1, <2>2, <2>3, <2>5 DEF WorkInv, CountInv
<1>4. ASSUME NEW c \in Commits, NEW reply \in {"ok", "lost"}, CommitTx(c, reply)
      PROVE  WorkInv' /\ CountInv'
  <2>1. /\ c \in Open /\ Open' = Open \ {c} /\ took' = took
        /\ \A d \in Open \ {c} : Same(d)
        /\ rows' = rows \cup ({UserOf(c)} \X tx[c].mine)
    BY <1>4, <1>0, CommitWork
  <2>2. \A d \in Open' : WorkOf(d)' /\ CountOf(d)'
    <3> SUFFICES ASSUME NEW d \in Open \ {c} PROVE WorkOf(d)' /\ CountOf(d)'
      BY <2>1
    <3>1. Same(d) /\ WorkOf(d) /\ CountOf(d)
      BY <1>0, <2>1
    <3>2. \A line \in tx[d].mine : <<UserOf(d), line>> \notin rows
      BY <3>1 DEF WorkOf
    <3>3. UserOf(d) = UserOf(c) => tx[d].mine \cap tx[c].mine = {}
      BY <2>1 DEF WorkInv
    <3>4. \A line \in tx[d].mine : <<UserOf(d), line>> \notin rows'
      BY <2>1, <3>2, <3>3
    <3> QED  BY <2>1, <3>1, <3>4, SameWork
  <2>3. \A d \in Open' : UserOf(d)' = UserOf(d) /\ tx'[d].mine = tx[d].mine
    BY <2>1, SameFacts DEF Same
  <2> QED  BY <2>1, <2>2, <2>3 DEF WorkInv, CountInv
<1> QED  BY <1>1, <1>2, <1>3, <1>4, StepKinds

LEMMA NextRows ==
  TypeOK /\ TakenInv /\ WorkInv /\ CountInv /\ RowsInv /\ [Next]_vars => RowsInv'
<1> SUFFICES ASSUME TypeOK, TakenInv, WorkInv, CountInv, RowsInv, [Next]_vars
             PROVE  RowsInv'
  OBVIOUS
<1>1. ASSUME rows' = rows, \A c \in Commits : Registered(c)' <=> Registered(c),
             \A c \in Commits : Registered(c) => UserOf(c)' = UserOf(c) /\ FileOf(c)' = FileOf(c)
      PROVE  RowsInv'
  BY <1>1 DEF RowsInv, LinesOf
<1>2. CASE Quiet
  <2>1. \A c \in Commits : Registered(c)' <=> Registered(c)
    BY <1>2 DEF Quiet, Holds, Registered
  <2>2. \A c \in Commits : Registered(c) => Same(c)
    BY <1>2, <2>1 DEF Quiet, Holds, Same
  <2> QED  BY <1>1, <1>2, <2>1, <2>2, SameFacts DEF Quiet
<1>3. ASSUME NEW c \in Commits, NEW u \in Users, NEW id \in DOMAIN issued, Begin(c, u, id)
      PROVE  RowsInv'
  <2>1. rows' = rows /\ ~Registered(c) /\ ~Registered(c)' /\ \A d \in Commits \ {c} : Same(d)
    BY <1>3, BeginWork DEF Holds
  <2>2. \A d \in Commits \ {c} : Registered(d)' <=> Registered(d)
    BY <2>1 DEF Same, Registered
  <2> QED  BY <1>1, <2>1, <2>2, SameFacts
<1>4. ASSUME NEW c \in Commits, InsertLine(c) PROVE RowsInv'
  BY <1>1, <1>4, InsertWork DEF Registered, UserOf, FileOf
<1>5. ASSUME NEW c \in Commits, NEW reply \in {"ok", "lost"}, CommitTx(c, reply)
      PROVE  RowsInv'
  <2>1. /\ c \in Open /\ Registered(c)'
        /\ \A d \in Commits \ {c} : Same(d)
        /\ took' = took /\ issued' = issued
        /\ rows' = rows \cup ({UserOf(c)} \X tx[c].mine)
        /\ tx[c].mine \subseteq LinesOf(FileOf(c))
        /\ {UserOf(c)} \X LinesOf(FileOf(c)) \subseteq rows'
    BY <1>5, CommitWork
  <2>2. \A d \in Commits : UserOf(d)' = UserOf(d) /\ FileOf(d)' = FileOf(d)
    BY <2>1 DEF UserOf, FileOf
  <2>3. \A d \in Commits \ {c} : Registered(d)' <=> Registered(d)
    BY <2>1 DEF Same, Registered
  <2>4. \A d \in Commits : Registered(d)' => {UserOf(d)} \X LinesOf(FileOf(d)) \subseteq rows'
    BY <2>1, <2>3 DEF RowsInv
  <2>5. ASSUME NEW row \in rows'
        PROVE  \E d \in Commits :
                 Registered(d)' /\ UserOf(d) = row[1] /\ row[2] \in LinesOf(FileOf(d))
    <3>1. CASE row \in rows
      <4>1. PICK d \in Commits :
              Registered(d) /\ UserOf(d) = row[1] /\ row[2] \in LinesOf(FileOf(d))
        BY <3>1 DEF RowsInv
      <4> QED  BY <2>1, <2>3, <4>1
    <3>2. CASE row \in {UserOf(c)} \X tx[c].mine
      BY <2>1, <3>2
    <3> QED  BY <2>1, <3>1, <3>2
  <2> QED  BY <2>2, <2>4, <2>5 DEF RowsInv, LinesOf
<1> QED  BY <1>2, <1>3, <1>4, <1>5, StepKinds

ImportInv == TypeOK /\ TakenInv /\ WorkInv /\ CountInv /\ RowsInv

LEMMA ImportInductive == Spec => []ImportInv
<1>1. Init => ImportInv
  BY InitType, InitTaken, InitWork DEF ImportInv
<1>2. ImportInv /\ [Next]_vars => ImportInv'
  BY NextType, NextTaken, NextWork, NextRows DEF ImportInv
<1> QED  BY <1>1, <1>2, PTL DEF Spec

(* All or nothing: however many files of a user overlap and whichever      *)
(* transactions fail, a committed row comes with its whole file.           *)
THEOREM ImportWholeFiles == Spec => []WholeFiles
<1>1. ImportInv => WholeFiles
  <2> SUFFICES ASSUME ImportInv, NEW row \in rows
               PROVE  \E c \in Commits :
                        /\ Registered(c)
                        /\ issued[took[c][2]].owner = row[1]
                        /\ row[2] \in LinesOf(FileOf(c))
                        /\ {row[1]} \X LinesOf(FileOf(c)) \subseteq rows
    BY DEF WholeFiles, FileOf
  <2>1. PICK c \in Commits :
          Registered(c) /\ UserOf(c) = row[1] /\ row[2] \in LinesOf(FileOf(c))
    BY DEF ImportInv, RowsInv
  <2> QED  BY <2>1 DEF ImportInv, RowsInv, TakenInv, RegisteredOnce, Holds
<1> QED  BY <1>1, ImportInductive, PTL

-----------------------------------------------------------------------------
(* As many pairs as elements.                                              *)
LEMMA PairsCounted ==
  ASSUME NEW x, NEW S, IsFiniteSet(S)
  PROVE  IsFiniteSet({x} \X S) /\ Cardinality({x} \X S) = Cardinality(S)
<1> DEFINE f == [y \in S |-> <<x, y>>]
<1>1. f \in Bijection(S, {x} \X S)
  BY DEF Bijection, Injection, Surjection, IsInjective
<1>2. ExistsBijection(S, {x} \X S)
  BY <1>1 DEF ExistsBijection
<1> QED  BY <1>2, FS_Bijection

LEMMA IntervalCounted ==
  ASSUME NEW n \in Nat
  PROVE  IsFiniteSet(1 .. n) /\ Cardinality(1 .. n) = n
<1>1. 1 \in Int /\ n \in Int
  OBVIOUS
<1>2. IsFiniteSet(1 .. n) /\ Cardinality(1 .. n) = IF 1 > n THEN 0 ELSE n - 1 + 1
  BY <1>1, FS_Interval
<1> QED  BY <1>2

LEMMA ToldFacts ==
  ASSUME NEW u
  PROVE  /\ \A p : p \in Told(u) <=>
               \E c \in Commits : Registered(c) /\ UserOf(c) = u
                                  /\ p \in {c} \X (1 .. tx[c].imported)
         /\ \A p : p \in Told(u)' <=>
               \E c \in Commits : Registered(c)' /\ UserOf(c)' = u
                                  /\ p \in {c} \X (1 .. tx'[c].imported)
  BY Zenon DEF Told

LEMMA NextTold ==
  TypeOK /\ TakenInv /\ WorkInv /\ CountInv /\ ToldInv /\ [Next]_vars => ToldInv'
<1> SUFFICES ASSUME TypeOK, TakenInv, WorkInv, CountInv, ToldInv, [Next]_vars, NEW u \in Users
             PROVE  /\ IsFiniteSet(RowsOf(u)') /\ IsFiniteSet(Told(u)')
                    /\ Cardinality(RowsOf(u)') = Cardinality(Told(u)')
  BY DEF ToldInv
<1>0. /\ IsFiniteSet(RowsOf(u)) /\ IsFiniteSet(Told(u))
      /\ Cardinality(RowsOf(u)) = Cardinality(Told(u))
  BY DEF ToldInv
<1>1. ASSUME rows' = rows, \A c \in Commits : Registered(c)' <=> Registered(c),
             \A c \in Commits : Registered(c) =>
                UserOf(c)' = UserOf(c) /\ tx'[c].imported = tx[c].imported
      PROVE  /\ IsFiniteSet(RowsOf(u)') /\ IsFiniteSet(Told(u)')
             /\ Cardinality(RowsOf(u)') = Cardinality(Told(u)')
  <2>1. RowsOf(u)' = RowsOf(u)
    BY <1>1 DEF RowsOf
  <2>2. \A p : p \in Told(u)' <=> p \in Told(u)
    BY <1>1, ToldFacts
  <2>3. Told(u)' = Told(u)
    BY <2>2
  <2> QED  BY <1>0, <2>1, <2>3
<1>2. CASE Quiet
  <2>1. \A c \in Commits : Registered(c)' <=> Registered(c)
    BY <1>2 DEF Quiet, Holds, Registered
  <2>2. \A c \in Commits : Registered(c) => Same(c)
    BY <1>2, <2>1 DEF Quiet, Holds, Same
  <2>3. \A c \in Commits : Registered(c) =>
           UserOf(c)' = UserOf(c) /\ tx'[c].imported = tx[c].imported
    BY <2>2 DEF Same, UserOf
  <2> QED  BY <1>1, <1>2, <2>1, <2>3 DEF Quiet
<1>3. ASSUME NEW c \in Commits, NEW v \in Users, NEW id \in DOMAIN issued, Begin(c, v, id)
      PROVE  /\ IsFiniteSet(RowsOf(u)') /\ IsFiniteSet(Told(u)')
             /\ Cardinality(RowsOf(u)') = Cardinality(Told(u)')
  <2>1. rows' = rows /\ ~Registered(c) /\ ~Registered(c)' /\ \A d \in Commits \ {c} : Same(d)
    BY <1>3, BeginWork DEF Holds
  <2>2. \A d \in Commits \ {c} : (Registered(d)' <=> Registered(d))
           /\ UserOf(d)' = UserOf(d) /\ tx'[d].imported = tx[d].imported
    BY <2>1 DEF Same, Registered, UserOf
  <2> QED  BY <1>1, <2>1, <2>2
<1>4. ASSUME NEW c \in Commits, InsertLine(c)
      PROVE  /\ IsFiniteSet(RowsOf(u)') /\ IsFiniteSet(Told(u)')
             /\ Cardinality(RowsOf(u)') = Cardinality(Told(u)')
  <2>1. /\ c \in Open /\ rows' = rows /\ took' = took /\ pc' = pc
        /\ \A d \in Commits \ {c} : Same(d)
    BY <1>4, InsertWork
  <2>2. ~Registered(c)
    BY <2>1 DEF Open, Registered
  <2>3. \A d \in Commits : (Registered(d)' <=> Registered(d)) /\ UserOf(d)' = UserOf(d)
    BY <2>1 DEF Registered, UserOf
  <2>4. \A d \in Commits : Registered(d) => tx'[d].imported = tx[d].imported
    BY <2>1, <2>2 DEF Same
  <2> QED  BY <1>1, <2>1, <2>3, <2>4
<1>5. ASSUME NEW c \in Commits, NEW reply \in {"ok", "lost"}, CommitTx(c, reply)
      PROVE  /\ IsFiniteSet(RowsOf(u)') /\ IsFiniteSet(Told(u)')
             /\ Cardinality(RowsOf(u)') = Cardinality(Told(u)')
  <2> DEFINE added == {UserOf(c)} \X tx[c].mine
             told == {c} \X (1 .. tx[c].imported)
  <2>1. /\ c \in Open /\ Registered(c)'
        /\ \A d \in Commits \ {c} : Same(d)
        /\ took' = took
        /\ tx'[c].imported = tx[c].imported
        /\ rows' = rows \cup added
        /\ \A line \in tx[c].mine : <<UserOf(c), line>> \notin rows
        /\ IsFiniteSet(tx[c].mine) /\ tx[c].imported = Cardinality(tx[c].mine)
    BY <1>5, CommitWork
  <2>2. \A d \in Commits \ {c} :
           (Registered(d)' <=> Registered(d)) /\ tx'[d].imported = tx[d].imported
    BY <2>1 DEF Same, Registered
  <2>3. ~Registered(c) /\ \A d \in Commits : UserOf(d)' = UserOf(d)
    BY <2>1 DEF Open, Registered, UserOf
  <2>4. CASE UserOf(c) # u
    <3>1. RowsOf(u)' = RowsOf(u)
      BY <2>1, <2>4 DEF RowsOf
    <3>2. \A p : p \in Told(u)' <=> p \in Told(u)
      BY <2>2, <2>3, <2>4, ToldFacts
    <3>3. Told(u)' = Told(u)
      BY <3>2
    <3> QED  BY <1>0, <3>1, <3>3
  <2>5. CASE UserOf(c) = u
    <3>1. RowsOf(u)' = RowsOf(u) \cup added /\ RowsOf(u) \cap added = {}
      BY <2>1, <2>5 DEF RowsOf
    <3>2. \A p : p \in Told(u)' <=> p \in Told(u) \/ p \in told
      BY <2>1, <2>2, <2>3, <2>5, ToldFacts
    <3>3. Told(u)' = Told(u) \cup told
      BY <3>2
    <3>4. Told(u) \cap told = {}
      BY <2>3, ToldFacts
    <3>5. IsFiniteSet(added) /\ Cardinality(added) = tx[c].imported
      BY <2>1, PairsCounted
    <3>6. tx[c].imported \in Nat
      BY <2>1, FS_CardinalityType
    <3>7. IsFiniteSet(1 .. tx[c].imported) /\ Cardinality(1 .. tx[c].imported) = tx[c].imported
      BY <3>6, IntervalCounted
    <3>8. IsFiniteSet(told) /\ Cardinality(told) = tx[c].imported
      BY <3>7, PairsCounted
    <3> HIDE DEF added, told
    <3>9. /\ IsFiniteSet(RowsOf(u) \cup added) /\ IsFiniteSet(Told(u) \cup told)
          /\ Cardinality(RowsOf(u) \cup added) = Cardinality(RowsOf(u)) + Cardinality(added) - 0
          /\ Cardinality(Told(u) \cup told) = Cardinality(Told(u)) + Cardinality(told) - 0
      BY <1>0, <3>1, <3>4, <3>5, <3>8, FS_Union, FS_EmptySet
    <3> QED  BY <1>0, <3>1, <3>3, <3>5, <3>8, <3>9
  <2> QED  BY <2>4, <2>5
<1> QED  BY <1>2, <1>3, <1>4, <1>5, StepKinds

LEMMA InitTold == Init => ToldInv
<1> SUFFICES ASSUME Init, NEW u \in Users
             PROVE  RowsOf(u) = {} /\ Told(u) = {}
  BY FS_EmptySet DEF ToldInv
<1>1. \A c \in Commits : ~Registered(c)
  BY DEF Init, Registered
<1> QED  BY <1>1, ToldFacts DEF Init, RowsOf

(* The imported counts told to a user add up to the rows of that user, for *)
(* any number of files with any lines in common, registered side by side.  *)
THEOREM ImportCountsExact == Spec => []CountsExact
<1>1. Init => ToldInv
  BY InitTold
<1>2. ImportInv /\ ToldInv /\ [Next]_vars => ToldInv'
  BY NextTold DEF ImportInv
<1>3. ToldInv => CountsExact
  BY DEF ToldInv, CountsExact, RowsOf
<1> QED  BY <1>1, <1>2, <1>3, ImportInductive, PTL DEF Spec

-----------------------------------------------------------------------------
(* The refinement.                                                         *)
CountsOf(c) == [imported |-> tx[c].imported, duplicate |-> tx[c].duplicate]

LEMMA AtomicCardinality == \A S : Atomic!Cardinality(S) = Cardinality(S)
  BY Zenon DEF Atomic!Cardinality, Cardinality, Atomic!IsFiniteSet, IsFiniteSet

(* The answer of a preview is the one of the commit that registered it.    *)
LEMMA CommitFacts ==
  ASSUME RegisteredOnce, NEW c \in Commits, Registered(c)
  PROVE  CommitOf(took[c][2]) = c
<1>1. \A d \in Commits : Registered(d) /\ took[d][2] = took[c][2] <=> d = c
  BY DEF RegisteredOnce, Holds
<1> QED  BY <1>1 DEF CommitOf

LEMMA CommitFactsNext ==
  ASSUME RegisteredOnce', NEW c \in Commits, Registered(c)'
  PROVE  CommitOf(took[c][2])' = c
<1>1. \A d \in Commits : Registered(d)' /\ took'[d][2] = took'[c][2] <=> d = c
  BY DEF RegisteredOnce, Holds
<1> QED  BY <1>1 DEF CommitOf

LEMMA AnswersFacts ==
  ASSUME RegisteredOnce
  PROVE  /\ Answers = [id \in DOMAIN Answers |-> Answers[id]]
         /\ \A id : id \in DOMAIN Answers <=>
               \E c \in Commits : Registered(c) /\ took[c][2] = id
         /\ \A c \in Commits : Registered(c) => Answers[took[c][2]] = CountsOf(c)
  BY CommitFacts DEF Answers, CountsOf

LEMMA AnswersFactsNext ==
  ASSUME RegisteredOnce'
  PROVE  /\ Answers' = [id \in DOMAIN Answers' |-> Answers'[id]]
         /\ \A id : id \in DOMAIN Answers' <=>
               \E c \in Commits : Registered(c)' /\ took'[c][2] = id
         /\ \A c \in Commits : Registered(c)' => Answers'[took'[c][2]] = CountsOf(c)'
  BY CommitFactsNext DEF Answers, CountsOf

(* The answers stay when no commit is registered and the registered ones   *)
(* keep what they took and counted.                                        *)
LEMMA AnswersKept ==
  ASSUME RegisteredOnce, RegisteredOnce',
         \A c \in Commits : Registered(c)' <=> Registered(c),
         \A c \in Commits : Registered(c) => took'[c] = took[c] /\ tx'[c] = tx[c]
  PROVE  Answers' = Answers
<1>1. \A id : id \in DOMAIN Answers' <=> id \in DOMAIN Answers
  BY AnswersFacts, AnswersFactsNext
<1>2. DOMAIN Answers' = DOMAIN Answers
  BY <1>1
<1>3. \A c \in Commits : Registered(c) => CountsOf(c)' = CountsOf(c)
  BY DEF CountsOf
<1>4. ASSUME NEW id \in DOMAIN Answers PROVE Answers'[id] = Answers[id]
  <2>1. PICK c \in Commits : Registered(c) /\ took[c][2] = id
    BY AnswersFacts
  <2> QED  BY <1>3, <2>1, AnswersFacts, AnswersFactsNext
<1> QED  BY <1>2, <1>4, AnswersFacts, AnswersFactsNext

LEMMA InitAtomic == Init => Atomic!Init
<1> SUFFICES ASSUME Init PROVE Atomic!Init
  OBVIOUS
<1>1. \A c \in Commits : ~Registered(c)
  BY DEF Init, Registered
<1>2. {took[c][2] : c \in {d \in Commits : Registered(d)}} = {}
  BY <1>1
<1>3. Answers = <<>>
  <2>1. Answers = [id \in {} |-> [imported  |-> tx[CommitOf(id)].imported,
                                  duplicate |-> tx[CommitOf(id)].duplicate]]
    BY <1>2, Zenon DEF Answers
  <2> QED  BY <2>1
<1>4. [id \in DOMAIN issued |-> [owner |-> issued[id].owner, file |-> issued[id].file]] = <<>>
  BY DEF Init
<1> QED  BY <1>3, <1>4 DEF Init, Atomic!Init

LEMMA RegisterStep ==
  ASSUME ImportInv, ImportInv', NEW c \in Commits, NEW reply \in {"ok", "lost"}, CommitTx(c, reply)
  PROVE  took[c][2] \in PreviewIds /\ Atomic!Register(took[c][2])
<1> DEFINE id == took[c][2]
           u == UserOf(c)
           f == FileOf(c)
           new == {u} \X tx[c].mine
<1> USE DEF ImportInv
<1>1. /\ c \in Open /\ Registered(c)'
      /\ \A d \in Commits \ {c} : Same(d)
      /\ took' = took /\ issued' = issued
      /\ tx'[c].imported = tx[c].imported /\ tx'[c].duplicate = tx[c].duplicate
      /\ rows' = rows \cup new
      /\ tx[c].mine \subseteq LinesOf(f)
      /\ {u} \X LinesOf(f) \subseteq rows'
      /\ \A line \in tx[c].mine : <<u, line>> \notin rows
      /\ IsFiniteSet(tx[c].mine) /\ tx[c].imported = Cardinality(tx[c].mine)
      /\ tx[c].imported + tx[c].duplicate = Len(Lines[f])
  BY CommitWork
<1>2. Holds(c) /\ ~Registered(c)
  BY <1>1 DEF Open, Holds, Registered
<1>3. id \in DOMAIN issued /\ issued[id].owner = u /\ id \in PreviewIds /\ f \in Files
  BY <1>2, FileFacts DEF TakenInv, RegisteredOnce, TypeOK
<1>4. f = issued[id].file
  BY DEF FileOf
<1>5. Atomic!RowsOfFile(u, f) = {u} \X LinesOf(f)
  BY DEF Atomic!RowsOfFile, LinesOf
<1>6. Atomic!RowsOfFile(u, f) \ rows = new /\ rows' = rows \cup Atomic!RowsOfFile(u, f)
  BY <1>1, <1>5
<1>7. Cardinality(new) = tx[c].imported
  BY <1>1, PairsCounted
<1>8. Len(Lines[f]) - tx[c].imported = tx[c].duplicate
  BY <1>1 DEF TypeOK, Transactions
<1>9. Atomic!Answer(u, f) = CountsOf(c)
  BY <1>6, <1>7, <1>8, AtomicCardinality DEF Atomic!Answer, CountsOf
<1>10. RegisteredOnce /\ RegisteredOnce'
  BY DEF TakenInv
<1>11. id \notin DOMAIN Answers
  BY <1>2, <1>10, AnswersFacts DEF RegisteredOnce, Holds
<1>12. \A d \in Commits : d # c =>
          (Registered(d)' <=> Registered(d)) /\ CountsOf(d)' = CountsOf(d)
  BY <1>1 DEF Same, Registered, CountsOf
<1>13. DOMAIN Answers' = DOMAIN Answers \cup {id}
  <2>1. \A x : x \in DOMAIN Answers' <=> x \in DOMAIN Answers \/ x = id
    BY <1>1, <1>10, <1>12, AnswersFacts, AnswersFactsNext
  <2> QED  BY <2>1
<1>14. Answers'[id] = CountsOf(c)
  BY <1>1, <1>10, AnswersFactsNext DEF CountsOf
<1>15. ASSUME NEW x \in DOMAIN Answers PROVE Answers'[x] = Answers[x]
  <2>1. PICK d \in Commits : Registered(d) /\ took[d][2] = x
    BY <1>10, AnswersFacts
  <2> QED  BY <1>1, <1>2, <1>10, <1>12, <2>1, AnswersFacts, AnswersFactsNext
<1>16. Answers' = [x \in DOMAIN Answers \cup {id} |-> IF x = id THEN CountsOf(c) ELSE Answers[x]]
  BY <1>10, <1>11, <1>13, <1>14, <1>15, AnswersFactsNext
<1> HIDE DEF ImportInv
<1> QED  BY <1>1, <1>3, <1>4, <1>6, <1>9, <1>11, <1>16 DEF Atomic!Register

LEMMA NextAtomic == ImportInv /\ ImportInv' /\ [Next]_vars => [Atomic!Next]_(Atomic!vars)
<1> SUFFICES ASSUME ImportInv, ImportInv', [Next]_vars PROVE [Atomic!Next]_(Atomic!vars)
  OBVIOUS
<1>0. TypeOK /\ TakenInv /\ RegisteredOnce /\ RegisteredOnce'
  BY DEF ImportInv, TakenInv
<1> USE DEF Atomic!vars
<1>1. ASSUME NEW u \in Users, NEW f \in Files, NEW id \in PreviewIds, PreviewImport(u, f, id)
      PROVE  Atomic!Issue(id, u, f)
  <2>1. /\ id \notin DOMAIN issued /\ UNCHANGED <<rows, pc, took, tx>>
        /\ issued' = With(issued, id, [owner |-> u, file |-> f, expiresAt |-> clock + TTL])
    BY <1>1 DEF PreviewImport
  <2>2. Answers' = Answers
    BY <1>0, <2>1, AnswersKept DEF Registered
  <2> QED  BY <2>1, <2>2 DEF Atomic!Issue, With
<1>2. ASSUME issued' = issued, rows' = rows,
             \A c \in Commits : Registered(c)' <=> Registered(c),
             \A c \in Commits : Registered(c) => took'[c] = took[c] /\ tx'[c] = tx[c]
      PROVE  UNCHANGED Atomic!vars
  BY <1>0, <1>2, AnswersKept
<1>3. CASE Quiet /\ issued' = issued
  <2>1. \A c \in Commits : Registered(c)' <=> Registered(c)
    BY <1>3 DEF Quiet, Holds, Registered
  <2>2. \A c \in Commits : Registered(c) => took'[c] = took[c] /\ tx'[c] = tx[c]
    BY <1>3, <2>1 DEF Quiet, Holds
  <2> QED  BY <1>2, <1>3, <2>1, <2>2 DEF Quiet
<1>4. ASSUME NEW c \in Commits, NEW u \in Users, NEW id \in DOMAIN issued, Begin(c, u, id)
      PROVE  UNCHANGED Atomic!vars
  <2>1. rows' = rows /\ ~Registered(c) /\ ~Registered(c)' /\ \A d \in Commits \ {c} : Same(d)
    BY <1>0, <1>4, BeginWork DEF Holds
  <2>2. issued' = issued
    BY <1>4 DEF Begin, CommitImport
  <2> QED  BY <1>2, <2>1, <2>2 DEF Same, Registered
<1>5. ASSUME NEW c \in Commits, InsertLine(c) PROVE UNCHANGED Atomic!vars
  <2>1. ~Registered(c) /\ UNCHANGED <<rows, took, pc, issued>>
        /\ \A d \in Commits \ {c} : tx'[d] = tx[d]
    BY <1>0, <1>5 DEF InsertLine, Registered, TypeOK
  <2> QED  BY <1>2, <2>1 DEF Registered
<1>6. ASSUME NEW c \in Commits, NEW reply \in {"ok", "lost"}, CommitTx(c, reply)
      PROVE  Atomic!Next
  BY <1>6, RegisterStep DEF Atomic!Next
<1>7. CASE issued' = issued
  BY <1>0, <1>3, <1>4, <1>5, <1>6, <1>7, StepKinds, Zenon
<1>8. ASSUME NEW u \in Users, NEW f \in Files, NEW id \in PreviewIds, PreviewImport(u, f, id)
      PROVE  Atomic!Next
  BY <1>1, <1>8 DEF Atomic!Next
<1> QED  BY <1>0, <1>7, <1>8, CacheSteps

(* However the requests, their inserts, failures and restarts interleave,  *)
(* each registered preview behaves as one step that adds the missing lines *)
(* and answers how many they were.                                         *)
THEOREM ImportIsAtomic == Spec => ImplementsAtomicImport
<1>1. ImportInv /\ ImportInv' /\ [Next]_vars => [Atomic!Next]_(Atomic!vars)
  BY NextAtomic
<1> QED  BY <1>1, InitAtomic, ImportInductive, PTL DEF Spec, ImplementsAtomicImport, Atomic!Spec

=============================================================================
