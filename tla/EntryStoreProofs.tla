--------------------------- MODULE EntryStoreProofs ---------------------------
(***************************************************************************)
(* Proofs about EntryFormat and EntryStore, for any keys, writers, readers *)
(* and entries.                                                            *)
(*                                                                         *)
(* The format: a complete entry is read back as it was packed, and a file  *)
(* without its length is never taken for one.                              *)
(*                                                                         *)
(* Readers: a reader returns one whole publication of the key it was       *)
(* called for, and misses only what was not there or not complete,         *)
(* whatever is published, replaced, evicted or cut short meanwhile.        *)
(*                                                                         *)
(* Scans: while entries are published and replaced under a scan, whose     *)
(* total is then no longer that of the files, an entry goes only if the    *)
(* files exceed the bound or were added to during the scan, the oldest     *)
(* goes first, and what is left when no scan is to come obeys the bound.   *)
(***************************************************************************)
EXTENDS EntryStore, FiniteSums, SequenceTheorems

-------------------------------------------------------------------------------
(* The format.                                                             *)

\* u32::from_be_bytes undoes u32::to_be_bytes for every length there may be.
LEMMA BeRoundTrip ==
  ASSUME NEW n \in Nat, n <= MaxMetaLen
  PROVE  ToBe(n) \in Seq(Byte) /\ Len(ToBe(n)) = 4 /\ FromBe(ToBe(n)) = n
<1>1. n < 16777216
  BY SMT DEF MaxMetaLen
<1>2. /\ (n \div 16777216) % 256 \in Byte /\ (n \div 65536) % 256 \in Byte
      /\ (n \div 256) % 256 \in Byte /\ n % 256 \in Byte
  BY <1>1, SMT DEF Byte
<1>3. 16777216 * ((n \div 16777216) % 256) + 65536 * ((n \div 65536) % 256)
        + 256 * ((n \div 256) % 256) + (n % 256) = n
  BY <1>1, SMT
<1>4. QED
  BY <1>2, <1>3, SMT DEF ToBe, FromBe

\* A fact about intervals, apart from any numerals.
LEMMA InInterval ==
  ASSUME NEW low \in Nat, NEW high \in Nat, NEW x \in low .. high
  PROVE  x \in Nat /\ x >= low
  OBVIOUS

\* Four bytes of text, read as a length, are beyond every length there may be.
LEMMA TextIsNoLength ==
  ASSUME NEW f, \A i \in 1 .. 4 : f[i] \in Nat /\ f[i] >= 32
  PROVE  FromBe(f) > MaxMetaLen
  BY SMT DEF FromBe, MaxMetaLen

\* Where the parts of a concatenation stand.
LEMMA Parts ==
  ASSUME NEW S, NEW s \in Seq(S), NEW t \in Seq(S)
  PROVE  /\ s \o t \in Seq(S) /\ Len(s) \in Nat /\ Len(t) \in Nat
         /\ Len(s \o t) = Len(s) + Len(t)
         /\ \A i \in 1 .. Len(s) : (s \o t)[i] = s[i]
         /\ \A i \in 1 .. Len(t) : (s \o t)[Len(s) + i] = t[i]
<1>1. Len(s) \in Nat /\ Len(t) \in Nat
  BY LenProperties
<1>2. s \o t \in Seq(S) /\ Len(s \o t) = Len(s) + Len(t)
  BY ConcatProperties
<1>3. ASSUME NEW i \in 1 .. Len(s) PROVE (s \o t)[i] = s[i]
  <2>1. i \in 1 .. Len(s) + Len(t) /\ i <= Len(s)
    BY <1>1
  <2>2. QED
    BY <2>1, ConcatProperties
<1>4. ASSUME NEW i \in 1 .. Len(t) PROVE (s \o t)[Len(s) + i] = t[i]
  <2>1. /\ Len(s) + i \in 1 .. Len(s) + Len(t) /\ ~(Len(s) + i <= Len(s))
        /\ Len(s) + i - Len(s) = i
    BY <1>1
  <2>2. QED
    BY <2>1, ConcatProperties
<1>5. QED
  BY <1>1, <1>2, <1>3, <1>4

\* Lengths, and where body and metadata stand.
LEMMA Layout ==
  ASSUME NEW b \in Seq(Byte), NEW m \in Metas
  PROVE  /\ m \in Seq(Byte) /\ Len(b) \in Nat /\ Len(m) \in Nat
         /\ 4 <= Len(m) /\ Len(m) <= MaxMetaLen
         /\ Unfinished(b, m) \in Seq(Byte) /\ Len(Unfinished(b, m)) = Len(b) + Len(m)
         /\ \A i \in 1 .. Len(b) : Unfinished(b, m)[i] = b[i]
         /\ \A i \in 1 .. Len(m) : Unfinished(b, m)[Len(b) + i] = m[i]
<1>1. m \in Seq(Byte) /\ Len(m) \in Nat /\ 4 <= Len(m) /\ Len(m) <= MaxMetaLen
  BY MetasAssumption, LenProperties DEF FooterLen
<1>2. QED
  BY <1>1, Parts DEF Unfinished

\* The complete entry is the unfinished one and four bytes.
LEMMA PackLayout ==
  ASSUME NEW b \in Seq(Byte), NEW m \in Metas
  PROVE  /\ Pack(b, m) \in Seq(Byte) /\ Len(Pack(b, m)) = Len(Unfinished(b, m)) + 4
         /\ \A i \in 1 .. Len(Unfinished(b, m)) : Pack(b, m)[i] = Unfinished(b, m)[i]
         /\ \A i \in 1 .. 4 : Pack(b, m)[Len(Unfinished(b, m)) + i] = ToBe(Len(m))[i]
<1> DEFINE u == Unfinished(b, m)
           t == ToBe(Len(m))
<1>1. u \in Seq(Byte)
  BY Layout
<1>2. t \in Seq(Byte)
  BY Layout, BeRoundTrip
<1>3. Pack(b, m) = u \o t /\ Len(t) = 4
  BY Layout, BeRoundTrip DEF Pack
<1> HIDE DEF u, t
<1>4. /\ u \o t \in Seq(Byte) /\ Len(u \o t) = Len(u) + Len(t)
      /\ \A i \in 1 .. Len(u) : (u \o t)[i] = u[i]
      /\ \A i \in 1 .. Len(t) : (u \o t)[Len(u) + i] = t[i]
  BY <1>1, <1>2, Parts
<1>5. /\ Len(u \o t) = Len(u) + 4
      /\ \A i \in 1 .. 4 : (u \o t)[Len(u) + i] = t[i]
  BY <1>3, <1>4, Zenon
<1>6. QED
  BY <1>3, <1>4, <1>5 DEF u, t

\* Either file begins with the unfinished entry.
LEMMA Beginning ==
  ASSUME NEW b \in Seq(Byte), NEW m \in Metas, NEW f \in {Unfinished(b, m), Pack(b, m)}
  PROVE  /\ f \in Seq(Byte) /\ Len(Unfinished(b, m)) <= Len(f)
         /\ \A i \in 1 .. Len(Unfinished(b, m)) : f[i] = Unfinished(b, m)[i]
<1> DEFINE u == Unfinished(b, m)
           p == Pack(b, m)
<1>1. u \in Seq(Byte) /\ Len(u) \in Nat
  BY Layout
<1>2. p \in Seq(Byte) /\ Len(p) = Len(u) + 4 /\ \A i \in 1 .. Len(u) : p[i] = u[i]
  BY PackLayout, Zenon
<1>3. f \in {u, p}
  OBVIOUS
<1> HIDE DEF u, p
<1>4. f \in Seq(Byte) /\ Len(u) <= Len(f) /\ \A i \in 1 .. Len(u) : f[i] = u[i]
  BY <1>1, <1>2, <1>3
<1>5. QED
  BY <1>4 DEF u

\* What a part of a file is made of.
LEMMA Slice ==
  ASSUME NEW f \in Seq(Byte), NEW from \in Nat, NEW n \in Nat, from + n <= Len(f)
  PROVE  /\ SubSeq(f, from + 1, from + n) \in Seq(Byte)
         /\ Len(SubSeq(f, from + 1, from + n)) = n
         /\ \A i \in 1 .. n : SubSeq(f, from + 1, from + n)[i] = f[from + i]
<1>1. Len(f) \in Nat /\ \A i \in 1 .. Len(f) : f[i] \in Byte
  BY LenProperties, ElementOfSeq
<1>2. \A i \in from + 1 .. from + n : i \in 1 .. Len(f)
  BY <1>1
<1>3. from + 1 \in Int /\ from + n \in Int
  OBVIOUS
<1>4. /\ SubSeq(f, from + 1, from + n) \in Seq(Byte)
      /\ Len(SubSeq(f, from + 1, from + n))
            = IF from + 1 <= from + n THEN from + n - (from + 1) + 1 ELSE 0
      /\ \A i \in 1 .. from + n - (from + 1) + 1 :
            SubSeq(f, from + 1, from + n)[i] = f[from + 1 + i - 1]
  BY <1>1, <1>2, <1>3, SubSeqProperties
<1>5. from + n - (from + 1) + 1 = n /\ (from + 1 <= from + n <=> n # 0)
  OBVIOUS
<1>6. \A i \in 1 .. n : from + 1 + i - 1 = from + i
  OBVIOUS
<1>7. QED
  BY <1>4, <1>5, <1>6

\* read_footer on a complete entry gives back its metadata and its body's length.
THEOREM PackedIsRead ==
  ASSUME NEW b \in Seq(Byte), NEW m \in Metas
  PROVE  ReadFooter(Pack(b, m), Len(Pack(b, m))) = [meta |-> m, bodyLen |-> Len(b)]
<1> DEFINE f == Pack(b, m)
           u == Unfinished(b, m)
           last == SubSeq(f, Len(u) + 1, Len(u) + 4)
           text == SubSeq(f, Len(b) + 1, Len(b) + Len(m))
<1>1. /\ m \in Seq(Byte) /\ Len(b) \in Nat /\ Len(m) \in Nat /\ Len(m) <= MaxMetaLen
      /\ Len(u) = Len(b) + Len(m)
      /\ \A i \in 1 .. Len(m) : u[Len(b) + i] = m[i]
  BY Layout
<1>2. /\ f \in Seq(Byte) /\ Len(f) = Len(u) + 4
      /\ \A i \in 1 .. Len(u) : f[i] = u[i]
      /\ \A i \in 1 .. 4 : f[Len(u) + i] = ToBe(Len(m))[i]
  BY PackLayout
<1> HIDE DEF f, u
<1>3. FromBe(last) = Len(m)
  <2>1. \A i \in 1 .. 4 : last[i] = f[Len(u) + i]
    BY <1>1, <1>2, Slice
  <2> HIDE DEF last
  <2>2. \A i \in 1 .. 4 : last[i] = ToBe(Len(m))[i]
    BY <2>1, <1>2
  <2>3. FromBe(last) = FromBe(ToBe(Len(m)))
    BY <2>2, SMT DEF FromBe
  <2>4. QED
    BY <2>3, <1>1, BeRoundTrip
<1>4. text = m
  <2>1. /\ text \in Seq(Byte) /\ Len(text) = Len(m)
        /\ \A i \in 1 .. Len(m) : text[i] = f[Len(b) + i]
    BY <1>1, <1>2, Slice
  <2>2. \A i \in 1 .. Len(m) : Len(b) + i \in 1 .. Len(u)
    BY <1>1
  <2>3. \A i \in 1 .. Len(m) : f[Len(b) + i] = m[i]
    BY <1>1, <1>2, <2>2
  <2> HIDE DEF text
  <2>4. QED
    BY <1>1, <2>1, <2>3, SeqEqual
<1>5. /\ Len(f) - FooterLen + 1 = Len(u) + 1 /\ ~(Len(f) < FooterLen)
      /\ ~(Len(m) > Len(f) - FooterLen) /\ Len(f) - FooterLen - Len(m) = Len(b)
  BY <1>1, <1>2 DEF FooterLen
<1>6. ~(Len(m) > MaxMetaLen)
  BY <1>1, SMT DEF MaxMetaLen
<1>7. SubSeq(f, Len(f) - FooterLen + 1, Len(f)) = last
  BY <1>2, <1>5
<1>8. ReadFooter(f, Len(f)) = [meta |-> m, bodyLen |-> Len(b)]
  <2> HIDE DEF last
  <2>1. QED
    BY <1>3, <1>4, <1>5, <1>6, <1>7 DEF ReadFooter, BodyLen
<1>9. QED
  BY <1>8 DEF f

\* A file that had no length yet when its size was asked for is not taken for an
\* entry, also when the length has landed since.
THEOREM UnfinishedIsInvalid ==
  ASSUME NEW b \in Seq(Byte), NEW m \in Metas, NEW f \in {Unfinished(b, m), Pack(b, m)}
  PROVE  ReadFooter(f, Len(Unfinished(b, m))) = Invalid
<1> DEFINE u == Unfinished(b, m)
           from == Len(u) - 4
           last == SubSeq(f, from + 1, from + 4)
<1>1. /\ Len(b) \in Nat /\ Len(m) \in Nat /\ Len(m) >= 4
      /\ u \in Seq(Byte) /\ Len(u) = Len(b) + Len(m)
      /\ \A i \in 1 .. Len(m) : u[Len(b) + i] = m[i]
  BY Layout
<1>2. f \in Seq(Byte) /\ Len(u) <= Len(f) /\ \A i \in 1 .. Len(u) : f[i] = u[i]
  BY Beginning, Zenon
<1> HIDE DEF u
<1>3. from \in Nat /\ from + 4 = Len(u)
  BY <1>1
<1>4. \A i \in 1 .. 4 : last[i] = f[from + i]
  BY <1>2, <1>3, <1>1, Slice
<1>5. ASSUME NEW i \in 1 .. 4 PROVE last[i] \in Nat /\ last[i] >= 32
  <2> DEFINE j == Len(m) - 4 + i
  <2>1. from + i \in 1 .. Len(u) /\ j \in 1 .. Len(m) /\ Len(b) + j = from + i
    BY <1>1
  <2>2. j \in Len(m) - 3 .. Len(m)
    BY <1>1
  <2> HIDE DEF j, from, last
  <2>3. m[j] \in 32 .. 126
    BY <2>2, MetasAssumption
  <2>4. last[i] = m[j]
    BY <1>1, <1>2, <1>4, <2>1
  <2>5. m[j] \in Nat /\ m[j] >= 32
    BY <2>3, InInterval
  <2>6. QED
    BY <2>4, <2>5
<1>6. SubSeq(f, Len(u) - FooterLen + 1, Len(u)) = last /\ ~(Len(u) < FooterLen)
  BY <1>1, <1>3 DEF FooterLen
<1> HIDE DEF last
<1>7. FromBe(last) > MaxMetaLen
  BY <1>5, TextIsNoLength
<1>8. ReadFooter(f, Len(u)) = Invalid
  BY <1>6, <1>7 DEF ReadFooter
<1>9. QED
  BY <1>8 DEF u

\* The body of an entry, complete or not, is its beginning.
LEMMA BodyIsPrefix ==
  ASSUME NEW b \in Seq(Byte), NEW m \in Metas, NEW f \in {Unfinished(b, m), Pack(b, m)}
  PROVE  SubSeq(f, 1, Len(b)) = b
<1> DEFINE u == Unfinished(b, m)
<1>1. /\ Len(b) \in Nat /\ Len(m) \in Nat /\ u \in Seq(Byte) /\ Len(u) = Len(b) + Len(m)
      /\ \A i \in 1 .. Len(b) : u[i] = b[i]
  BY Layout
<1>2. f \in Seq(Byte) /\ Len(u) <= Len(f) /\ \A i \in 1 .. Len(u) : f[i] = u[i]
  BY Beginning, Zenon
<1> HIDE DEF u
<1>3. \A i \in 1 .. Len(b) : i \in 1 .. Len(u)
  BY <1>1
<1>4. \A i \in 1 .. Len(b) : f[i] = b[i]
  BY <1>1, <1>2, <1>3
<1>5. /\ SubSeq(f, 0 + 1, 0 + Len(b)) \in Seq(Byte)
      /\ Len(SubSeq(f, 0 + 1, 0 + Len(b))) = Len(b)
      /\ \A i \in 1 .. Len(b) : SubSeq(f, 0 + 1, 0 + Len(b))[i] = f[0 + i]
  <2>1. 0 + Len(b) <= Len(f)
    BY <1>1, <1>2, LenProperties
  <2>2. QED
    BY <1>1, <1>2, <2>1, Slice
<1>6. 0 + 1 = 1 /\ 0 + Len(b) = Len(b) /\ \A i \in 1 .. Len(b) : 0 + i = i
  BY <1>1
<1>7. QED
  BY <1>4, <1>5, <1>6, SeqEqual

-------------------------------------------------------------------------------
(* Readers.                                                                *)

\* What writer w publishes, before and after its last write.
Partial(w) == Unfinished(Body[w], Meta[w])
Whole(w) == Pack(Body[w], Meta[w])

\* What its footer says, and what a reader returns of it.
Announced(w) == [meta |-> Meta[w], bodyLen |-> Len(Body[w])]
Entry(w) == [meta |-> Meta[w], body |-> Body[w]]

\* The last write of w is not waited for, and has not been seen to be there.
MayLackLength(w) == Kind[w] = "artifact" /\ w \notin Old \ Torn

Types ==
    /\ disk \in [Keys -> Writers \cup {None}]
    /\ file \in [Writers -> Seq(Byte)]
    /\ late \subseteq Writers
    /\ pc \in [Writers -> {"idle", "rename", "pinned", "lock", "renaming", "scan", "done", "cut"}]
    /\ reader \in [Readers -> {"idle", "size", "footer", "body", "hit", "missing"}]
    /\ handle \in [Readers -> Writers \cup {None}]
    /\ asked \in [Readers -> Keys \cup {None}]
    /\ seen = [r \in Readers |-> seen[r]]

\* A file that was begun is in one of two states, and complete where its writer
\* waits for the last write.
FilesInv ==
    \A w \in Writers :
        /\ pc[w] = "idle" => w \notin Old \cup late
        /\ pc[w] # "idle" => file[w] \in {Partial(w), Whole(w)}
        /\ pc[w] # "idle" /\ file[w] = Partial(w) => MayLackLength(w)
        /\ w \in late => file[w] = Partial(w)

\* What stands at a path was written for its key.
DiskInv == \A k \in Keys : disk[k] # None => KeyOf[disk[k]] = k /\ pc[disk[k]] # "idle"

\* A store holds the lock only while it scans.
LockInv == \A w \in Writers : lock = w => pc[w] = "scan"

\* What a reader knows of the file it has open stays true of it.
ReadInv ==
    \A r \in Readers :
        /\ reader[r] \in {"size", "footer", "body", "hit"} => handle[r] # None
        /\ handle[r] # None =>
              /\ KeyOf[handle[r]] = asked[r] /\ pc[handle[r]] # "idle"
              /\ reader[r] = "footer" =>
                    \/ seen[r] = Len(Partial(handle[r])) /\ MayLackLength(handle[r])
                    \/ seen[r] = Len(Whole(handle[r])) /\ file[handle[r]] = Whole(handle[r])
              /\ reader[r] = "body" => seen[r] = Announced(handle[r])
              /\ reader[r] = "hit" => seen[r] = Entry(handle[r])
              /\ reader[r] = "missing" =>
                    seen[r] = Len(Partial(handle[r])) /\ MayLackLength(handle[r])

IInv == Types /\ FilesInv /\ DiskInv /\ LockInv /\ ReadInv

\* All that the invariant is about.
core == <<disk, file, late, pc, lock, readVars>>

USE DEF Goto, fileVars, scanVars, readVars

-------------------------------------------------------------------------------
\* Commit_artifact's last write makes the whole of the part, and they differ.
LEMMA WriterFacts ==
  ASSUME NEW w \in Writers
  PROVE  /\ Body[w] \in Seq(Byte) /\ Meta[w] \in Metas
         /\ Partial(w) \in Seq(Byte) /\ Whole(w) \in Seq(Byte)
         /\ Whole(w) = Partial(w) \o ToBe(Len(Meta[w]))
         /\ Partial(w) # Whole(w) /\ Len(Partial(w)) # Len(Whole(w))
<1>1. Body[w] \in Seq(Byte) /\ Meta[w] \in Metas
  BY ConstantsAssumption
<1>2. Partial(w) \in Seq(Byte) /\ Len(Partial(w)) \in Nat
  BY <1>1, Layout DEF Partial
<1>3. Whole(w) \in Seq(Byte) /\ Len(Whole(w)) = Len(Partial(w)) + 4
  BY <1>1, PackLayout DEF Partial, Whole
<1>4. Len(Partial(w)) # Len(Whole(w))
  BY <1>2, <1>3
<1>5. QED
  BY <1>1, <1>2, <1>3, <1>4 DEF Partial, Whole, Pack

LEMMA InitIInv == Init => IInv
<1> SUFFICES ASSUME Init PROVE IInv
  OBVIOUS
<1> USE ConstantsAssumption
<1>1. \A w \in Writers : file[w] = CASE w \in Torn -> Partial(w)
                                     [] w \in Old \ Torn -> Whole(w)
                                     [] OTHER -> <<>>
  BY DEF Init, Partial, Whole
<1>2. ASSUME NEW w \in Writers PROVE file[w] \in Seq(Byte)
  <2>1. Partial(w) \in Seq(Byte) /\ Whole(w) \in Seq(Byte) /\ <<>> \in Seq(Byte)
    BY WriterFacts, EmptySeq
  <2>2. file[w] \in {Partial(w), Whole(w), <<>>}
    BY <1>1
  <2>3. QED
    BY <2>1, <2>2
<1>3. file \in [Writers -> Seq(Byte)]
  BY <1>2 DEF Init
<1>4. ASSUME NEW k \in Keys, disk[k] # None PROVE disk[k] \in Old /\ KeyOf[disk[k]] = k
  BY <1>4 DEF Init
<1>5. disk \in [Keys -> Writers \cup {None}]
  <2>1. disk = [k \in Keys |-> disk[k]]
    BY DEF Init
  <2>2. QED
    BY <1>4, <2>1
<1>6. Types
  BY <1>3, <1>5 DEF Init, Types
<1>7. FilesInv
  BY <1>1, WriterFacts DEF Init, FilesInv, MayLackLength
<1>8. DiskInv
  BY <1>4 DEF Init, DiskInv
<1>9. LockInv /\ ReadInv
  BY DEF Init, LockInv, ReadInv
<1>10. QED
  BY <1>6, <1>7, <1>8, <1>9 DEF IInv

\* A step of nobody the invariant is about.
LEMMA CoreUnchanged == IInv /\ UNCHANGED core => IInv'
  BY DEF IInv, core, Types, FilesInv, DiskInv, LockInv, ReadInv, MayLackLength, Partial, Whole,
         Announced, Entry

\* A write that begins or completes a file.
LEMMA WriteIInv ==
  ASSUME IInv, NEW w \in Writers, UNCHANGED <<disk, lock, readVars>>,
         \/ /\ pc[w] = "idle" /\ w \notin Old
            /\ \/ Kind[w] = "artifact" /\ file' = [file EXCEPT ![w] = Partial(w)]
                    /\ late' = late \cup {w} /\ pc' = [pc EXCEPT ![w] = "rename"]
               \/ /\ file' = [file EXCEPT ![w] = Whole(w)]
                  /\ UNCHANGED late /\ pc' = [pc EXCEPT ![w] = "lock"]
         \/ /\ w \in late /\ file' = [file EXCEPT ![w] = Whole(w)]
            /\ late' = late \ {w} /\ UNCHANGED pc
  PROVE  IInv'
<1> USE DEF IInv
<1>1. Partial(w) \in Seq(Byte) /\ Whole(w) \in Seq(Byte) /\ Partial(w) # Whole(w)
  BY WriterFacts
<1>2. Types'
  BY <1>1 DEF Types
<1>3. FilesInv'
  BY <1>1 DEF Types, FilesInv, MayLackLength, Partial, Whole, Announced, Entry
<1>4. DiskInv' /\ LockInv'
  BY DEF Types, DiskInv, LockInv
<1>5. ReadInv'
  BY <1>1 DEF Types, FilesInv, ReadInv, MayLackLength, Partial, Whole, Announced, Entry
<1>6. QED
  BY <1>2, <1>3, <1>4, <1>5

\* A writer that has begun goes on, perhaps renames its file, perhaps has or leaves
\* the lock; paths may be emptied.
LEMMA MoveIInv ==
  ASSUME IInv, NEW w \in Writers, pc[w] # "idle",
         NEW s \in {"pinned", "renaming", "scan", "done", "cut"},
         pc' = [pc EXCEPT ![w] = s],
         disk' \in {disk, [disk EXCEPT ![KeyOf[w]] = w]},
         (lock' = lock /\ pc[w] # "scan") \/ lock' = None \/ (lock' = w /\ s = "scan"),
         UNCHANGED <<file, late, readVars>>
  PROVE  IInv'
<1> USE ConstantsAssumption DEF IInv
<1>1. Types'
  <2>1. KeyOf[w] \in Keys
    OBVIOUS
  <2>2. disk' \in [Keys -> Writers \cup {None}]
    <3>1. CASE disk' = disk
      BY <3>1 DEF Types
    <3>2. CASE disk' = [disk EXCEPT ![KeyOf[w]] = w]
      BY <2>1, <3>2 DEF Types
    <3>3. QED
      BY <3>1, <3>2
  <2>3. pc' \in [Writers -> {"idle", "rename", "pinned", "lock", "renaming", "scan", "done", "cut"}]
    BY DEF Types
  <2>4. QED
    BY <2>2, <2>3 DEF Types
<1>2. FilesInv'
  BY DEF Types, FilesInv, MayLackLength, Partial, Whole, Announced, Entry
<1>3. DiskInv'
  BY DEF Types, DiskInv
<1>4. LockInv'
  BY DEF Types, LockInv
<1>5. ReadInv'
  BY DEF Types, ReadInv, MayLackLength, Partial, Whole, Announced, Entry
<1>6. QED
  BY <1>1, <1>2, <1>3, <1>4, <1>5

\* A file is removed.
LEMMA RemovalIInv ==
  ASSUME IInv, NEW k, disk' = [disk EXCEPT ![k] = None],
         UNCHANGED <<file, late, pc, lock, readVars>>
  PROVE  IInv'
<1> USE DEF IInv
<1>1. disk' \in [Keys -> Writers \cup {None}] /\ \A j \in Keys : disk'[j] \in {disk[j], None}
  BY DEF Types
<1>2. Types'
  BY <1>1 DEF Types
<1>3. FilesInv' /\ LockInv'
  BY DEF FilesInv, LockInv, MayLackLength, Partial, Whole
<1>4. DiskInv'
  BY <1>1 DEF DiskInv
<1>5. ReadInv'
  BY DEF ReadInv, MayLackLength, Partial, Whole, Announced, Entry
<1>6. QED
  BY <1>2, <1>3, <1>4, <1>5

\* The lock is taken or left by the janitor.
LEMMA LockIInv ==
  ASSUME IInv, lock' \in {None, Janitor}, UNCHANGED <<disk, file, late, pc, readVars>>
  PROVE  IInv'
<1> USE ConstantsAssumption DEF IInv
<1>1. LockInv'
  BY DEF LockInv
<1>2. Types' /\ FilesInv' /\ DiskInv' /\ ReadInv'
  BY DEF Types, FilesInv, DiskInv, ReadInv, MayLackLength, Partial, Whole, Announced, Entry
<1>3. QED
  BY <1>1, <1>2

-------------------------------------------------------------------------------
(* Readers.                                                                *)

\* A step of reader r that keeps what is true of the file it has open.
LEMMA ReaderIInv ==
  ASSUME IInv, NEW r \in Readers, NEW to \in {"size", "footer", "body", "hit", "missing"}, NEW v,
         NEW h \in Writers \cup {None}, NEW k \in Keys \cup {None},
         reader' = [reader EXCEPT ![r] = to], seen' = [seen EXCEPT ![r] = v],
         handle' = [handle EXCEPT ![r] = h], asked' = [asked EXCEPT ![r] = k],
         UNCHANGED <<disk, file, late, pc, lock>>,
         h = None => to = "missing",
         h # None => /\ KeyOf[h] = k /\ pc[h] # "idle"
                     /\ to = "footer" => \/ v = Len(Partial(h)) /\ MayLackLength(h)
                                         \/ v = Len(Whole(h)) /\ file[h] = Whole(h)
                     /\ to = "body" => v = Announced(h)
                     /\ to = "hit" => v = Entry(h)
                     /\ to = "missing" => v = Len(Partial(h)) /\ MayLackLength(h)
  PROVE  IInv'
<1> USE DEF IInv
<1>1. Types'
  BY DEF Types
<1>2. FilesInv' /\ DiskInv' /\ LockInv'
  BY DEF FilesInv, DiskInv, LockInv, MayLackLength, Partial, Whole, Announced, Entry
<1>3. ReadInv'
  <2> SUFFICES ASSUME NEW q \in Readers
               PROVE  /\ reader'[q] \in {"size", "footer", "body", "hit"} => handle'[q] # None
                      /\ handle'[q] # None =>
                            /\ KeyOf[handle'[q]] = asked'[q] /\ pc[handle'[q]] # "idle"
                            /\ reader'[q] = "footer" =>
                                  \/ /\ seen'[q] = Len(Partial(handle'[q]))
                                     /\ MayLackLength(handle'[q])
                                  \/ /\ seen'[q] = Len(Whole(handle'[q]))
                                     /\ file[handle'[q]] = Whole(handle'[q])
                            /\ reader'[q] = "body" => seen'[q] = Announced(handle'[q])
                            /\ reader'[q] = "hit" => seen'[q] = Entry(handle'[q])
                            /\ reader'[q] = "missing" =>
                                  /\ seen'[q] = Len(Partial(handle'[q]))
                                  /\ MayLackLength(handle'[q])
    BY DEF ReadInv, MayLackLength, Partial, Whole, Announced, Entry
  <2>1. CASE q = r
    <3>1. reader'[q] = to /\ seen'[q] = v /\ handle'[q] = h /\ asked'[q] = k
      BY <2>1 DEF Types
    <3>2. QED
      BY <3>1
  <2>2. CASE q # r
    <3>1. /\ reader'[q] = reader[q] /\ seen'[q] = seen[q]
          /\ handle'[q] = handle[q] /\ asked'[q] = asked[q]
      BY <2>2 DEF Types
    <3>2. QED
      BY <3>1 DEF ReadInv
  <2>3. QED
    BY <2>1, <2>2
<1>4. QED
  BY <1>1, <1>2, <1>3

LEMMA OpenIInv == ASSUME IInv, NEW r \in Readers, NEW k \in Keys, Open(r, k) PROVE IInv'
<1> DEFINE h == disk[k]
           to == IF h = None THEN "missing" ELSE "size"
<1>1. h \in Writers \cup {None} /\ (h # None => KeyOf[h] = k /\ pc[h] # "idle")
  BY DEF IInv, Types, DiskInv
<1>2. /\ reader' = [reader EXCEPT ![r] = to] /\ seen' = [seen EXCEPT ![r] = None]
      /\ handle' = [handle EXCEPT ![r] = h] /\ asked' = [asked EXCEPT ![r] = k]
      /\ UNCHANGED <<disk, file, late, pc, lock>>
  BY DEF Open, Read
<1>3. CASE h = None
  BY <1>1, <1>2, <1>3, ReaderIInv
<1>4. CASE h # None
  BY <1>1, <1>2, <1>4, ReaderIInv
<1>5. QED
  BY <1>3, <1>4

\* What a reader that goes on with its file keeps.
LEMMA StillOpen ==
  ASSUME IInv, NEW r \in Readers, reader[r] \in {"size", "footer", "body"}
  PROVE  /\ handle[r] \in Writers /\ handle[r] # None /\ asked[r] \in Keys \cup {None}
         /\ KeyOf[handle[r]] = asked[r] /\ pc[handle[r]] # "idle"
         /\ handle = [handle EXCEPT ![r] = handle[r]] /\ asked = [asked EXCEPT ![r] = asked[r]]
         /\ file[handle[r]] \in {Partial(handle[r]), Whole(handle[r])}
         /\ file[handle[r]] = Partial(handle[r]) => MayLackLength(handle[r])
<1>1. /\ handle[r] \in Writers /\ handle[r] # None /\ asked[r] \in Keys \cup {None}
      /\ KeyOf[handle[r]] = asked[r] /\ pc[handle[r]] # "idle"
  BY DEF IInv, Types, ReadInv
<1>2. handle = [handle EXCEPT ![r] = handle[r]] /\ asked = [asked EXCEPT ![r] = asked[r]]
  BY DEF IInv, Types
<1>3. QED
  BY <1>1, <1>2 DEF IInv, FilesInv

LEMMA SizeIInv == ASSUME IInv, NEW r \in Readers, Size(r) PROVE IInv'
<1> DEFINE h == handle[r]
           v == Len(file[h])
<1>1. reader[r] = "size"
  BY DEF Size, Read
<1>2. /\ reader' = [reader EXCEPT ![r] = "footer"] /\ seen' = [seen EXCEPT ![r] = v]
      /\ UNCHANGED <<handle, asked, disk, file, late, pc, lock>>
  BY DEF Size, Read
<1>3. \/ v = Len(Partial(h)) /\ MayLackLength(h)
      \/ v = Len(Whole(h)) /\ file[h] = Whole(h)
  BY <1>1, StillOpen
<1>4. /\ h \in Writers /\ h # None /\ asked[r] \in Keys \cup {None}
      /\ KeyOf[h] = asked[r] /\ pc[h] # "idle"
      /\ handle' = [handle EXCEPT ![r] = h] /\ asked' = [asked EXCEPT ![r] = asked[r]]
  BY <1>1, <1>2, StillOpen
<1> HIDE DEF h, v
<1>5. QED
  BY <1>2, <1>3, <1>4, ReaderIInv

\* read_footer is right about the file, whichever size the reader was told.
LEMMA FooterIInv == ASSUME IInv, NEW r \in Readers, Footer(r) PROVE IInv'
<1> DEFINE h == handle[r]
           footer == ReadFooter(file[h], seen[r])
           to == IF footer = Invalid THEN "missing" ELSE "body"
           v == IF footer = Invalid THEN seen[r] ELSE footer
<1>1. reader[r] = "footer"
  BY DEF Footer, Read
<1>2. /\ reader' = [reader EXCEPT ![r] = to] /\ seen' = [seen EXCEPT ![r] = v]
      /\ UNCHANGED <<handle, asked, disk, file, late, pc, lock>>
  BY DEF Footer, Read
<1>3. /\ h \in Writers /\ h # None /\ asked[r] \in Keys \cup {None}
      /\ KeyOf[h] = asked[r] /\ pc[h] # "idle"
      /\ handle' = [handle EXCEPT ![r] = h] /\ asked' = [asked EXCEPT ![r] = asked[r]]
      /\ file[h] \in {Partial(h), Whole(h)}
  BY <1>1, <1>2, StillOpen
<1>4. Body[h] \in Seq(Byte) /\ Meta[h] \in Metas
  BY <1>3, WriterFacts
<1>5. CASE seen[r] = Len(Partial(h)) /\ MayLackLength(h)
  <2>1. footer = Invalid
    BY <1>3, <1>4, <1>5, UnfinishedIsInvalid DEF Partial, Whole
  <2> DEFINE n == Len(Partial(h))
  <2>2. /\ reader' = [reader EXCEPT ![r] = "missing"] /\ seen' = [seen EXCEPT ![r] = n]
        /\ UNCHANGED <<disk, file, late, pc, lock>>
    BY <1>2, <1>5, <2>1
  <2>3. n = Len(Partial(h)) /\ MayLackLength(h)
    BY <1>5
  <2> HIDE DEF h, n
  <2>4. QED
    BY <1>3, <2>2, <2>3, ReaderIInv
<1>6. CASE seen[r] = Len(Whole(h)) /\ file[h] = Whole(h)
  <2>1. footer = Announced(h)
    BY <1>4, <1>6, PackedIsRead DEF Whole, Announced
  <2>2. Len(Body[h]) \in Nat
    BY <1>4, LenProperties
  <2>3. footer # Invalid
    BY <1>4, <2>1, <2>2, MetasAssumption DEF Announced
  <2> HIDE DEF h, footer
  <2>4. QED
    BY <1>2, <1>3, <2>1, <2>3, ReaderIInv
<1>7. QED
  BY <1>1, <1>3, <1>5, <1>6 DEF IInv, ReadInv

LEMMA ReadBodyIInv == ASSUME IInv, NEW r \in Readers, ReadBody(r) PROVE IInv'
<1> DEFINE h == handle[r]
           v == Result(r, file[h])
<1>1. reader[r] = "body"
  BY DEF ReadBody
<1>2. /\ reader' = [reader EXCEPT ![r] = "hit"] /\ seen' = [seen EXCEPT ![r] = v]
      /\ UNCHANGED <<handle, asked, disk, file, late, pc, lock>>
  BY DEF ReadBody, Read
<1>3. /\ h \in Writers /\ h # None /\ asked[r] \in Keys \cup {None}
      /\ KeyOf[h] = asked[r] /\ pc[h] # "idle"
      /\ handle' = [handle EXCEPT ![r] = h] /\ asked' = [asked EXCEPT ![r] = asked[r]]
      /\ file[h] \in {Partial(h), Whole(h)}
  BY <1>1, <1>2, StillOpen
<1>4. seen[r] = Announced(h)
  BY <1>1, <1>3 DEF IInv, ReadInv
<1>5. SubSeq(file[h], 1, Len(Body[h])) = Body[h]
  BY <1>3, WriterFacts, BodyIsPrefix DEF Partial, Whole
<1>6. v = Entry(h)
  BY <1>4, <1>5 DEF Result, Announced, Entry
<1> HIDE DEF h, v
<1>7. QED
  BY <1>2, <1>3, <1>6, ReaderIInv

-------------------------------------------------------------------------------
\* No step of a writer, the janitor, a scan or a reader breaks the invariant.
LEMMA NextIInv == IInv /\ [Next]_vars => IInv'
<1> SUFFICES ASSUME IInv, [Next]_vars PROVE IInv'
  OBVIOUS
<1> USE ConstantsAssumption
<1>1. ASSUME NEW w \in Writers, Commit(w) PROVE IInv'
  <2>1. w \notin Old
    BY <1>1 DEF Commit, IInv, FilesInv
  <2>2. QED
    BY <1>1, <2>1, WriteIInv DEF Commit, Write, Partial
<1>2. ASSUME NEW w \in Writers, LengthLands(w) PROVE IInv'
  <2>1. file[w] \o ToBe(Len(Meta[w])) = Whole(w)
    BY <1>2, WriterFacts DEF LengthLands, IInv, FilesInv
  <2>2. QED
    BY <1>2, <2>1, WriteIInv DEF LengthLands, Write, Races
<1>3. ASSUME NEW w \in Writers, LengthFails(w) PROVE IInv'
  <2>1. Types'
    BY <1>3 DEF LengthFails, IInv, Types
  <2>2. FilesInv'
    BY <1>3 DEF LengthFails, IInv, FilesInv, MayLackLength, Partial, Whole, Announced, Entry
  <2>3. DiskInv' /\ LockInv' /\ ReadInv'
    BY <1>3
    DEF LengthFails, IInv, DiskInv, LockInv, ReadInv, MayLackLength, Partial, Whole, Announced,
        Entry
  <2>4. QED
    BY <2>1, <2>2, <2>3 DEF IInv
<1>4. ASSUME NEW w \in Writers, RenameArtifact(w) PROVE IInv'
  BY <1>4, MoveIInv DEF RenameArtifact, Races
<1>5. ASSUME NEW w \in Writers, DropPin(w) PROVE IInv'
  BY <1>5, MoveIInv DEF DropPin
<1>6. ASSUME NEW w \in Writers, Store(w) PROVE IInv'
  <2>1. w \notin Old
    BY <1>6 DEF Store, IInv, FilesInv
  <2>2. QED
    BY <1>6, <2>1, WriteIInv DEF Store, Write, Whole
<1>7. ASSUME NEW w \in Writers, RenameMetadata(w) PROVE IInv'
  BY <1>7, MoveIInv DEF RenameMetadata
<1>8. ASSUME NEW w \in Writers, Cut(w) PROVE IInv'
  BY <1>8, MoveIInv DEF Cut
<1>9. ASSUME NEW w \in Writers, LateRename(w) PROVE IInv'
  BY <1>9, MoveIInv DEF LateRename, Races
<1>10. ASSUME NEW k \in stray, LateRemoval(k) PROVE IInv'
  BY <1>10, RemovalIInv DEF LateRemoval, Races
<1>11. ASSUME Receive \/ (\E k \in Keys : List(k)) \/ (\E e \in left : Examine(e)) \/ RemoveFails
       PROVE  IInv'
  <2>1. UNCHANGED core
    BY <1>11 DEF Receive, List, Examine, RemoveFails, core
  <2>2. QED
    BY <2>1, CoreUnchanged
<1>12. ASSUME JanitorLocks PROVE IInv'
  BY <1>12, LockIInv DEF JanitorLocks
<1>13. ASSUME RemoveVictim PROVE IInv'
  BY <1>13, RemovalIInv DEF RemoveVictim
<1>14. ASSUME Leave, UNCHANGED <<disk, file, late, readVars>> PROVE IInv'
  <2>1. CASE UNCHANGED pc
    BY <1>14, <2>1, LockIInv DEF Leave
  <2>2. CASE lock \in Writers /\ Goto(lock, "done")
    <3>1. pc[lock] = "scan"
      BY <2>2 DEF IInv, LockInv
    <3>2. QED
      BY <1>14, <2>2, <3>1, MoveIInv DEF Leave
  <2>3. CASE lock \notin Writers /\ Goto(lock, "done")
    <3>1. UNCHANGED pc
      BY <2>3 DEF IInv, Types
    <3>2. QED
      BY <1>14, <3>1, LockIInv DEF Leave
  <2>4. QED
    BY <1>14, <2>1, <2>2, <2>3 DEF Leave
<1>15. ASSUME ListFails \/ ScanEnds PROVE IInv'
  BY <1>14, <1>15 DEF ListFails, ScanEnds
<1>16. ASSUME NEW r \in Readers, (\E k \in Keys : Open(r, k)) \/ Size(r) \/ Footer(r) \/ ReadBody(r)
       PROVE  IInv'
  BY <1>16, OpenIInv, SizeIInv, FooterIInv, ReadBodyIInv
<1>17. CASE UNCHANGED vars
  <2>1. UNCHANGED core
    BY <1>17 DEF vars, core
  <2>2. QED
    BY <2>1, CoreUnchanged
<1>18. QED
  BY <1>1, <1>2, <1>3, <1>4, <1>5, <1>6, <1>7, <1>8, <1>9, <1>10, <1>11, <1>12, <1>13, <1>15,
     <1>16, <1>17
  DEF Next, Settled

\* The invariant holds in every reachable state.
LEMMA Invariance == SafeSpec => []IInv
  BY InitIInv, NextIInv, PTL DEF SafeSpec

-------------------------------------------------------------------------------
\* load and read_body return one whole publication of the key, for files of any
\* content, also when they hold what looks like an entry.
THEOREM ReadersGetWholeEntries == SafeSpec => []ReadsAreWhole
<1>1. IInv => ReadsAreWhole
  <2> SUFFICES ASSUME IInv, NEW r \in Readers, reader[r] = "hit"
               PROVE  \E w \in Writers : /\ KeyOf[w] = asked[r]
                                         /\ seen[r] = [meta |-> Meta[w], body |-> Body[w]]
    BY DEF ReadsAreWhole
  <2>1. handle[r] \in Writers /\ handle[r] # None
    BY DEF IInv, Types, ReadInv
  <2>2. QED
    BY <2>1 DEF IInv, ReadInv, Entry
<1>2. QED
  BY <1>1, Invariance, PTL

\* load misses an entry that is there only if it is an artifact whose last write
\* had not landed when load asked for the size, or never did.
THEOREM MissesAreExplained == SafeSpec => []MissesHaveReason
<1>1. IInv => MissesHaveReason
  <2> SUFFICES ASSUME IInv, NEW r \in Readers, reader[r] = "missing", handle[r] # None
               PROVE  /\ Kind[handle[r]] = "artifact"
                      /\ seen[r] = Len(Unfinished(Body[handle[r]], Meta[handle[r]]))
    BY DEF MissesHaveReason
  <2>1. QED
    BY DEF IInv, ReadInv, MayLackLength, Partial
<1>2. QED
  BY <1>1, Invariance, PTL

-------------------------------------------------------------------------------
(* The scans: types, the lock, the pins.                                   *)

ScanTypes ==
    /\ mtime \in [Writers -> Nat] /\ clock \in Nat
    /\ stray \subseteq Keys
    /\ pins \in [Keys -> Writers \cup {None}]
    /\ queue \in 0 .. 1 /\ janitor \in {"idle", "lock", "scan"}
    /\ lock \in Writers \cup {None, Janitor}
    /\ unlisted \subseteq Keys
    /\ left \subseteq Listed /\ spared \subseteq Listed
    /\ victim \in Listed \cup {None}
    /\ total \in Nat
    /\ cut \subseteq Writers \cup {Janitor}
    /\ raced \in BOOLEAN

\* Scans take place under the lock; the janitor holds it only for one.
HoldInv ==
    /\ lock = None => unlisted = {} /\ left = {} /\ spared = {} /\ victim = None
    /\ lock = Janitor => janitor = "scan"

\* The pins are of publications that are on their way, and hold from before the
\* rename.
PinInv ==
    /\ \A k \in Keys : pins[k] # None =>
          KeyOf[pins[k]] = k /\ pc[pins[k]] \in {"rename", "pinned"}
    /\ \A w \in Writers : pc[w] = "rename" => pins[KeyOf[w]] = w

TInv == ScanTypes /\ HoldInv /\ PinInv

\* All that it is about.
work == <<mtime, clock, stray, pins, queue, janitor, lock, scanVars, pc, cut>>

LEMMA InitTInv == Init => TInv
<1> SUFFICES ASSUME Init PROVE TInv
  OBVIOUS
<1>1. mtime \in [Writers -> Nat]
  BY ConstantsAssumption DEF Init
<1>2. ScanTypes
  <2>1. pins \in [Keys -> Writers \cup {None}]
    BY DEF Init
  <2>2. /\ clock = 1 /\ stray = {} /\ queue = 0 /\ janitor = "idle" /\ lock = None
        /\ unlisted = {} /\ left = {} /\ total = 0 /\ victim = None /\ spared = {}
        /\ cut = {}
    BY DEF Init
  <2>3. raced \in BOOLEAN
    BY DEF Init
  <2>4. QED
    BY <1>1, <2>1, <2>2, <2>3 DEF ScanTypes
<1>3. HoldInv /\ PinInv
  BY ConstantsAssumption DEF Init, HoldInv, PinInv
<1>4. QED
  BY <1>2, <1>3 DEF TInv

LEMMA WorkUnchanged == TInv /\ UNCHANGED work => TInv'
  BY DEF TInv, work, ScanTypes, HoldInv, PinInv

\* The clock goes on, and stamps a file.
LEMMA WriteTypes ==
  ASSUME ScanTypes, NEW w \in Writers, NEW bytes, Write(w, bytes)
  PROVE  clock' \in Nat /\ mtime' \in [Writers -> Nat]
<1>1. clock' \in Nat
  BY DEF ScanTypes, Write
<1>2. QED
  BY <1>1 DEF ScanTypes, Write

\* A step beside the scans: writer w goes to s.
LEMMA StepTInv ==
  ASSUME TInv, clock' \in Nat, mtime' \in [Writers -> Nat], stray' \subseteq Keys,
         UNCHANGED <<pins, queue, janitor, lock, unlisted, left, total, victim, spared>>,
         cut' \subseteq Writers \cup {Janitor}, raced' \in BOOLEAN,
         \A k \in Keys : pins[k] # None => pc'[pins[k]] \in {"rename", "pinned"},
         \A w \in Writers : pc'[w] = "rename" => pc[w] = "rename"
  PROVE  TInv'
<1>1. ScanTypes'
  BY DEF TInv, ScanTypes
<1>2. HoldInv' /\ PinInv'
  BY DEF TInv, HoldInv, PinInv
<1>3. QED
  BY <1>1, <1>2 DEF TInv

\* A scan begins or ends.
LEMMA LockTInv ==
  ASSUME TInv, NEW keys \in {{}, Keys}, ScanOf(keys), UNCHANGED <<mtime, clock, pins>>,
         stray' \subseteq Keys, queue' \in 0 .. 1, janitor' \in {"idle", "lock", "scan"},
         \/ lock' = None /\ keys = {}
         \/ lock' \in Writers
         \/ lock' = Janitor /\ janitor' = "scan",
         cut' \subseteq Writers \cup {Janitor},
         \A w \in Writers : pc'[w] = pc[w] \/ (pc[w] \in {"lock", "scan"} /\ pc'[w] # "rename")
  PROVE  TInv'
<1>1. ScanTypes'
  BY DEF TInv, ScanTypes, ScanOf
<1>2. HoldInv'
  BY ConstantsAssumption DEF TInv, HoldInv, ScanOf
<1>3. PinInv'
  <2>1. ASSUME NEW k \in Keys, pins[k] # None
        PROVE  KeyOf[pins[k]] = k /\ pc'[pins[k]] \in {"rename", "pinned"}
    <3>1. pins[k] \in Writers
      BY <2>1 DEF TInv, ScanTypes
    <3>2. QED
      BY <2>1, <3>1 DEF TInv, PinInv
  <2>2. \A w \in Writers : pc'[w] = "rename" => pins[KeyOf[w]] = w
    BY DEF TInv, PinInv
  <2>3. QED
    BY <2>1, <2>2 DEF PinInv
<1>4. QED
  BY <1>1, <1>2, <1>3 DEF TInv

\* The scan goes on.
LEMMA ScanTInv ==
  ASSUME TInv, lock # None, UNCHANGED <<mtime, clock, stray, pins, queue, janitor, lock, pc, raced>>,
         unlisted' \subseteq Keys, left' \subseteq Listed, spared' \subseteq Listed,
         victim' \in Listed \cup {None}, total' \in Nat, cut' \subseteq Writers \cup {Janitor}
  PROVE  TInv'
<1>1. ScanTypes'
  BY DEF TInv, ScanTypes
<1>2. HoldInv' /\ PinInv'
  BY DEF TInv, HoldInv, PinInv
<1>3. QED
  BY <1>1, <1>2 DEF TInv

\* Whoever scans, holds the lock.
LEMMA Holds ==
  ASSUME TInv, unlisted # {} \/ left # {} \/ victim # None
  PROVE  lock # None
  BY DEF TInv, HoldInv

\* What completed_entries_at notes of a file.
Noted(k) == [key |-> k, file |-> disk[k], modified |-> mtime[disk[k]], size |-> Len(file[disk[k]])]

LEMMA NotedType ==
  ASSUME IInv, TInv, NEW k \in Keys, disk[k] # None
  PROVE  /\ disk[k] \in Writers /\ Len(file[disk[k]]) \in Nat
         /\ Noted(k) \in Listed /\ Noted(k).key = k /\ Noted(k).size = Len(file[disk[k]])
<1>1. disk[k] \in Writers
  BY DEF IInv, Types
<1>2. Len(file[disk[k]]) \in Nat
  BY <1>1, LenProperties DEF IInv, Types
<1>3. mtime[disk[k]] \in Nat
  BY <1>1 DEF TInv, ScanTypes
<1>4. QED
  BY <1>1, <1>2, <1>3 DEF Noted, Listed

\* No step of a writer, the janitor, a scan or a reader breaks it.
LEMMA NextTInv == IInv /\ TInv /\ [Next]_vars => TInv'
<1> SUFFICES ASSUME IInv, TInv, [Next]_vars PROVE TInv'
  OBVIOUS
<1> USE DEF Races
<1>0. /\ None \notin Writers \cup Listed /\ Janitor \notin Writers \cup {None}
      /\ KeyOf \in [Writers -> Keys]
      /\ pc \in [Writers -> {"idle", "rename", "pinned", "lock", "renaming", "scan", "done", "cut"}]
      /\ pins \in [Keys -> Writers \cup {None}]
  BY ConstantsAssumption DEF IInv, Types, TInv, ScanTypes
<1>1. ASSUME NEW w \in Writers, Commit(w) PROVE TInv'
  <2>1. clock' \in Nat /\ mtime' \in [Writers -> Nat]
    BY <1>1, WriteTypes DEF Commit, TInv
  <2>2. ScanTypes'
    <3>1. pins' \in [Keys -> Writers \cup {None}]
      BY <1>0, <1>1 DEF Commit
    <3>2. QED
      BY <1>1, <2>1, <3>1 DEF Commit, TInv, ScanTypes
  <2>3. HoldInv'
    BY <1>1 DEF Commit, TInv, HoldInv
  <2>4. ASSUME NEW k \in Keys, pins'[k] # None
        PROVE  KeyOf[pins'[k]] = k /\ pc'[pins'[k]] \in {"rename", "pinned"}
    <3>1. CASE k = KeyOf[w]
      BY <1>0, <1>1, <3>1 DEF Commit
    <3>2. CASE k # KeyOf[w]
      BY <1>0, <1>1, <2>4, <3>2 DEF Commit, TInv, PinInv
    <3>3. QED
      BY <3>1, <3>2
  <2>5. ASSUME NEW v \in Writers, pc'[v] = "rename" PROVE pins'[KeyOf[v]] = v
    <3>1. CASE v = w
      BY <1>0, <1>1, <3>1 DEF Commit
    <3>2. CASE v # w
      BY <1>0, <1>1, <2>5, <3>2 DEF Commit, Alone, TInv, PinInv
    <3>3. QED
      BY <3>1, <3>2
  <2>6. PinInv'
    BY <2>4, <2>5 DEF PinInv
  <2>7. QED
    BY <2>2, <2>3, <2>6 DEF TInv
<1>2. ASSUME NEW w \in Writers, LengthLands(w) PROVE TInv'
  <2>1. clock' \in Nat /\ mtime' \in [Writers -> Nat]
    BY <1>2, WriteTypes DEF LengthLands, TInv
  <2>2. QED
    BY <1>2, <2>1, StepTInv DEF LengthLands, TInv, ScanTypes, PinInv
<1>3. ASSUME NEW w \in Writers, LengthFails(w) PROVE TInv'
  BY <1>3, WorkUnchanged DEF LengthFails, work
<1>4. ASSUME NEW w \in Writers, RenameArtifact(w) PROVE TInv'
  BY <1>0, <1>4, StepTInv DEF RenameArtifact, TInv, ScanTypes, PinInv
<1>5. ASSUME NEW w \in Writers, DropPin(w) PROVE TInv'
  <2>1. CASE pins[KeyOf[w]] = w
    <3>1. /\ pins' = [pins EXCEPT ![KeyOf[w]] = None] /\ queue' = 1
          /\ pc' = [pc EXCEPT ![w] = "done"]
      BY <1>5, <2>1 DEF DropPin
    <3>2. pins' \in [Keys -> Writers \cup {None}]
      BY <1>0, <3>1
    <3>3. ScanTypes' /\ HoldInv'
      BY <1>5, <3>1, <3>2 DEF DropPin, TInv, ScanTypes, HoldInv
    <3>4. ASSUME NEW k \in Keys, pins'[k] # None
          PROVE  KeyOf[pins'[k]] = k /\ pc'[pins'[k]] \in {"rename", "pinned"}
      BY <1>0, <3>1, <3>4 DEF TInv, PinInv
    <3>5. ASSUME NEW v \in Writers, pc'[v] = "rename" PROVE pins'[KeyOf[v]] = v
      BY <1>0, <1>5, <2>1, <3>1, <3>5 DEF DropPin, TInv, PinInv
    <3>6. PinInv'
      BY <3>4, <3>5 DEF PinInv
    <3>7. QED
      BY <3>3, <3>6 DEF TInv
  <2>2. CASE pins[KeyOf[w]] # w
    <3>1. \A k \in Keys : pins[k] # None => pc'[pins[k]] \in {"rename", "pinned"}
      BY <1>0, <1>5, <2>2 DEF DropPin, TInv, PinInv
    <3>2. \A v \in Writers : pc'[v] = "rename" => pc[v] = "rename"
      BY <1>0, <1>5 DEF DropPin
    <3>3. QED
      BY <1>5, <2>2, <3>1, <3>2, StepTInv DEF DropPin, TInv, ScanTypes
  <2>3. QED
    BY <2>1, <2>2
<1>6. ASSUME NEW w \in Writers, Store(w) PROVE TInv'
  <2>1. clock' \in Nat /\ mtime' \in [Writers -> Nat]
    BY <1>6, WriteTypes DEF Store, TInv
  <2>2. \A k \in Keys : pins[k] # None => pc'[pins[k]] \in {"rename", "pinned"}
    BY <1>0, <1>6 DEF Store, TInv, PinInv
  <2>3. \A v \in Writers : pc'[v] = "rename" => pc[v] = "rename"
    BY <1>0, <1>6 DEF Store
  <2>4. QED
    BY <1>6, <2>1, <2>2, <2>3, StepTInv DEF Store, TInv, ScanTypes
<1>7. ASSUME NEW w \in Writers, RenameMetadata(w) PROVE TInv'
  <2>1. \A v \in Writers : pc'[v] = pc[v] \/ (pc[v] \in {"lock", "scan"} /\ pc'[v] # "rename")
    BY <1>0, <1>7 DEF RenameMetadata
  <2>2. QED
    BY <1>7, <2>1, LockTInv DEF RenameMetadata, BeginScan, TInv, ScanTypes
<1>8. ASSUME NEW w \in Writers, Cut(w) PROVE TInv'
  <2>1. cut' \subseteq Writers \cup {Janitor}
    BY <1>8 DEF Cut, TInv, ScanTypes
  <2>2. CASE pc[w] = "lock"
    <3>1. \A k \in Keys : pins[k] # None => pc'[pins[k]] \in {"rename", "pinned"}
      BY <1>0, <1>8, <2>2 DEF Cut, TInv, PinInv
    <3>2. \A v \in Writers : pc'[v] = "rename" => pc[v] = "rename"
      BY <1>0, <1>8, <2>2 DEF Cut
    <3>3. QED
      BY <1>8, <2>1, <2>2, <3>1, <3>2, StepTInv DEF Cut, TInv, ScanTypes
  <2>3. CASE pc[w] = "scan"
    <3>1. \A v \in Writers : pc'[v] = pc[v] \/ (pc[v] \in {"lock", "scan"} /\ pc'[v] # "rename")
      BY <1>0, <1>8, <2>3 DEF Cut
    <3>2. stray' \subseteq Keys
      <4>1. \A e \in {victim} \ {None} : e.key \in Keys
        BY DEF TInv, ScanTypes, Listed
      <4>2. QED
        BY <1>8, <2>3, <4>1 DEF Cut, TInv, ScanTypes
    <3>3. ScanOf({}) /\ lock' = None /\ UNCHANGED <<mtime, clock, pins, queue, janitor>>
      BY <1>8, <2>3 DEF Cut, EndScan
    <3>4. queue' \in 0 .. 1 /\ janitor' \in {"idle", "lock", "scan"}
      BY <3>3 DEF TInv, ScanTypes
    <3>5. QED
      BY <2>1, <3>1, <3>2, <3>3, <3>4, LockTInv
  <2>4. QED
    BY <1>8, <2>2, <2>3 DEF Cut
<1>9. ASSUME NEW w \in Writers, LateRename(w) PROVE TInv'
  <2>1. \A k \in Keys : pins[k] # None => pc'[pins[k]] \in {"rename", "pinned"}
    BY <1>0, <1>9 DEF LateRename, TInv, PinInv
  <2>2. \A v \in Writers : pc'[v] = "rename" => pc[v] = "rename"
    BY <1>0, <1>9 DEF LateRename
  <2>3. QED
    BY <1>9, <2>1, <2>2, StepTInv DEF LateRename, TInv, ScanTypes
<1>10. ASSUME NEW k \in stray, LateRemoval(k) PROVE TInv'
  BY <1>10, StepTInv DEF LateRemoval, TInv, ScanTypes, PinInv
<1>11. ASSUME Receive PROVE TInv'
  BY <1>11 DEF Receive, TInv, ScanTypes, HoldInv, PinInv
<1>12. ASSUME JanitorLocks PROVE TInv'
  BY <1>12, LockTInv DEF JanitorLocks, BeginScan, TInv, ScanTypes
<1>13. ASSUME NEW k \in Keys, List(k) PROVE TInv'
  <2>1. lock # None /\ unlisted' \subseteq Keys /\ cut' \subseteq Writers \cup {Janitor}
    BY <1>13, Holds DEF List, TInv, ScanTypes, IInv, Types
  <2>2. left' \subseteq Listed /\ total' \in Nat
    <3>1. CASE disk[k] = None
      BY <1>13, <3>1 DEF List, TInv, ScanTypes
    <3>2. CASE disk[k] # None
      <4>1. left' = left \cup {Noted(k)} /\ total' = total + Len(file[disk[k]])
        BY <1>13, <3>2 DEF List, Noted
      <4>2. QED
        BY <3>2, <4>1, NotedType DEF TInv, ScanTypes
    <3>3. QED
      BY <3>1, <3>2
  <2>3. QED
    BY <1>13, <2>1, <2>2, ScanTInv DEF List, TInv, ScanTypes
<1>14. ASSUME Leave, lock # None, UNCHANGED <<fileVars, stray, pins, queue>>,
              cut' \subseteq Writers \cup {Janitor}
       PROVE  TInv'
  <2>1. \A v \in Writers : pc'[v] = pc[v] \/ (pc[v] \in {"lock", "scan"} /\ pc'[v] # "rename")
    BY <1>0, <1>14 DEF Leave, IInv, LockInv
  <2>2. janitor' \in {"idle", "lock", "scan"} /\ lock' = None /\ ScanOf({})
    BY <1>14 DEF Leave, EndScan, TInv, ScanTypes
  <2>3. QED
    BY <1>14, <2>1, <2>2, LockTInv DEF TInv, ScanTypes
<1>15. ASSUME ListFails \/ ScanEnds PROVE TInv'
  <2>1. lock # None
    BY <1>15, Holds DEF ListFails, ScanEnds, Evicting
  <2>2. cut' \subseteq Writers \cup {Janitor}
    BY <1>15 DEF ListFails, ScanEnds, TInv, ScanTypes
  <2>3. QED
    BY <1>14, <1>15, <2>1, <2>2 DEF ListFails, ScanEnds
<1>16. ASSUME NEW e \in left, Examine(e) PROVE TInv'
  <2>1. e \in Listed /\ lock # None
    BY <1>16 DEF Examine, Evicting, TInv, ScanTypes
  <2>2. /\ left' \subseteq Listed /\ spared' \subseteq Listed /\ victim' \in Listed \cup {None}
        /\ unlisted' \subseteq Keys /\ total' \in Nat /\ cut' \subseteq Writers \cup {Janitor}
    BY <1>16, <2>1 DEF Examine, TInv, ScanTypes
  <2>3. QED
    BY <1>16, <2>1, <2>2, ScanTInv DEF Examine
<1>17. ASSUME RemoveVictim PROVE TInv'
  <2>1. lock # None /\ victim \in Listed
    BY <1>17, Holds DEF RemoveVictim, TInv, ScanTypes
  <2>2. victim.size \in Nat
    BY <2>1 DEF Listed
  <2>3. total' \in Nat
    BY <1>17, <2>2 DEF RemoveVictim, TInv, ScanTypes
  <2>4. QED
    BY <1>17, <2>1, <2>3, ScanTInv DEF RemoveVictim, TInv, ScanTypes
<1>18. ASSUME RemoveFails PROVE TInv'
  <2>1. lock # None /\ victim \in Listed
    BY <1>18, Holds DEF RemoveFails, TInv, ScanTypes
  <2>2. QED
    BY <1>18, <2>1, ScanTInv DEF RemoveFails, TInv, ScanTypes
<1>19. ASSUME NEW r \in Readers, (\E k \in Keys : Open(r, k)) \/ Size(r) \/ Footer(r) \/ ReadBody(r)
       PROVE  TInv'
  BY <1>19, WorkUnchanged DEF Open, Size, Footer, ReadBody, Read, work
<1>20. CASE UNCHANGED vars
  BY <1>20, WorkUnchanged DEF vars, work
<1>21. QED
  BY <1>1, <1>2, <1>3, <1>4, <1>5, <1>6, <1>7, <1>8, <1>9, <1>10, <1>11, <1>12, <1>13, <1>15,
     <1>16, <1>17, <1>18, <1>19, <1>20
  DEF Next, Settled

\* Files, pins, queue, lock and scans have the values they should.
THEOREM TypeCorrect == SafeSpec => []TypeOK
<1>1. IInv /\ TInv => TypeOK
  BY DEF IInv, Types, TInv, ScanTypes, TypeOK
<1>2. SafeSpec => []TInv
  BY InitTInv, NextTInv, Invariance, PTL DEF SafeSpec
<1>3. QED
  BY <1>1, <1>2, Invariance, PTL

-------------------------------------------------------------------------------
(* The scans: what is accounted for.                                       *)

\* The entries behind the running total: listed and not removed.
Account == left \cup spared \cup ({victim} \ {None})

\* a has the sizes of these entries, by key, and the total is their sum.
Accounts(a) ==
    /\ \A e \in Account : a[e.key] = e.size
    /\ \A k \in Keys : (\A e \in Account : e.key # k) => a[k] = 0
    /\ total = SumFunctionOnSet(a, Keys)

\* Every key is listed once, and its entry is in one place.
EntriesInv ==
    /\ \A e \in Account : e.key \notin unlisted
    /\ \A e, f \in Account : e.key = f.key => e = f
    /\ left \cap spared = {}
    /\ victim \notin left \cup spared

TotalInv == \E a \in [Keys -> Nat] : Accounts(a)

\* A removal is decided above the bound, and for the oldest.
VictimInv ==
    victim # None => /\ unlisted = {} /\ total > MaxCacheSize
                     /\ \A e \in left : victim.modified <= e.modified

\* Unless artifacts are published beside the scan, what it has listed is there.
NotLess == ~raced => \A e \in Account : e.size <= SizeAt(e.key)

AInv == EntriesInv /\ TotalInv /\ VictimInv /\ NotLess

LEMMA SizeType == ASSUME IInv, NEW k \in Keys PROVE SizeAt(k) \in Nat
<1>1. CASE disk[k] = None
  BY <1>1 DEF SizeAt
<1>2. CASE disk[k] # None
  <2>1. file[disk[k]] \in Seq(Byte)
    BY <1>2 DEF IInv, Types
  <2>2. QED
    BY <1>2, <2>1, LenProperties DEF SizeAt
<1>3. QED
  BY <1>1, <1>2

LEMMA AccountType ==
  ASSUME TInv
  PROVE  /\ Account \subseteq Listed
         /\ \A e \in Account : e.key \in Keys /\ e.size \in Nat /\ e.modified \in Nat
<1>1. Account \subseteq Listed
  BY DEF TInv, ScanTypes, Account
<1>2. QED
  BY <1>1 DEF Listed

\* Without an entry the total is zero.
LEMMA NoEntries == ASSUME Account = {}, total = 0 PROVE EntriesInv /\ TotalInv
<1> DEFINE a == [k \in Keys |-> 0]
<1>1. SumFunctionOnSet(a, Keys) = 0
  <2> HIDE DEF a
  <2>1. \A k \in Keys : a[k] = 0
    BY DEF a
  <2>2. QED
    BY <2>1, SumZero, ConstantsAssumption
<1>2. Accounts(a)
  BY <1>1 DEF Accounts
<1>3. TotalInv
  BY <1>2 DEF TotalInv
<1>4. EntriesInv
  <2>1. left = {} /\ spared = {}
    BY DEF Account
  <2>2. QED
    BY <2>1 DEF EntriesInv
<1>5. QED
  BY <1>3, <1>4

LEMMA InitAInv == Init => AInv
<1> SUFFICES ASSUME Init PROVE AInv
  OBVIOUS
<1>1. Account = {} /\ total = 0 /\ victim = None
  BY DEF Init, Account
<1>2. EntriesInv /\ TotalInv
  BY <1>1, NoEntries
<1>3. VictimInv /\ NotLess
  BY <1>1 DEF VictimInv, NotLess
<1>4. QED
  BY <1>2, <1>3 DEF AInv

\* A step beside the scan that changes no file there is, or is noticed.
LEMMA BesideAInv ==
  ASSUME TInv, AInv, UNCHANGED <<unlisted, left, total, victim, spared>>,
         \/ raced' = (lock # None)
         \/ raced' = raced /\ \A k \in Keys : SizeAt(k)' = SizeAt(k)
  PROVE  AInv'
<1>1. Account' = Account
  BY DEF Account
<1>2. EntriesInv' /\ TotalInv' /\ VictimInv'
  BY <1>1 DEF AInv, EntriesInv, TotalInv, Accounts, VictimInv
<1>3. NotLess'
  <2> SUFFICES ASSUME ~raced', NEW e \in Account PROVE e.size <= SizeAt(e.key)'
    BY <1>1 DEF NotLess
  <2>1. lock # None
    BY DEF TInv, HoldInv, Account
  <2>2. ~raced /\ \A k \in Keys : SizeAt(k)' = SizeAt(k)
    <3>1. raced' # (lock # None)
      BY <2>1
    <3>2. QED
      BY <3>1
  <2>3. e.key \in Keys
    BY AccountType
  <2>4. QED
    BY <2>2, <2>3 DEF AInv, NotLess
<1>4. QED
  BY <1>2, <1>3 DEF AInv

\* A scan begins or ends.
LEMMA ScanOfAInv == ASSUME NEW keys, ScanOf(keys) PROVE AInv'
<1>1. Account' = {} /\ total' = 0 /\ victim' = None
  BY DEF ScanOf, Account
<1>2. EntriesInv' /\ TotalInv'
  <2>1. left' = {} /\ spared' = {}
    BY <1>1 DEF Account
  <2>2. EntriesInv'
    BY <1>1, <2>1 DEF EntriesInv
  <2> DEFINE a == [k \in Keys |-> 0]
  <2>3. SumFunctionOnSet(a, Keys) = 0
    <3> HIDE DEF a
    <3>1. \A k \in Keys : a[k] = 0
      BY DEF a
    <3>2. QED
      BY <3>1, SumZero, ConstantsAssumption
  <2>4. Accounts(a)'
    BY <1>1, <2>3 DEF Accounts
  <2>5. QED
    BY <2>2, <2>4 DEF TotalInv
<1>3. VictimInv' /\ NotLess'
  BY <1>1 DEF VictimInv, NotLess
<1>4. QED
  BY <1>2, <1>3 DEF AInv

\* Before its rename no file of a writer is at a path.
LEMMA SizesKept ==
  ASSUME IInv, NEW w \in Writers, pc[w] = "idle", NEW bytes, file' = [file EXCEPT ![w] = bytes],
         UNCHANGED disk
  PROVE  \A k \in Keys : SizeAt(k)' = SizeAt(k)
<1> SUFFICES ASSUME NEW k \in Keys PROVE SizeAt(k)' = SizeAt(k)
  OBVIOUS
<1>1. disk[k] # None => disk[k] # w /\ disk[k] \in Writers
  BY DEF IInv, Types, DiskInv
<1>2. disk[k] # None => file'[disk[k]] = file[disk[k]]
  BY <1>1 DEF IInv, Types
<1>3. QED
  BY <1>2 DEF SizeAt

\* An entry is listed.
LEMMA ListAInv == ASSUME IInv, TInv, AInv, NEW k \in Keys, List(k) PROVE AInv'
<1>0. /\ IsFiniteSet(Keys) /\ None \notin Listed
      /\ unlisted' = unlisted \ {k} /\ k \in unlisted
      /\ UNCHANGED <<disk, file, victim, spared, raced>>
  BY ConstantsAssumption DEF List
<1>1. victim = None
  BY <1>0 DEF AInv, VictimInv
<1>2. \A j \in Keys : SizeAt(j)' = SizeAt(j)
  BY <1>0 DEF SizeAt
<1>3. CASE disk[k] = None
  <2>1. UNCHANGED <<left, total>> /\ Account' = Account
    BY <1>0, <1>3 DEF List, Account
  <2>2. EntriesInv'
    BY <1>0, <2>1 DEF AInv, EntriesInv
  <2>3. TotalInv'
    BY <2>1 DEF AInv, TotalInv, Accounts
  <2>4. VictimInv'
    BY <1>0, <1>1 DEF VictimInv
  <2>5. NotLess'
    BY <1>0, <1>2, <2>1, AccountType DEF AInv, NotLess
  <2>6. QED
    BY <2>2, <2>3, <2>4, <2>5 DEF AInv
<1>4. CASE disk[k] # None
  <2> DEFINE n == Noted(k)
             z == Len(file[disk[k]])
  <2>1. n \in Listed /\ n.key = k /\ n.size = z /\ z \in Nat /\ SizeAt(k) = z
    BY <1>4, NotedType DEF SizeAt
  <2>2. left' = left \cup {n} /\ total' = total + z
    BY <1>4 DEF List, Noted
  <2> HIDE DEF n, z
  <2>3. Account' = Account \cup {n}
    BY <1>0, <1>1, <2>2 DEF Account
  <2>4. \A e \in Account : e.key # k
    BY <1>0 DEF AInv, EntriesInv
  <2>5. EntriesInv'
    <3>1. \A e \in Account' : e.key \notin unlisted'
      BY <1>0, <2>1, <2>3 DEF AInv, EntriesInv
    <3>2. \A e, f \in Account' : e.key = f.key => e = f
      BY <2>1, <2>3, <2>4 DEF AInv, EntriesInv
    <3>3. n \notin spared /\ victim' # n
      BY <1>0, <1>1, <2>1, <2>4 DEF Account
    <3>4. QED
      BY <1>0, <1>1, <2>2, <3>1, <3>2, <3>3 DEF AInv, EntriesInv
  <2>6. TotalInv'
    <3>1. PICK a \in [Keys -> Nat] : Accounts(a)
      BY DEF AInv, TotalInv
    <3>2. PICK b \in [Keys -> Nat] : b[k] = z /\ \A j \in Keys : j # k => b[j] = a[j]
      <4>1. [a EXCEPT ![k] = z] \in [Keys -> Nat]
        BY <2>1
      <4>2. QED
        BY <4>1
    <3>0. a[k] = 0
      BY <2>4, <3>1 DEF Accounts
    <3>3. SumFunctionOnSet(b, Keys) = SumFunctionOnSet(a, Keys) - a[k] + b[k]
      <4>1. \A j \in Keys : a[j] \in Int /\ b[j] \in Int /\ (j # k => a[j] = b[j])
        BY <3>1, <3>2
      <4>2. QED
        BY <1>0, <4>1, SumUpdate
    <3>4. SumFunctionOnSet(a, Keys) \in Nat
      BY <1>0, <3>1, SumNat
    <3>5. total' = SumFunctionOnSet(b, Keys)
      BY <2>1, <2>2, <3>0, <3>1, <3>2, <3>3, <3>4 DEF Accounts
    <3>6. \A e \in Account' : b[e.key] = e.size
      BY <2>1, <2>3, <2>4, <3>1, <3>2, AccountType DEF Accounts
    <3>7. \A j \in Keys : (\A e \in Account' : e.key # j) => b[j] = 0
      BY <2>1, <2>3, <3>1, <3>2 DEF Accounts
    <3>8. Accounts(b)'
      BY <3>5, <3>6, <3>7 DEF Accounts
    <3>9. QED
      BY <3>2, <3>8 DEF TotalInv
  <2>7. VictimInv'
    BY <1>0, <1>1 DEF VictimInv
  <2>8. NotLess'
    BY <1>0, <1>2, <2>1, <2>3, AccountType DEF AInv, NotLess
  <2>9. QED
    BY <2>5, <2>6, <2>7, <2>8 DEF AInv
<1>5. QED
  BY <1>3, <1>4

\* An entry is passed over, or is the next to go.
LEMMA ExamineAInv == ASSUME TInv, AInv, NEW e \in left, Examine(e) PROVE AInv'
<1>0. /\ e \in Listed /\ e # None /\ victim = None /\ unlisted = {} /\ total > MaxCacheSize
      /\ left' = left \ {e} /\ \A f \in left : e.modified <= f.modified
      /\ UNCHANGED <<disk, file, unlisted, total, raced>>
  BY ConstantsAssumption DEF Examine, Evicting, IsNext, TInv, ScanTypes
<1>1. \/ spared' = spared \cup {e} /\ victim' = None
      \/ spared' = spared /\ victim' = e
  BY <1>0 DEF Examine
<1>2. Account' = Account
  BY <1>0, <1>1 DEF Account
<1>3. e \notin spared
  BY DEF AInv, EntriesInv
<1>4. EntriesInv'
  <2>1. left' \cap spared' = {}
    BY <1>0, <1>1, <1>3 DEF AInv, EntriesInv
  <2>2. victim' \notin left' \cup spared'
    BY <1>0, <1>1, <1>3 DEF AInv, EntriesInv
  <2>3. QED
    BY <1>0, <1>2, <2>1, <2>2 DEF AInv, EntriesInv
<1>5. TotalInv'
  BY <1>0, <1>2 DEF AInv, TotalInv, Accounts
<1>6. VictimInv'
  BY <1>0, <1>1 DEF VictimInv
<1>7. NotLess'
  BY <1>0, <1>2 DEF AInv, NotLess, SizeAt
<1>8. QED
  BY <1>4, <1>5, <1>6, <1>7 DEF AInv

\* The file is removed, and its size taken off.
LEMMA RemoveVictimAInv == ASSUME IInv, TInv, AInv, RemoveVictim PROVE AInv'
<1> DEFINE k == victim.key
           z == victim.size
<1>0. /\ IsFiniteSet(Keys) /\ victim # None /\ victim \in Account /\ k \in Keys /\ z \in Nat
      /\ victim' = None /\ disk' = [disk EXCEPT ![k] = None]
      /\ total' = (IF total >= z THEN total - z ELSE 0)
      /\ UNCHANGED <<file, unlisted, left, spared, raced>>
  BY ConstantsAssumption, AccountType DEF RemoveVictim, Account
<1>1. Account' = Account \ {victim}
  BY <1>0 DEF Account, AInv, EntriesInv
<1> HIDE DEF z
<1>2. \A e \in Account' : e \in Account /\ e.key # k /\ e.key \in Keys
  BY <1>0, <1>1, AccountType DEF AInv, EntriesInv
<1>3. EntriesInv'
  <2>1. left' \cap spared' = {} /\ victim' \notin left' \cup spared'
    <3>1. None \notin left \cup spared
      BY ConstantsAssumption DEF TInv, ScanTypes
    <3>2. QED
      BY <1>0, <3>1 DEF AInv, EntriesInv
  <2>2. QED
    BY <1>0, <1>2, <2>1 DEF AInv, EntriesInv
<1>4. TotalInv'
  <2>1. PICK a \in [Keys -> Nat] : Accounts(a)
    BY DEF AInv, TotalInv
  <2> HIDE DEF k
  <2>2. PICK b \in [Keys -> Nat] : b[k] = 0 /\ \A j \in Keys : j # k => b[j] = a[j]
    <3>1. [a EXCEPT ![k] = 0] \in [Keys -> Nat]
      OBVIOUS
    <3>2. QED
      BY <1>0, <3>1
  <2>0. a[k] = z
    BY <1>0, <2>1 DEF Accounts, k, z
  <2>3. SumFunctionOnSet(b, Keys) = SumFunctionOnSet(a, Keys) - a[k] + b[k]
    <3>1. \A j \in Keys : a[j] \in Int /\ b[j] \in Int /\ (j # k => a[j] = b[j])
      BY <2>1, <2>2
    <3>2. QED
      BY <1>0, <3>1, SumUpdate
  <2>4. SumFunctionOnSet(a, Keys) \in Nat /\ SumFunctionOnSet(b, Keys) \in Nat
    BY <1>0, <2>1, <2>2, SumNat
  <2>5. total' = SumFunctionOnSet(b, Keys)
    BY <1>0, <2>0, <2>1, <2>2, <2>3, <2>4 DEF Accounts
  <2>6. \A e \in Account' : b[e.key] = e.size
    BY <1>2, <2>1, <2>2 DEF Accounts
  <2>7. \A j \in Keys : (\A e \in Account' : e.key # j) => b[j] = 0
    <3> SUFFICES ASSUME NEW j \in Keys, \A e \in Account' : e.key # j PROVE b[j] = 0
      OBVIOUS
    <3>1. CASE j = k
      BY <2>2, <3>1
    <3>2. CASE j # k
      <4>1. \A e \in Account : e.key # j
        BY <1>1, <3>2 DEF k
      <4>2. QED
        BY <2>1, <2>2, <3>2, <4>1 DEF Accounts
    <3>3. QED
      BY <3>1, <3>2
  <2>8. Accounts(b)'
    BY <2>5, <2>6, <2>7 DEF Accounts
  <2>9. QED
    BY <2>2, <2>8 DEF TotalInv
<1>5. VictimInv'
  BY <1>0 DEF VictimInv
<1>6. NotLess'
  <2>1. \A j \in Keys : j # k => SizeAt(j)' = SizeAt(j)
    BY <1>0 DEF SizeAt, IInv, Types
  <2>2. QED
    BY <1>0, <1>2, <2>1 DEF AInv, NotLess
<1>7. QED
  BY <1>3, <1>4, <1>5, <1>6 DEF AInv

LEMMA RemoveFailsAInv == ASSUME TInv, AInv, RemoveFails PROVE AInv'
<1>0. /\ victim # None /\ victim' = None /\ spared' = spared \cup {victim}
      /\ UNCHANGED <<disk, file, unlisted, left, total, raced>>
  BY DEF RemoveFails
<1>1. Account' = Account
  BY <1>0 DEF Account
<1>2. None \notin left \cup spared
  BY ConstantsAssumption DEF TInv, ScanTypes
<1>3. EntriesInv'
  <2>1. left' \cap spared' = {} /\ victim' \notin left' \cup spared'
    BY <1>0, <1>2 DEF AInv, EntriesInv
  <2>2. QED
    BY <1>0, <1>1, <2>1 DEF AInv, EntriesInv
<1>4. TotalInv' /\ VictimInv'
  BY <1>0, <1>1 DEF AInv, TotalInv, Accounts, VictimInv
<1>5. NotLess'
  BY <1>0, <1>1 DEF AInv, NotLess, SizeAt
<1>6. QED
  BY <1>3, <1>4, <1>5 DEF AInv

\* No step of a writer, the janitor, a scan or a reader breaks the accounts.
LEMMA NextAInv == IInv /\ TInv /\ AInv /\ [Next]_vars => AInv'
<1> SUFFICES ASSUME IInv, TInv, AInv, [Next]_vars PROVE AInv'
  OBVIOUS
<1> USE DEF Races
<1>1. ASSUME UNCHANGED <<disk, file, scanVars>> PROVE AInv'
  BY <1>1, BesideAInv DEF SizeAt
<1>2. ASSUME NEW w \in Writers, Commit(w) \/ Store(w) PROVE AInv'
  <2>1. \A k \in Keys : SizeAt(k)' = SizeAt(k)
    BY <1>2, SizesKept DEF Commit, Store, Write
  <2>2. QED
    BY <1>2, <2>1, BesideAInv DEF Commit, Store
<1>3. ASSUME NEW w \in Writers, LengthLands(w) \/ RenameArtifact(w) \/ LateRename(w) PROVE AInv'
  BY <1>3, BesideAInv DEF LengthLands, RenameArtifact, LateRename
<1>4. ASSUME NEW w \in Writers, LengthFails(w) \/ DropPin(w) PROVE AInv'
  BY <1>1, <1>4 DEF LengthFails, DropPin
<1>5. ASSUME NEW w \in Writers, RenameMetadata(w) PROVE AInv'
  BY <1>5, ScanOfAInv DEF RenameMetadata, BeginScan
<1>6. ASSUME NEW w \in Writers, Cut(w) PROVE AInv'
  BY <1>1, <1>6, ScanOfAInv DEF Cut, EndScan
<1>7. ASSUME NEW k \in stray, LateRemoval(k) PROVE AInv'
  BY <1>7, BesideAInv DEF LateRemoval
<1>8. ASSUME Receive PROVE AInv'
  BY <1>1, <1>8 DEF Receive
<1>9. ASSUME JanitorLocks \/ ListFails \/ ScanEnds PROVE AInv'
  BY <1>9, ScanOfAInv DEF JanitorLocks, ListFails, ScanEnds, Leave, BeginScan, EndScan
<1>10. ASSUME NEW r \in Readers, (\E k \in Keys : Open(r, k)) \/ Size(r) \/ Footer(r) \/ ReadBody(r)
       PROVE  AInv'
  BY <1>1, <1>10 DEF Open, Size, Footer, ReadBody, Read
<1>11. CASE UNCHANGED vars
  BY <1>1, <1>11 DEF vars
<1>12. QED
  BY <1>2, <1>3, <1>4, <1>5, <1>6, <1>7, <1>8, <1>9, <1>10, <1>11, ListAInv, ExamineAInv,
     RemoveVictimAInv, RemoveFailsAInv
  DEF Next, Settled

\* All of it in every reachable state.
LEMMA ScanInvariance == SafeSpec => [](IInv /\ TInv /\ AInv)
<1>1. SafeSpec => []TInv
  BY InitTInv, NextTInv, Invariance, PTL DEF SafeSpec
<1>2. SafeSpec => []AInv
  BY <1>1, InitAInv, NextAInv, Invariance, PTL DEF SafeSpec
<1>3. QED
  BY <1>1, <1>2, Invariance, PTL

-------------------------------------------------------------------------------
\* A path is emptied by the scan, unless a removal was left over from another.
LEMMA OnlyScansEvict ==
  ASSUME IInv, [Next]_vars, NEW k \in Keys, disk[k] # None, disk'[k] = None, k \notin stray
  PROVE  RemoveVictim /\ k = victim.key
<1>1. ASSUME NEW w \in Writers, disk' = [disk EXCEPT ![KeyOf[w]] = w] PROVE FALSE
  BY <1>1, ConstantsAssumption DEF IInv, Types
<1>2. ASSUME UNCHANGED disk PROVE FALSE
  BY <1>2
<1>3. ASSUME NEW j \in stray, LateRemoval(j) PROVE FALSE
  BY <1>3 DEF LateRemoval, IInv, Types
<1>4. ASSUME RemoveVictim PROVE k = victim.key
  BY <1>4 DEF RemoveVictim, IInv, Types
<1>5. ASSUME NEW w \in Writers,
             \/ Commit(w) \/ LengthLands(w) \/ LengthFails(w) \/ RenameArtifact(w) \/ DropPin(w)
             \/ Store(w) \/ RenameMetadata(w) \/ Cut(w) \/ LateRename(w)
      PROVE  FALSE
  BY <1>1, <1>2, <1>5 DEF Commit, LengthLands, LengthFails, RenameArtifact, DropPin, Store,
     RenameMetadata, Cut, LateRename
<1>6. ASSUME \/ Receive \/ JanitorLocks \/ (\E j \in Keys : List(j)) \/ ListFails
             \/ (\E e \in left : Examine(e)) \/ RemoveFails \/ ScanEnds
      PROVE  FALSE
  BY <1>2, <1>6 DEF Receive, JanitorLocks, List, ListFails, Examine, RemoveFails, ScanEnds
<1>7. ASSUME NEW r \in Readers, (\E j \in Keys : Open(r, j)) \/ Size(r) \/ Footer(r) \/ ReadBody(r)
      PROVE  FALSE
  BY <1>2, <1>7 DEF Open, Size, Footer, ReadBody, Read
<1>8. CASE UNCHANGED vars
  BY <1>2, <1>8 DEF vars
<1>9. QED
  BY <1>3, <1>4, <1>5, <1>6, <1>7, <1>8 DEF Next, Settled

\* The sizes of the files, as a function.
Sizes == [k \in Keys |-> SizeAt(k)]

\* evict_files_to_bound removes an entry only while the files exceed the bound, or
\* artifacts are published beside it.
THEOREM EvictionsAreNeeded == SafeSpec => EvictsOnlyWhenOver
<1>1. ASSUME IInv, TInv, AInv, [Next]_vars,
             NEW k \in Keys, disk[k] # None, disk'[k] = None, k \notin stray, ~raced
      PROVE  Bytes > MaxCacheSize
  <2>1. victim # None /\ total > MaxCacheSize
    BY <1>1, OnlyScansEvict DEF RemoveVictim, AInv, VictimInv
  <2>2. PICK a \in [Keys -> Nat] : Accounts(a)
    BY <1>1 DEF AInv, TotalInv
  <2>3. \A j \in Keys : Sizes[j] = SizeAt(j) /\ SizeAt(j) \in Nat
    BY <1>1, SizeType DEF Sizes
  <2>4. ASSUME NEW j \in Keys PROVE a[j] <= SizeAt(j)
    <3>1. CASE \E e \in Account : e.key = j
      BY <1>1, <2>2, <3>1 DEF AInv, NotLess, Accounts
    <3>2. CASE \A e \in Account : e.key # j
      <4>1. a[j] = 0
        BY <2>2, <3>2 DEF Accounts
      <4>2. QED
        BY <2>3, <4>1
    <3>3. QED
      BY <3>1, <3>2
  <2>5. IsFiniteSet(Keys) /\ MaxCacheSize \in Nat
    BY ConstantsAssumption
  <2> HIDE DEF Sizes
  <2>6. \A j \in Keys : a[j] \in Int /\ Sizes[j] \in Int /\ a[j] <= Sizes[j]
    BY <2>2, <2>3, <2>4
  <2>7. SumFunctionOnSet(a, Keys) <= SumFunctionOnSet(Sizes, Keys)
    BY <2>5, <2>6, SumMonotone
  <2>8. SumFunctionOnSet(a, Keys) \in Int /\ SumFunctionOnSet(Sizes, Keys) \in Int
    BY <2>5, <2>6, SumInt
  <2>9. Bytes = SumFunctionOnSet(Sizes, Keys) /\ total = SumFunctionOnSet(a, Keys)
    BY <2>2 DEF Accounts, Bytes, Sizes
  <2>10. QED
    BY <2>1, <2>5, <2>7, <2>8, <2>9
<1>2. IInv /\ TInv /\ AInv /\ [Next]_vars =>
        [(\E k \in Keys : disk[k] # None /\ disk'[k] = None /\ k \notin stray)
           => Bytes > MaxCacheSize \/ raced]_vars
  BY <1>1
<1>3. QED
  BY <1>2, ScanInvariance, PTL DEF SafeSpec, EvictsOnlyWhenOver

\* Of what a scan has still before it, it removes the oldest.
THEOREM OldestGoesFirst == SafeSpec => OldestFirst
<1>1. ASSUME IInv, TInv, AInv, [Next]_vars, NEW k \in Keys, NEW j \in Keys,
             disk[k] # None, disk'[k] = None, k \notin stray,
             disk[j] # None, mtime[disk[j]] < mtime[disk[k]],
             victim.file = disk[k], victim.modified = mtime[disk[k]],
             NEW e \in left, e.file = disk[j], e.modified = mtime[disk[j]]
      PROVE  FALSE
  <2>1. victim # None
    BY <1>1, OnlyScansEvict DEF RemoveVictim
  <2>2. mtime[disk[k]] <= mtime[disk[j]]
    BY <1>1, <2>1 DEF AInv, VictimInv
  <2>3. mtime[disk[k]] \in Nat /\ mtime[disk[j]] \in Nat
    BY <1>1 DEF IInv, Types, TInv, ScanTypes
  <2>4. QED
    BY <1>1, <2>2, <2>3
<1>2. IInv /\ TInv /\ AInv /\ [Next]_vars =>
        [\A k, j \in Keys :
            /\ disk[k] # None /\ disk'[k] = None /\ k \notin stray
            /\ disk[j] # None /\ mtime[disk[j]] < mtime[disk[k]]
            => \/ \E e \in spared : e.key = j
               \/ victim.file # disk[k] \/ victim.modified # mtime[disk[k]]
               \/ ~\E e \in left : e.file = disk[j] /\ e.modified = mtime[disk[j]]]_vars
  BY <1>1
<1>3. QED
  BY <1>2, ScanInvariance, PTL DEF SafeSpec, OldestFirst

-------------------------------------------------------------------------------
(* The bound.                                                              *)

\* A scan by the janitor will follow: a publication has still to drop its pin, a
\* request waits, or the janitor does.
Pending == (\E k \in Keys : pins[k] # None) \/ queue = 1 \/ janitor = "lock"

\* No path the scan has been to holds more than it has noted.
NotMore == \A k \in Keys \ unlisted :
              SizeAt(k) = 0 \/ \E e \in Account : e.key = k /\ SizeAt(k) <= e.size

\* What is known of a run in which nothing was cut short, and no scan to follow:
\* scans miss nothing and pass over nothing, files that lack their length have
\* yet to be listed by the janitor, and between scans the bound holds.
Kept ==
    /\ lock # None => NotMore
    /\ spared = {}
    /\ \A w \in late : disk[KeyOf[w]] = w => lock = Janitor /\ KeyOf[w] \in unlisted
    /\ lock = None => Bytes <= MaxCacheSize

\* Renames and removals beside the lock are left over from a store cut short.
LeftoverInv == /\ \A w \in Writers : pc[w] = "renaming" => w \in cut
               /\ stray # {} => cut # {}

BInv == LeftoverInv /\ (cut = {} => Pending \/ Kept)

LEMMA SameBytes ==
  ASSUME \A k \in Keys : SizeAt(k)' = SizeAt(k)
  PROVE  Bytes' = Bytes
<1>1. Sizes' = Sizes
  BY DEF Sizes
<1>2. QED
  BY <1>1 DEF Bytes, Sizes

\* A step that leaves what is known as it is.
LEMMA KeptUnchanged ==
  ASSUME IInv, TInv, Kept, UNCHANGED <<disk, lock, unlisted, left, victim, spared>>,
         late' \subseteq late, \A k \in Keys : SizeAt(k)' = SizeAt(k)
  PROVE  Kept'
<1>1. Account' = Account
  BY DEF Account
<1>2. NotMore' <=> NotMore
  BY <1>1 DEF NotMore
<1>3. Bytes' = Bytes
  BY SameBytes
<1>4. QED
  BY <1>2, <1>3 DEF Kept

\* A scan begins: nothing is listed yet.
LEMMA BeginKept ==
  ASSUME BeginScan, lock' # None, late' \subseteq Writers,
         \A w \in late' : disk'[KeyOf[w]] = w => lock' = Janitor
  PROVE  Kept'
<1>1. unlisted' = Keys /\ spared' = {}
  BY DEF BeginScan, ScanOf
<1>2. NotMore'
  BY <1>1 DEF NotMore
<1>3. \A w \in late' : disk'[KeyOf[w]] = w => lock' = Janitor /\ KeyOf[w] \in unlisted'
  BY <1>1, ConstantsAssumption
<1>4. QED
  BY <1>1, <1>2, <1>3 DEF Kept

LEMMA InitBInv == Init /\ Bytes <= MaxCacheSize => BInv
<1> SUFFICES ASSUME Init, Bytes <= MaxCacheSize PROVE BInv
  OBVIOUS
<1>1. LeftoverInv
  BY DEF Init, LeftoverInv
<1>2. lock = None /\ spared = {} /\ late = {}
  BY DEF Init
<1>3. QED
  BY <1>1, <1>2 DEF BInv, Kept

\* The last write of a file: it is noticed, or not listed yet.
LEMMA LengthLandsKept ==
  ASSUME IInv, TInv, Kept, NEW w \in Writers, LengthLands(w) PROVE Kept'
<1>1. /\ w \in late /\ late' = late \ {w} /\ \E bytes : file' = [file EXCEPT ![w] = bytes]
      /\ UNCHANGED <<disk, lock, unlisted, left, total, victim, spared>>
  BY DEF LengthLands, Write, Races
<1>2. ASSUME NEW k \in Keys, disk[k] # w PROVE SizeAt(k)' = SizeAt(k)
  <2>1. disk[k] # None => file'[disk[k]] = file[disk[k]]
    BY <1>1, <1>2 DEF IInv, Types
  <2>2. QED
    BY <1>1, <2>1 DEF SizeAt
<1>3. ASSUME NEW k \in Keys, disk[k] = w PROVE lock = Janitor /\ k \in unlisted
  <2>1. KeyOf[w] = k
    BY <1>3, ConstantsAssumption DEF IInv, DiskInv
  <2>2. QED
    BY <1>1, <1>3, <2>1 DEF Kept
<1>4. Account' = Account
  BY <1>1 DEF Account
<1>5. NotMore => NotMore'
  BY <1>1, <1>2, <1>3, <1>4 DEF NotMore
<1>6. lock = None => Bytes' = Bytes
  <2>1. Janitor # None
    BY ConstantsAssumption
  <2>2. QED
    BY <1>2, <1>3, <2>1, SameBytes
<1>7. QED
  BY <1>1, <1>5, <1>6 DEF Kept

\* The entry of a path is noted at the size it has.
LEMMA ListKept ==
  ASSUME IInv, TInv, AInv, Kept, NEW k \in Keys, List(k), cut' = {} PROVE Kept'
<1>1. /\ unlisted' = unlisted \ {k} /\ k \in unlisted /\ disk[k] \notin late
      /\ UNCHANGED <<disk, file, late, lock, victim, spared>>
  BY DEF List
<1>2. lock # None /\ lock' # None
  BY <1>1, Holds
<1>3. \A j \in Keys : SizeAt(j)' = SizeAt(j)
  BY <1>1 DEF SizeAt
<1>4. Account \subseteq Account'
  BY <1>1 DEF List, Account
<1>5. SizeAt(k) = 0 \/ \E e \in Account' : e.key = k /\ SizeAt(k) <= e.size
  <2>1. CASE disk[k] = None
    BY <2>1 DEF SizeAt
  <2>2. CASE disk[k] # None
    <3>1. left' = left \cup {Noted(k)}
      BY <2>2 DEF List, Noted
    <3>2. Noted(k) \in Account'
      BY <3>1 DEF Account
    <3>3. Noted(k).key = k /\ Noted(k).size = SizeAt(k) /\ SizeAt(k) \in Nat
      BY <2>2, NotedType, SizeType DEF SizeAt
    <3> HIDE DEF Noted
    <3>4. QED
      BY <3>2, <3>3
  <2>3. QED
    BY <2>1, <2>2
<1>6. NotMore'
  <2> SUFFICES ASSUME NEW j \in Keys \ unlisted'
               PROVE  SizeAt(j) = 0 \/ \E e \in Account' : e.key = j /\ SizeAt(j) <= e.size
    BY <1>3 DEF NotMore
  <2>1. CASE j = k
    BY <1>5, <2>1
  <2>2. CASE j # k
    BY <1>1, <1>2, <1>4, <2>2 DEF Kept, NotMore
  <2>3. QED
    BY <2>1, <2>2
<1>7. ASSUME NEW w \in late, disk[KeyOf[w]] = w PROVE lock = Janitor /\ KeyOf[w] \in unlisted'
  BY <1>1, <1>7 DEF Kept
<1>8. QED
  BY <1>1, <1>2, <1>6, <1>7 DEF Kept

\* An entry is examined; where it is passed over, its pin is still to go.
LEMMA ExamineKept ==
  ASSUME IInv, TInv, Kept, NEW e \in left, Examine(e) PROVE Pending' \/ Kept'
<1>0. e \in Listed /\ e # None /\ e.key \in Keys /\ victim = None
  BY ConstantsAssumption DEF Examine, Evicting, TInv, ScanTypes, Listed
<1>1. CASE pins[e.key] # None
  BY <1>0, <1>1 DEF Examine, Pending
<1>2. CASE pins[e.key] = None
  <2>1. /\ left' = left \ {e} /\ victim' = e
        /\ UNCHANGED <<disk, file, late, lock, unlisted, spared>>
    BY <1>2 DEF Examine
  <2>2. Account' = Account
    BY <1>0, <2>1 DEF Account
  <2>3. \A k \in Keys : SizeAt(k)' = SizeAt(k)
    BY <2>1 DEF SizeAt
  <2>4. NotMore' <=> NotMore
    BY <2>1, <2>2, <2>3 DEF NotMore
  <2>5. Bytes' = Bytes
    BY <2>3, SameBytes
  <2>6. QED
    BY <2>1, <2>4, <2>5 DEF Kept
<1>3. QED
  BY <1>1, <1>2

\* The victim goes, from the directory and from the account.
LEMMA RemoveVictimKept ==
  ASSUME IInv, TInv, AInv, Kept, RemoveVictim PROVE Kept'
<1> DEFINE k == victim.key
<1>0. /\ victim # None /\ k \in Keys /\ disk' = [disk EXCEPT ![k] = None] /\ victim' = None
      /\ UNCHANGED <<file, late, lock, unlisted, left, spared>>
  BY AccountType DEF RemoveVictim, Account
<1>1. lock # None /\ lock' # None
  BY <1>0, Holds
<1>2. Account' = Account \ {victim}
  BY <1>0 DEF Account, AInv, EntriesInv
<1> HIDE DEF k
<1>3. \A j \in Keys : SizeAt(j)' = IF j = k THEN 0 ELSE SizeAt(j)
  BY <1>0 DEF SizeAt, IInv, Types
<1>4. NotMore'
  <2> SUFFICES ASSUME NEW j \in Keys \ unlisted
               PROVE  SizeAt(j)' = 0 \/ \E e \in Account' : e.key = j /\ SizeAt(j)' <= e.size
    BY <1>0 DEF NotMore
  <2>1. CASE j = k
    BY <1>3, <2>1
  <2>2. CASE j # k
    <3>1. SizeAt(j) = 0 \/ \E e \in Account : e.key = j /\ SizeAt(j) <= e.size
      BY <1>1 DEF Kept, NotMore
    <3>2. \A e \in Account : e.key = j => e \in Account'
      BY <1>2, <2>2 DEF k
    <3>3. QED
      BY <1>3, <2>2, <3>1, <3>2
  <2>3. QED
    BY <2>1, <2>2
<1>5. ASSUME NEW w \in late, disk'[KeyOf[w]] = w PROVE lock = Janitor /\ KeyOf[w] \in unlisted
  <2>1. w \in Writers /\ w # None /\ KeyOf[w] \in Keys
    BY ConstantsAssumption DEF IInv, Types
  <2>2. disk[KeyOf[w]] = w
    BY <1>0, <1>5, <2>1 DEF IInv, Types
  <2>3. QED
    BY <2>2 DEF Kept
<1>6. QED
  BY <1>0, <1>1, <1>4, <1>5 DEF Kept

\* The scan ends within the bound: it has noted all there is, and where it came to
\* the end of the list it has removed all it noted.
LEMMA ScanEndsKept ==
  ASSUME IInv, TInv, AInv, Kept, ScanEnds PROVE Kept'
<1>0. /\ lock # None /\ unlisted = {} /\ victim = None /\ spared = {}
      /\ total <= MaxCacheSize \/ left = {}
      /\ lock' = None /\ spared' = {} /\ UNCHANGED <<disk, file, late>>
  BY DEF ScanEnds, Evicting, Leave, EndScan, ScanOf, Kept
<1>1. PICK a \in [Keys -> Nat] : Accounts(a)
  BY DEF AInv, TotalInv
<1>2. \A j \in Keys : Sizes[j] = SizeAt(j) /\ SizeAt(j) \in Nat
  BY SizeType DEF Sizes
<1>3. ASSUME NEW j \in Keys PROVE Sizes[j] <= a[j]
  <2>1. SizeAt(j) = 0 \/ \E e \in Account : e.key = j /\ SizeAt(j) <= e.size
    BY <1>0 DEF Kept, NotMore
  <2>2. CASE SizeAt(j) = 0
    BY <1>1, <1>2, <2>2
  <2>3. CASE \E e \in Account : e.key = j /\ SizeAt(j) <= e.size
    BY <1>1, <1>2, <2>3 DEF Accounts
  <2>4. QED
    BY <2>1, <2>2, <2>3
<1>4. IsFiniteSet(Keys) /\ MaxCacheSize \in Nat
  BY ConstantsAssumption
<1> HIDE DEF Sizes
<1>5. \A j \in Keys : Sizes[j] \in Int /\ a[j] \in Int /\ Sizes[j] <= a[j]
  BY <1>1, <1>2, <1>3
<1>6. SumFunctionOnSet(Sizes, Keys) <= SumFunctionOnSet(a, Keys)
  BY <1>4, <1>5, SumMonotone
<1>7. SumFunctionOnSet(a, Keys) \in Int /\ SumFunctionOnSet(Sizes, Keys) \in Int
  BY <1>4, <1>5, SumInt
<1>8. Bytes = SumFunctionOnSet(Sizes, Keys) /\ total = SumFunctionOnSet(a, Keys)
  BY <1>1 DEF Accounts, Bytes, Sizes
<1>9. total <= MaxCacheSize
  <2>1. CASE left = {}
    <3>1. Account = {}
      BY <1>0, <2>1 DEF Account
    <3>2. \A j \in Keys : a[j] = 0
      BY <1>1, <3>1 DEF Accounts
    <3>3. total = 0
      BY <1>4, <1>8, <3>2, SumZero
    <3>4. QED
      BY <1>4, <3>3
  <2>2. QED
    BY <1>0, <2>1
<1>10. Bytes <= MaxCacheSize
  BY <1>4, <1>6, <1>7, <1>8, <1>9
<1>11. Bytes' = Bytes
  <2>1. \A k \in Keys : SizeAt(k)' = SizeAt(k)
    BY <1>0 DEF SizeAt
  <2>2. QED
    BY <2>1, SameBytes
<1>12. \A w \in late : disk[KeyOf[w]] # w
  BY <1>0 DEF Kept
<1>13. QED
  BY <1>0, <1>10, <1>11, <1>12 DEF Kept

\* Renames and removals beside the lock need a store that was cut short.
LEMMA NextLeftover == IInv /\ TInv /\ LeftoverInv /\ [Next]_vars => LeftoverInv'
<1> SUFFICES ASSUME IInv, TInv, LeftoverInv, [Next]_vars PROVE LeftoverInv'
  OBVIOUS
<1>0. pc \in [Writers -> {"idle", "rename", "pinned", "lock", "renaming", "scan", "done", "cut"}]
  BY DEF IInv, Types
<1>1. ASSUME cut \subseteq cut', stray' \subseteq stray,
             \A v \in Writers : pc'[v] = "renaming" => pc[v] = "renaming"
      PROVE  LeftoverInv'
  BY <1>1 DEF LeftoverInv
<1>2. ASSUME NEW w \in Writers,
             \/ Commit(w) \/ LengthLands(w) \/ LengthFails(w) \/ RenameArtifact(w) \/ DropPin(w)
             \/ Store(w) \/ RenameMetadata(w) \/ LateRename(w)
      PROVE  LeftoverInv'
  BY <1>0, <1>1, <1>2 DEF Commit, LengthLands, LengthFails, RenameArtifact, DropPin, Store,
     RenameMetadata, LateRename
<1>3. ASSUME NEW w \in Writers, Cut(w) PROVE LeftoverInv'
  <2>1. cut' = cut \cup {w}
    BY <1>3 DEF Cut
  <2>2. \A v \in Writers : pc'[v] = "renaming" => v = w \/ pc[v] = "renaming"
    BY <1>0, <1>3 DEF Cut
  <2>3. QED
    BY <2>1, <2>2 DEF LeftoverInv
<1>4. ASSUME NEW k \in stray, LateRemoval(k) PROVE LeftoverInv'
  BY <1>1, <1>4 DEF LateRemoval
<1>5. ASSUME \/ Receive \/ JanitorLocks \/ (\E j \in Keys : List(j))
             \/ (\E e \in left : Examine(e)) \/ RemoveVictim \/ RemoveFails
      PROVE  LeftoverInv'
  BY <1>1, <1>5 DEF Receive, JanitorLocks, List, Examine, RemoveVictim, RemoveFails
<1>6. ASSUME ListFails \/ ScanEnds PROVE LeftoverInv'
  <2>1. \A v \in Writers : pc'[v] = "renaming" => pc[v] = "renaming"
    BY <1>0, <1>6 DEF ListFails, ScanEnds, Leave
  <2>2. QED
    BY <1>1, <1>6, <2>1 DEF ListFails, ScanEnds
<1>7. ASSUME NEW r \in Readers, (\E j \in Keys : Open(r, j)) \/ Size(r) \/ Footer(r) \/ ReadBody(r)
      PROVE  LeftoverInv'
  BY <1>1, <1>7 DEF Open, Size, Footer, ReadBody, Read
<1>8. CASE UNCHANGED vars
  BY <1>1, <1>8 DEF vars
<1>9. QED
  BY <1>2, <1>3, <1>4, <1>5, <1>6, <1>7, <1>8 DEF Next, Settled

\* As long as nothing is cut short, a scan is to follow or the bound is kept.
LEMMA NextBInv == IInv /\ TInv /\ AInv /\ BInv /\ [Next]_vars => BInv'
<1> SUFFICES ASSUME IInv, TInv, AInv, LeftoverInv, cut = {} => Pending \/ Kept,
                    [Next]_vars, cut' = {}
             PROVE  Pending' \/ Kept'
  BY NextLeftover DEF BInv
<1> USE DEF Races
<1>0. /\ late \subseteq Writers /\ KeyOf \in [Writers -> Keys]
      /\ Janitor # None /\ None \notin Writers /\ Janitor \notin Writers
      /\ disk \in [Keys -> Writers \cup {None}] /\ pins \in [Keys -> Writers \cup {None}]
  BY ConstantsAssumption DEF IInv, Types, TInv, ScanTypes
<1>1. ASSUME cut = {}, UNCHANGED <<pins, queue, janitor>>, Kept => Kept' PROVE Pending' \/ Kept'
  BY <1>1 DEF Pending
<1>2. ASSUME UNCHANGED <<disk, file, pins, queue, janitor, lock, unlisted, left, victim, spared>>,
             cut' = cut, late' \subseteq late
      PROVE  Pending' \/ Kept'
  <2>1. \A k \in Keys : SizeAt(k)' = SizeAt(k)
    BY <1>2 DEF SizeAt
  <2>2. QED
    BY <1>1, <1>2, <2>1, KeptUnchanged
<1>3. ASSUME NEW w \in Writers, Commit(w) PROVE Pending' \/ Kept'
  <2>1. pins'[KeyOf[w]] # None
    BY <1>0, <1>3 DEF Commit
  <2>2. QED
    BY <1>0, <2>1 DEF Pending
<1>4. ASSUME NEW w \in Writers, LengthLands(w) PROVE Pending' \/ Kept'
  <2>1. cut = {} /\ UNCHANGED <<pins, queue, janitor>>
    BY <1>4 DEF LengthLands
  <2>2. QED
    BY <1>1, <1>4, <2>1, LengthLandsKept
<1>5. ASSUME NEW w \in Writers, LengthFails(w) PROVE Pending' \/ Kept'
  BY <1>2, <1>5 DEF LengthFails
<1>6. ASSUME NEW w \in Writers, RenameArtifact(w) PROVE Pending' \/ Kept'
  <2>1. pins[KeyOf[w]] = w /\ UNCHANGED pins
    BY <1>6 DEF RenameArtifact, TInv, PinInv
  <2>2. QED
    BY <1>0, <2>1 DEF Pending
<1>7. ASSUME NEW w \in Writers, DropPin(w) PROVE Pending' \/ Kept'
  <2>1. CASE pins[KeyOf[w]] = w
    BY <1>7, <2>1 DEF DropPin, Pending
  <2>2. CASE pins[KeyOf[w]] # w
    BY <1>2, <1>7, <2>2 DEF DropPin
  <2>3. QED
    BY <2>1, <2>2
<1>8. ASSUME NEW w \in Writers, Store(w) PROVE Pending' \/ Kept'
  <2>1. \A k \in Keys : SizeAt(k)' = SizeAt(k)
    BY <1>8, SizesKept DEF Store, Write
  <2>2. cut = {} /\ UNCHANGED <<disk, late, pins, queue, janitor, lock, unlisted, left, victim,
                                spared>>
    BY <1>8 DEF Store
  <2>3. QED
    BY <1>1, <2>1, <2>2, KeptUnchanged
<1>9. ASSUME NEW w \in Writers, RenameMetadata(w) PROVE Pending' \/ Kept'
  <2>1. /\ cut = {} /\ UNCHANGED <<late, pins, queue, janitor>> /\ lock = None /\ lock' = w
        /\ disk' = [disk EXCEPT ![KeyOf[w]] = w] /\ BeginScan
    BY <1>9 DEF RenameMetadata
  <2>2. w \notin late
    BY <1>9, WriterFacts DEF RenameMetadata, IInv, FilesInv, MayLackLength
  <2>3. ASSUME Kept, NEW v \in late PROVE disk'[KeyOf[v]] # v
    <3>1. disk[KeyOf[v]] # v
      BY <1>0, <2>1, <2>3 DEF Kept
    <3>2. QED
      BY <1>0, <2>1, <2>2, <3>1
  <2>4. Kept => Kept'
    BY <1>0, <2>1, <2>3, BeginKept
  <2>5. QED
    BY <1>1, <2>1, <2>4
<1>10. ASSUME NEW w \in Writers, Cut(w) PROVE FALSE
  BY <1>10 DEF Cut
<1>11. ASSUME NEW w \in Writers, LateRename(w) PROVE FALSE
  BY <1>11 DEF LateRename, LeftoverInv
<1>12. ASSUME NEW k \in stray, LateRemoval(k) PROVE FALSE
  BY <1>12 DEF LateRemoval, LeftoverInv
<1>13. ASSUME Receive PROVE Pending'
  BY <1>13 DEF Receive, Pending
<1>14. ASSUME JanitorLocks PROVE Kept'
  <2>1. BeginScan /\ lock' = Janitor /\ UNCHANGED late
    BY <1>14 DEF JanitorLocks
  <2>2. QED
    BY <1>0, <2>1, BeginKept
<1>15. ASSUME NEW k \in Keys, List(k) PROVE Pending' \/ Kept'
  <2>1. cut = {} /\ UNCHANGED <<pins, queue, janitor>>
    BY <1>15 DEF List
  <2>2. QED
    BY <1>1, <1>15, <2>1, ListKept
<1>16. ASSUME ListFails \/ RemoveFails PROVE FALSE
  BY <1>16 DEF ListFails, RemoveFails
<1>17. ASSUME NEW e \in left, Examine(e) PROVE Pending' \/ Kept'
  <2>1. cut = {} /\ UNCHANGED <<pins, queue, janitor>>
    BY <1>17 DEF Examine
  <2>2. CASE Pending
    BY <2>1, <2>2 DEF Pending
  <2>3. CASE Kept
    BY <1>17, <2>3, ExamineKept
  <2>4. QED
    BY <2>1, <2>2, <2>3
<1>18. ASSUME RemoveVictim PROVE Pending' \/ Kept'
  <2>1. cut = {} /\ UNCHANGED <<pins, queue, janitor>>
    BY <1>18 DEF RemoveVictim
  <2>2. QED
    BY <1>1, <1>18, <2>1, RemoveVictimKept
<1>19. ASSUME ScanEnds PROVE Pending' \/ Kept'
  <2>1. cut = {} /\ UNCHANGED <<pins, queue>>
    BY <1>19 DEF ScanEnds
  <2>2. janitor = "lock" => janitor' = "lock"
    BY <1>19 DEF ScanEnds, Leave, TInv, HoldInv
  <2>3. CASE Pending
    BY <2>1, <2>2, <2>3 DEF Pending
  <2>4. CASE Kept
    BY <1>19, <2>4, ScanEndsKept
  <2>5. QED
    BY <2>1, <2>3, <2>4
<1>20. ASSUME NEW r \in Readers, (\E j \in Keys : Open(r, j)) \/ Size(r) \/ Footer(r) \/ ReadBody(r)
       PROVE  Pending' \/ Kept'
  BY <1>2, <1>20 DEF Open, Size, Footer, ReadBody, Read
<1>21. CASE UNCHANGED vars
  BY <1>2, <1>21 DEF vars
<1>22. QED
  BY <1>3, <1>4, <1>5, <1>6, <1>7, <1>8, <1>9, <1>10, <1>11, <1>12, <1>13, <1>14, <1>15, <1>16,
     <1>17, <1>18, <1>19, <1>20, <1>21
  DEF Next, Settled

\* From a cache within the bound, which CacheStore::new leaves unless a removal
\* fails: whenever nothing is under way and nothing was cut short, the files fit
\* again, for any entries, writers and interleavings of scans and publications.
THEOREM BoundIsRestored == SafeSpec /\ Bytes <= MaxCacheSize => []BoundWhenUncut
<1>1. IInv /\ TInv /\ AInv /\ BInv => BoundWhenUncut
  <2> SUFFICES ASSUME IInv, TInv, BInv, Quiet, cut = {} PROVE Bytes <= MaxCacheSize
    BY DEF BoundWhenUncut
  <2>1. ASSUME NEW k \in Keys PROVE pins[k] = None
    <3>1. pins[k] \in Writers \cup {None}
      BY DEF TInv, ScanTypes
    <3>2. QED
      BY <3>1 DEF TInv, PinInv, Quiet
  <2>2. ~Pending
    BY <2>1 DEF Pending, Quiet
  <2>3. QED
    BY <2>2 DEF BInv, Kept, Quiet
<1>2. SafeSpec /\ Bytes <= MaxCacheSize => []BInv
  BY InitBInv, NextBInv, ScanInvariance, PTL DEF SafeSpec
<1>3. QED
  BY <1>1, <1>2, ScanInvariance, PTL
===============================================================================
