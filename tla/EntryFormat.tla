----------------------------- MODULE EntryFormat -----------------------------
(***************************************************************************)
(* The packed entry (src/src/cache.rs): the body, the serialized           *)
(* StoredResponseMeta, and the length of the latter in four bytes, most    *)
(* significant first.  A file is the sequence of its bytes.                *)
(***************************************************************************)
EXTENDS Naturals, Sequences

CONSTANTS Metas,    \* the byte sequences parse_meta accepts
          Invalid   \* io::ErrorKind::InvalidData

Byte == 0 .. 255
FooterLen == 4
MaxMetaLen == 1048576

\* serialize_meta refuses more than MaxMetaLen bytes, and its text ends like
\* "status":200} in at least four printable characters.
ASSUME MetasAssumption ==
    /\ \A m \in Metas : /\ m \in Seq(Byte)
                        /\ FooterLen <= Len(m) /\ Len(m) <= MaxMetaLen
                        /\ \A i \in Len(m) - 3 .. Len(m) : m[i] \in 32 .. 126
    /\ Invalid \notin [meta : Metas, bodyLen : Nat]

\* u32::to_be_bytes and u32::from_be_bytes.
ToBe(n) == <<(n \div 16777216) % 256, (n \div 65536) % 256, (n \div 256) % 256, n % 256>>
FromBe(f) == 16777216 * f[1] + 65536 * f[2] + 256 * f[3] + f[4]

\* What commit_artifact has written when it drops the file without a flush, and
\* the complete entry.
Unfinished(body, meta) == body \o meta
Pack(body, meta) == Unfinished(body, meta) \o ToBe(Len(meta))

\* footer_geometry, for a length it accepts.
BodyLen(size, metaLen) == size - FooterLen - metaLen

\* read_footer on a file that had the given size when it was asked for: the
\* metadata and the length of the body, or Invalid.
ReadFooter(file, size) ==
    IF size < FooterLen
      THEN Invalid
      ELSE LET metaLen == FromBe(SubSeq(file, size - FooterLen + 1, size))
               bodyLen == BodyLen(size, metaLen)
               meta == SubSeq(file, bodyLen + 1, bodyLen + metaLen)
           IN  IF metaLen > MaxMetaLen \/ metaLen > size - FooterLen \/ meta \notin Metas
                 THEN Invalid
                 ELSE [meta |-> meta, bodyLen |-> bodyLen]
===============================================================================
