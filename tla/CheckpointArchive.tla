----------------------------- MODULE CheckpointArchive -----------------------------
(***************************************************************************)
(* The checkpoint archive: a tar stream of a header, one document and the  *)
(* payload members of each entry in path order, and a summary with two     *)
(* digests.  The writer streams it from entries that were measured before, *)
(* the wire may damage it once, the reader accepts or refuses it.  A       *)
(* digest is the sequence of what was hashed.                              *)
(***************************************************************************)
EXTENDS Naturals, Sequences, SequencesExt

CONSTANTS
    Unit,       \* bytes of a full payload member
    MaxSize,    \* bound on the size of a file
    MaxEntries  \* bound on the entries

VARIABLES
    recs,    \* what is archived: [doc, given], the entry's document and the payload stream it comes with
    header,  \* the declared totals: [bytes, files]
    writer,  \* [pc, at, chunk, state]
    wire,    \* the members sent
    intact,  \* nothing damaged the wire
    reader   \* [pc, at, left, sum, state]

archiveFileVars == <<recs, header, writer, wire, intact, reader>>

Content == UNION {[1..k -> {0, 1}] : k \in 0..MaxSize}
Doc == [path : 1..MaxEntries, kind : {"directory"}, size : {0}, sum : {<<>>}]
       \cup {[path |-> p, kind |-> "file", size |-> Len(c), sum |-> c] : p \in 1..MaxEntries, c \in Content}
Total(rs) == FoldLeft(LAMBDA t, r : t + r.doc.size, 0, rs)
FreshState == [n |-> 0, prev |-> 0, bytes |-> 0, files |-> 0, manifest |-> <<>>, content |-> <<>>]

Streams(d) == IF d.kind # "file" THEN {<<>>}
              ELSE {d.sum, Append(d.sum, 1)} \cup (IF d.size = 0 THEN {} ELSE {[d.sum EXCEPT ![1] = 1 - @]})
\* The payload may be another one than the document describes, and the totals may be wrong.
ArchiveFileInit ==
    /\ recs \in UNION {[1..k -> UNION {{[doc |-> d, given |-> g] : g \in Streams(d)} : d \in Doc}] : k \in 0..MaxEntries}
    /\ header \in {[bytes |-> Total(recs), files |-> Len(recs)], [bytes |-> Total(recs) + 1, files |-> Len(recs)]}
    /\ writer = [pc |-> "header", at |-> 1, chunk |-> 0, state |-> FreshState] /\ wire = <<>> /\ intact = TRUE
    /\ reader = [pc |-> "wait", at |-> 1, left |-> 0, sum |-> <<>>, state |-> FreshState]

-----------------------------------------------------------------------------
(* archive-state: what writer, reader and the measurement share *)

\* record: strictly increasing paths, within the declared totals.
mayRecord(s, d) == d.path > s.prev /\ s.bytes + d.size <= header.bytes /\ s.files + 1 <= header.files
record(s, d) == [s EXCEPT !.n = @ + 1, !.prev = d.path, !.bytes = @ + d.size, !.files = @ + 1,
                          !.manifest = Append(@, d), !.content = Append(@, <<d.path, d.size>>)]
payload(s, bytes) == [s EXCEPT !.content = Append(@, bytes)]
totalsMatch(s) == s.bytes = header.bytes /\ s.files = header.files
summary(s) == [totals |-> header, manifest |-> s.manifest, content |-> FlattenSeq(s.content)]

\* measureCheckpointArchive: members, and payload bytes, counted from the documents alone.
memberCount(d) == 1 + (IF d.kind = "file" THEN (d.size \div Unit) + (IF d.size % Unit # 0 THEN 1 ELSE 0) ELSE 0)
measure == 3 + FoldLeft(LAMBDA t, r : t + memberCount(r.doc), 0, recs)

-----------------------------------------------------------------------------
(* The writer *)

Sends(m) == wire' = Append(wire, m)
keepReader == UNCHANGED <<recs, header, intact, reader>>
Abandon == writer' = [writer EXCEPT !.pc = "failed"] /\ UNCHANGED wire
Current == recs[writer.at]

writeHeader == writer.pc = "header" /\ Sends([checkpoint |-> header]) /\ writer' = [writer EXCEPT !.pc = "entry"] /\ keepReader
writeEntry ==
    /\ writer.pc = "entry" /\ writer.at <= Len(recs) /\ keepReader
    /\ IF ~mayRecord(writer.state, Current.doc) THEN Abandon
       ELSE /\ Sends([entry |-> Current.doc, index |-> writer.state.n])
            /\ writer' = [writer EXCEPT !.pc = IF Current.doc.kind = "file" THEN "payload" ELSE "entry",
                                        !.at = IF Current.doc.kind = "file" THEN @ ELSE @ + 1, !.chunk = 0,
                                        !.state = record(@, Current.doc)]
Piece(seq, k) == SubSeq(seq, k * Unit + 1, IF (k + 1) * Unit < Len(seq) THEN (k + 1) * Unit ELSE Len(seq))
\* payload: one member after another, then the stream must be at its end and hash to the document's digest.
writePayload ==
    /\ writer.pc = "payload" /\ keepReader
    /\ LET bytes == Piece(SubSeq(Current.given, 1, Current.doc.size), writer.chunk) IN
       IF writer.chunk * Unit < Current.doc.size
       THEN /\ Sends([payload |-> bytes, index |-> writer.state.n - 1, chunk |-> writer.chunk])
            /\ writer' = [writer EXCEPT !.chunk = @ + 1, !.state = payload(@, bytes)]
       ELSE IF Current.given # Current.doc.sum THEN Abandon
       ELSE writer' = [writer EXCEPT !.pc = "entry", !.at = @ + 1] /\ UNCHANGED wire
writeSummary ==
    /\ writer.pc = "entry" /\ writer.at > Len(recs) /\ keepReader
    /\ IF ~totalsMatch(writer.state) THEN Abandon
       ELSE wire' = wire \o <<[summary |-> summary(writer.state)], [end |-> 0]>> /\ writer' = [writer EXCEPT !.pc = "done"]

-----------------------------------------------------------------------------
(* The wire *)

Flip(m) == IF "payload" \in DOMAIN m THEN [m EXCEPT !.payload[1] = 1 - @] ELSE m
damage ==
    /\ writer.pc = "done" /\ reader.pc = "wait" /\ intact /\ intact' = FALSE /\ UNCHANGED <<recs, header, writer, reader>>
    /\ \E i \in DOMAIN wire :
          \/ wire' = RemoveAt(wire, i)
          \/ wire' = InsertAt(wire, i, wire[i])
          \/ wire' = SubSeq(wire, 1, i - 1)
          \/ i < Len(wire) /\ wire' = [wire EXCEPT ![i] = wire[i + 1], ![i + 1] = wire[i]]
          \/ "payload" \in DOMAIN wire[i] /\ wire' = [wire EXCEPT ![i] = Flip(@)]

-----------------------------------------------------------------------------
(* The reader *)

keepWriter == UNCHANGED <<recs, header, writer, wire, intact>>
Verdict(pc) == reader' = [reader EXCEPT !.pc = pc] /\ keepWriter
Remaining == reader.at <= Len(wire)
Is(name) == Remaining /\ name \in DOMAIN wire[reader.at]

readHeader ==
    /\ reader.pc = "wait" /\ writer.pc = "done"
    /\ IF Is("checkpoint") THEN reader' = [reader EXCEPT !.pc = "member", !.at = 2] /\ keepWriter ELSE Verdict("refused")
\* parseArchive: the next entry, in order, or the summary.
readEntry ==
    /\ reader.pc = "member" /\ ~Is("summary")
    /\ IF Is("entry") /\ wire[reader.at].index = reader.state.n /\ mayRecord(reader.state, wire[reader.at].entry)
       THEN LET d == wire[reader.at].entry IN
            /\ reader' = [reader EXCEPT !.pc = IF d.kind = "file" THEN "payload" ELSE "member", !.at = @ + 1,
                                        !.left = d.size, !.sum = <<>>, !.state = record(@, d)]
            /\ keepWriter
       ELSE Verdict("refused")
\* payload: every member has the size that is left, up to the unit; at the end the digest decides.
readPayload ==
    /\ reader.pc = "payload"
    /\ LET d == Last(reader.state.manifest)
           size == IF reader.left < Unit THEN reader.left ELSE Unit IN
       IF reader.left = 0
       THEN IF reader.sum = d.sum THEN Verdict("member") ELSE Verdict("refused")
       ELSE IF /\ Is("payload") /\ wire[reader.at].index = reader.state.n - 1
               /\ wire[reader.at].chunk = (d.size - reader.left) \div Unit /\ Len(wire[reader.at].payload) = size
       THEN LET bytes == wire[reader.at].payload IN
            /\ reader' = [reader EXCEPT !.at = @ + 1, !.left = @ - size, !.sum = @ \o bytes, !.state = payload(@, bytes)]
            /\ keepWriter
       ELSE Verdict("refused")
\* Mutant of readSummary: the archive ends with its summary.
SummaryIsTheEnd ==
    /\ reader.pc = "member" /\ Is("summary")
    /\ Verdict(IF totalsMatch(reader.state) /\ wire[reader.at].summary = summary(reader.state) THEN "accepted" ELSE "refused")
\* The summary is what was observed, then the two empty blocks and nothing more.
readSummary ==
    /\ reader.pc = "member" /\ Is("summary")
    /\ Verdict(IF /\ totalsMatch(reader.state) /\ wire[reader.at].summary = summary(reader.state)
                  /\ reader.at + 1 = Len(wire) /\ "end" \in DOMAIN wire[reader.at + 1]
               THEN "accepted" ELSE "refused")

ArchiveFileNext ==
    \/ writeHeader \/ writeEntry \/ writePayload \/ writeSummary
    \/ damage
    \/ readHeader \/ readEntry \/ readPayload \/ readSummary

-----------------------------------------------------------------------------
\* The reader and the writer agree on the format: what is accepted is exactly the entries with their content, the whole
\* stream included; a stream the writer completed and nobody damaged is never refused; and it has the measured length,
\* which is what the upload announced before the first byte was read.
ArchiveRoundTrips ==
    /\ reader.pc = "accepted" =>
          /\ reader.state.manifest = [i \in DOMAIN recs |-> recs[i].doc] /\ Len(wire) = measure
          /\ \A i \in DOMAIN recs : recs[i].given = recs[i].doc.sum \/ recs[i].doc.kind # "file"
    /\ intact => reader.pc # "refused"
    /\ (writer.pc = "done" /\ intact) => Len(wire) = measure
=============================================================================
