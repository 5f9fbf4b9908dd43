------------------------------- MODULE RunFile -------------------------------
(***************************************************************************)
(* RunRecording::save and load.  A file is the sequence of the items that  *)
(* put() writes; the numbers and the name of the header are one item.      *)
(* load() does not check the stream: what is missing reads as zero.        *)
(***************************************************************************)
EXTENDS Integers, Sequences, SequencesExt

Version == 5

\* What the structs are before anything is assigned; phys and the predictions of a frame are
\* the tick that they are about.
NoSummary == [violations |-> 0, softPct |-> 0, hard |-> 0, maxRolling |-> 0,
              oldest |-> -1, closest |-> -1]
NoFrame == [t |-> 0, ref |-> 0, error |-> 0, rolling |-> 0, flags |-> {}, phys |-> -1]
NoMeta == [cars |-> 0, decimation |-> 0, duration |-> 0]
CarPlant == [kind |-> "lateral", bounds |-> TRUE]

\* What the formats store: v3 added the path convention of the age, v4 the closest call, the
\* physical state and the predictions.
SummaryIn(version, s) ==
  [s EXCEPT !.oldest = IF version >= 3 THEN @ ELSE -1, !.closest = IF version >= 4 THEN @ ELSE -1]
FrameIn(version, f) == IF version >= 4 THEN f ELSE [f EXCEPT !.phys = -1]

\* A recording as save() writes it, and as the programs of the older formats did.
Layout(r, version) ==
  <<"CPSR", version, r.meta>> \o (IF version >= 5 THEN <<r.plant>> ELSE <<>>)
    \o <<Len(r.offsets)>> \o r.offsets
    \o <<Len(r.summary)>> \o [i \in DOMAIN r.summary |-> SummaryIn(version, r.summary[i])]
    \o <<Len(r.frames)>>
    \o FlattenSeq([v \in DOMAIN r.frames |->
         <<Len(r.frames[v])>> \o [i \in DOMAIN r.frames[v] |-> FrameIn(version, r.frames[v][i])]])

Rejected == [version |-> 0]

\* Fault: the format of a later program is read.
ReadableOnwards(version) == version >= 2

Readable(version) == version \in 2 .. Version

Load(file) ==
  LET item(i, default) == IF i <= Len(file) THEN file[i] ELSE default
      version == item(2, 0)
      offsetsAt == IF version >= 5 THEN 5 ELSE 4
      summaryAt == offsetsAt + item(offsetsAt, 0) + 1
      framesAt == summaryAt + item(summaryAt, 0) + 1
      cars == item(framesAt, 0)
      carAt[v \in 1 .. cars] ==
        IF v = 1 THEN framesAt + 1 ELSE LET before == carAt[v - 1] IN before + item(before, 0) + 1
  IN IF item(1, "") # "CPSR" \/ ~Readable(version) THEN Rejected
     ELSE [version |-> version,
           meta |-> item(3, NoMeta),
           plant |-> IF version >= 5 THEN item(4, [kind |-> "lateral", bounds |-> FALSE])
                     ELSE CarPlant,
           offsets |-> [i \in 1 .. summaryAt - offsetsAt - 1 |-> item(offsetsAt + i, 0)],
           summary |-> [i \in 1 .. framesAt - summaryAt - 1 |-> item(summaryAt + i, NoSummary)],
           frames |-> [v \in 1 .. cars |->
                         [i \in 1 .. item(carAt[v], 0) |-> item(carAt[v] + i, NoFrame)]]]
=============================================================================
