----------------------------- MODULE MCCircuitMap -----------------------------
(* CircuitMap on a small instance.  The files are put together from records:   *)
(* one has a false marker before its control records, a scene among them and   *)
(* more outputs for one of the modules than the map has room for; one has      *)
(* outputs for both modules, and two sections that may be its loads; one has   *)
(* nothing but a false marker; one is shorter than a file may be.              *)
EXTENDS CircuitMap

CONSTANTS decoy, plain, junk, tiny  \* the files

Out(c, a, l, n, m) == [circuit |-> c, address |-> a, level |-> l, name |-> n, load |-> m]

\* Numbers of two and four bytes, and the parts of a file.
B2(n) == <<n % 256, n \div 256>>
B4(n) == B2(n % 65536) \o B2(n \div 65536)
Outs(q) == B4(2 + 5 * Len(q)) \o B2(Len(q))
             \o FlattenSeq([k \in DOMAIN q |-> B2(q[k][1]) \o B2(q[k][2]) \o <<0>>])
Record(c, name, commanders, outs) ==
  <<c, 0, 0, 0, 0, 0, 0, Len(name)>> \o name \o B4(Len(commanders)) \o commanders \o outs
Control(records) ==
  LET body == B2(Len(records)) \o <<8, 0, 5, 14>> \o FlattenSeq(records)
  IN B4(Len(body)) \o body
LoadOf(a, name) == B2(a) \o [i \in 1 .. 12 |-> 0] \o <<Len(name)>> \o name
LoadsOf(records) ==
  LET body == B2(Len(records)) \o <<15>> \o FlattenSeq(records)
  IN B4(Len(body)) \o body
Header == <<1, 1, 1, 1, 1, 1>>
Scene(c) == <<c, 0, 0, 0, 0, 0, 0, 0>> \o B4(0) \o B4(8) \o B2(1) \o B2(6156) \o B4(0)

\* Channel k of module d, and names of digits.
At(d, k) == 256 * d + k
one   == <<49, 50>>
two   == <<51, 52, 53>>

\* A marker that introduces no section: there is one record, and not two.
False == B4(29) \o B2(2) \o <<8, 0, 5, 14>>
           \o Record(13, <<>>, <<>>, Outs(<< <<At(24, 3), 9>> >>)) \o <<63>>

decoyRecords ==
  <<Scene(13),
    Record(13, two, <<7>>, Outs(<< <<At(24, 13), 777>>, <<At(24, 14), 1>> >>)),
    Record(5, <<>>, <<>>, Outs(<< <<At(24, 15), 0>>, <<At(25, 12), 0>> >>))>>
plainRecords ==
  <<Record(5, one, <<>>, Outs(<< <<At(24, 12), 9>> >>)),
    Record(13, <<>>, <<8, 0, 5, 14>>, Outs(<< <<At(25, 13), 9>> >>)),
    Record(5, <<>>, <<>>, Outs(<< <<At(24, 4), 9>> >>))>>
plainLoads ==
  LoadsOf(<<LoadOf(At(25, 13), one), LoadOf(At(24, 12), two)>>) \o LoadsOf(<<LoadOf(At(24, 12), one)>>)

MCBytes ==
  [f \in Files |->
     CASE f = decoy -> Header \o False \o Control(decoyRecords)
       [] f = plain -> Header \o plainLoads \o Control(plainRecords)
       [] f = junk  -> Header \o False
       [] OTHER     -> Header \o B2(8) \o <<1, 0, 8, 0, 5, 14>>]

\* Where the markers of the sections are, and where their records begin and end.
MCMarker ==
  [f \in Files |->
     CASE f = decoy -> Len(Header \o False) + 6
       [] f = plain -> Len(Header \o plainLoads) + 6
       [] OTHER     -> 0]

Starts(i, records) ==
  [k \in 1 .. Len(records) + 1 |-> i + 4 + Len(FlattenSeq(SubSeq(records, 1, k - 1)))]

MCStarts ==
  [f \in Files |->
     CASE f = decoy -> Starts(MCMarker[f], decoyRecords)
       [] f = plain -> Starts(MCMarker[f], plainRecords)
       [] OTHER     -> <<>>]

MCMeant ==
  [f \in Files |->
     CASE f = decoy ->
          <<Out(13, At(24, 13), 777, First(2, two), <<>>),
            Out(13, At(24, 14), 1, First(2, two), <<>>),
            Out(5, At(24, 15), 0, <<>>, <<>>), Out(5, At(25, 12), 0, <<>>, <<>>)>>
       [] f = plain ->
          <<Out(5, At(24, 12), 9, one, First(2, two)), Out(13, At(25, 13), 9, <<>>, one),
            Out(5, At(24, 4), 9, <<>>, <<>>)>>
       [] OTHER -> NoRecords]

\* The bytes of these files are as Legible asks; that Meant is what they say is for
\* the run to find out.
ASSUME FilesAreLaidOut == \A f \in Files : LaidOut(f, MCMarker[f], MCStarts[f])

MCFallback == [s \in Circuits |-> IF s = 13 THEN 1 ELSE 0]
=============================================================================
