----------------------------- MODULE StartProofs -----------------------------
(***************************************************************************)
(* The start of a storage (run_migrations, apply_migration and             *)
(* ensure_embedding_indexes), for every workload: what the schema has is   *)
(* told by the version that is recorded and by the statement that each     *)
(* start has come to, however many starts were cut off, read the version   *)
(* wrongly or ran beside the start of another process.  The migrations     *)
(* are gone through statement by statement once (Script1 to Script25);     *)
(* from there on only the kind of a statement at its place counts (Kind).  *)
(***************************************************************************)
EXTENDS AccessProofs

\* What statement k of version v may be.
Kind(v, k, s) ==
    /\ s[1] \in {"define", "create", "remove", "vector", "dropVector", "backfill", "inspect",
                 "normalise", "record", "validate", "clear", "index", "mark"}
    /\ s[1] \in {"define", "create"} =>
         /\ v <= 24
         /\ s[2] = "streamName" => v = 3
         /\ s[2] = "nodes" => v \in {9, 10} \/ (v = 11 /\ k = 2)
         /\ s[2] \in {"nodeFields", "edgeFields"} => v \in {12, 13}
    /\ s[1] = "create" => v = 11 /\ k = 2 /\ s[2] = "nodes"
    /\ v = 9 /\ k = 1 => s = <<"define", "nodes">>
    /\ s[1] = "remove" => \/ v = 11 /\ k = 1 /\ s[2] = "nodes"
                          \/ v = 18 /\ k = 2 /\ s[2] = "streamName"
    /\ s[1] = "vector" => v = 5
    /\ s[1] = "dropVector" <=> v = 17 /\ k = 1
    /\ s[1] = "backfill" <=> v = 18 /\ k = 1
    /\ s[1] = "inspect" <=> v = 14 /\ k = 1
    /\ s[1] = "normalise" <=> v = 14 /\ k = 2
    /\ v = 18 /\ k = 2 => s[1] = "remove"
    /\ v = 14 => s[1] \in {"inspect", "normalise", "record"}
    /\ s[1] = "record" <=> v <= 24 /\ k = Len(Statements(v))
    /\ s[1] = "record" => s[2] = v
    /\ s[1] = "validate" <=> v = 25 /\ k = 1
    /\ s[1] = "clear" <=> v = 25 /\ k = 2
    /\ s[1] = "index" <=> v = 25 /\ k = 3
    /\ s[1] = "mark" <=> v = 25 /\ k = 4

\* A migration is its statements but for the record of its version.
Written(v) == /\ DOMAIN Migrations[v] = 1..(Len(Statements(v)) - 1)
              /\ \A i \in DOMAIN Migrations[v] : Migrations[v][i] = Statements(v)[i]

LEMMA Script1 ==
    /\ Len(Statements(1)) = 2
    /\ Written(1)
    /\ Statements(1)[1] = <<"define", "entities">>
    /\ Statements(1)[2] = <<"record", 1>>
  <1>1. Migrations[1] = <<<<"define", "entities">>>>
    BY DEF Migrations, Latest, V1toV4
  <1>2. Statements(1) = Append(Migrations[1], <<"record", 1>>)
    BY DEF Statements, Recorded, Latest
  <1> QED BY <1>1, <1>2 DEF Written

LEMMA Script2 ==
    /\ Len(Statements(2)) = 2
    /\ Written(2)
    /\ Statements(2)[1] = <<"define", "memories">>
    /\ Statements(2)[2] = <<"record", 2>>
  <1>1. Migrations[2] = <<<<"define", "memories">>>>
    BY DEF Migrations, Latest, V1toV4
  <1>2. Statements(2) = Append(Migrations[2], <<"record", 2>>)
    BY DEF Statements, Recorded, Latest
  <1> QED BY <1>1, <1>2 DEF Written

LEMMA Script3 ==
    /\ Len(Statements(3)) = 3
    /\ Written(3)
    /\ Statements(3)[1] = <<"define", "streams">>
    /\ Statements(3)[2] = <<"define", "streamName">>
    /\ Statements(3)[3] = <<"record", 3>>
  <1>1. Migrations[3] = <<<<"define", "streams">>, <<"define", "streamName">>>>
    BY DEF Migrations, Latest, V1toV4
  <1>2. Statements(3) = Append(Migrations[3], <<"record", 3>>)
    BY DEF Statements, Recorded, Latest
  <1> QED BY <1>1, <1>2 DEF Written

LEMMA Script4 ==
    /\ Len(Statements(4)) = 2
    /\ Written(4)
    /\ Statements(4)[1] = <<"define", "history">>
    /\ Statements(4)[2] = <<"record", 4>>
  <1>1. Migrations[4] = <<<<"define", "history">>>>
    BY DEF Migrations, Latest, V1toV4
  <1>2. Statements(4) = Append(Migrations[4], <<"record", 4>>)
    BY DEF Statements, Recorded, Latest
  <1> QED BY <1>1, <1>2 DEF Written

LEMMA Script5 ==
    /\ Len(Statements(5)) = 2
    /\ Written(5)
    /\ Statements(5)[1] = <<"vector", 1536>>
    /\ Statements(5)[2] = <<"record", 5>>
  <1>1. Migrations[5] = <<<<"vector", 1536>>>>
    BY DEF Migrations, Latest, V5
  <1>2. Statements(5) = Append(Migrations[5], <<"record", 5>>)
    BY DEF Statements, Recorded, Latest
  <1> QED BY <1>1, <1>2 DEF Written

LEMMA Script6 ==
    /\ Len(Statements(6)) = 2
    /\ Written(6)
    /\ Statements(6)[1] = <<"define", "mindmaps">>
    /\ Statements(6)[2] = <<"record", 6>>
  <1>1. Migrations[6] = <<<<"define", "mindmaps">>>>
    BY DEF Migrations, Latest, V6toV10
  <1>2. Statements(6) = Append(Migrations[6], <<"record", 6>>)
    BY DEF Statements, Recorded, Latest
  <1> QED BY <1>1, <1>2 DEF Written

LEMMA Script7 ==
    /\ Len(Statements(7)) = 2
    /\ Written(7)
    /\ Statements(7)[1] = <<"define", "summaries">>
    /\ Statements(7)[2] = <<"record", 7>>
  <1>1. Migrations[7] = <<<<"define", "summaries">>>>
    BY DEF Migrations, Latest, V6toV10
  <1>2. Statements(7) = Append(Migrations[7], <<"record", 7>>)
    BY DEF Statements, Recorded, Latest
  <1> QED BY <1>1, <1>2 DEF Written

LEMMA Script8 ==
    /\ Len(Statements(8)) = 1
    /\ Written(8)
    /\ Statements(8)[1] = <<"record", 8>>
  <1>1. Migrations[8] = << >>
    BY DEF Migrations, Latest, V6toV10
  <1>2. Statements(8) = Append(Migrations[8], <<"record", 8>>)
    BY DEF Statements, Recorded, Latest
  <1> QED BY <1>1, <1>2 DEF Written

LEMMA Script9 ==
    /\ Len(Statements(9)) = 2
    /\ Written(9)
    /\ Statements(9)[1] = <<"define", "nodes">>
    /\ Statements(9)[2] = <<"record", 9>>
  <1>1. Migrations[9] = <<<<"define", "nodes">>>>
    BY DEF Migrations, Latest, V6toV10
  <1>2. Statements(9) = Append(Migrations[9], <<"record", 9>>)
    BY DEF Statements, Recorded, Latest
  <1> QED BY <1>1, <1>2 DEF Written

LEMMA Script10 ==
    /\ Len(Statements(10)) = 2
    /\ Written(10)
    /\ Statements(10)[1] = <<"define", "nodes">>
    /\ Statements(10)[2] = <<"record", 10>>
  <1>1. Migrations[10] = <<<<"define", "nodes">>>>
    BY DEF Migrations, Latest, V6toV10
  <1>2. Statements(10) = Append(Migrations[10], <<"record", 10>>)
    BY DEF Statements, Recorded, Latest
  <1> QED BY <1>1, <1>2 DEF Written

LEMMA Script11 ==
    /\ Len(Statements(11)) = 3
    /\ Written(11)
    /\ Statements(11)[1] = <<"remove", "nodes">>
    /\ Statements(11)[2] = <<"create", "nodes">>
    /\ Statements(11)[3] = <<"record", 11>>
  <1>1. Migrations[11] = <<<<"remove", "nodes">>, <<"create", "nodes">>>>
    BY DEF Migrations, Latest, V11
  <1>2. Statements(11) = Append(Migrations[11], <<"record", 11>>)
    BY DEF Statements, Recorded, Latest
  <1> QED BY <1>1, <1>2 DEF Written

LEMMA Script12 ==
    /\ Len(Statements(12)) = 2
    /\ Written(12)
    /\ Statements(12)[1] = <<"define", "nodeFields">>
    /\ Statements(12)[2] = <<"record", 12>>
  <1>1. Migrations[12] = <<<<"define", "nodeFields">>>>
    BY DEF Migrations, Latest, V12toV13
  <1>2. Statements(12) = Append(Migrations[12], <<"record", 12>>)
    BY DEF Statements, Recorded, Latest
  <1> QED BY <1>1, <1>2 DEF Written

LEMMA Script13 ==
    /\ Len(Statements(13)) = 2
    /\ Written(13)
    /\ Statements(13)[1] = <<"define", "edgeFields">>
    /\ Statements(13)[2] = <<"record", 13>>
  <1>1. Migrations[13] = <<<<"define", "edgeFields">>>>
    BY DEF Migrations, Latest, V12toV13
  <1>2. Statements(13) = Append(Migrations[13], <<"record", 13>>)
    BY DEF Statements, Recorded, Latest
  <1> QED BY <1>1, <1>2 DEF Written

LEMMA Script14 ==
    /\ Len(Statements(14)) = 3
    /\ Written(14)
    /\ Statements(14)[1] = <<"inspect", 0>>
    /\ Statements(14)[2] = <<"normalise", 0>>
    /\ Statements(14)[3] = <<"record", 14>>
  <1>1. Migrations[14] = <<<<"inspect", 0>>, <<"normalise", 0>>>>
    BY DEF Migrations, Latest, V14
  <1>2. Statements(14) = Append(Migrations[14], <<"record", 14>>)
    BY DEF Statements, Recorded, Latest
  <1> QED BY <1>1, <1>2 DEF Written

LEMMA Script15 ==
    /\ Len(Statements(15)) = 2
    /\ Written(15)
    /\ Statements(15)[1] = <<"define", "strings">>
    /\ Statements(15)[2] = <<"record", 15>>
  <1>1. Migrations[15] = <<<<"define", "strings">>>>
    BY DEF Migrations, Latest, V15toV16
  <1>2. Statements(15) = Append(Migrations[15], <<"record", 15>>)
    BY DEF Statements, Recorded, Latest
  <1> QED BY <1>1, <1>2 DEF Written

LEMMA Script16 ==
    /\ Len(Statements(16)) = 2
    /\ Written(16)
    /\ Statements(16)[1] = <<"define", "drawers">>
    /\ Statements(16)[2] = <<"record", 16>>
  <1>1. Migrations[16] = <<<<"define", "drawers">>>>
    BY DEF Migrations, Latest, V15toV16
  <1>2. Statements(16) = Append(Migrations[16], <<"record", 16>>)
    BY DEF Statements, Recorded, Latest
  <1> QED BY <1>1, <1>2 DEF Written

LEMMA Script17 ==
    /\ Len(Statements(17)) = 3
    /\ Written(17)
    /\ Statements(17)[1] = <<"dropVector", 0>>
    /\ Statements(17)[2] = <<"define", "metadata">>
    /\ Statements(17)[3] = <<"record", 17>>
  <1>1. Migrations[17] = <<<<"dropVector", 0>>, <<"define", "metadata">>>>
    BY DEF Migrations, Latest, V17
  <1>2. Statements(17) = Append(Migrations[17], <<"record", 17>>)
    BY DEF Statements, Recorded, Latest
  <1> QED BY <1>1, <1>2 DEF Written

LEMMA Script18 ==
    /\ Len(Statements(18)) = 4
    /\ Written(18)
    /\ Statements(18)[1] = <<"backfill", 0>>
    /\ Statements(18)[2] = <<"remove", "streamName">>
    /\ Statements(18)[3] = <<"define", "scopedName">>
    /\ Statements(18)[4] = <<"record", 18>>
  <1>1. Migrations[18] = <<<<"backfill", 0>>, <<"remove", "streamName">>, <<"define", "scopedName">>>>
    BY DEF Migrations, Latest, V18
  <1>2. Statements(18) = Append(Migrations[18], <<"record", 18>>)
    BY DEF Statements, Recorded, Latest
  <1> QED BY <1>1, <1>2 DEF Written

LEMMA Script19 ==
    /\ Len(Statements(19)) = 2
    /\ Written(19)
    /\ Statements(19)[1] = <<"define", "steps">>
    /\ Statements(19)[2] = <<"record", 19>>
  <1>1. Migrations[19] = <<<<"define", "steps">>>>
    BY DEF Migrations, Latest, V19toV21
  <1>2. Statements(19) = Append(Migrations[19], <<"record", 19>>)
    BY DEF Statements, Recorded, Latest
  <1> QED BY <1>1, <1>2 DEF Written

LEMMA Script20 ==
    /\ Len(Statements(20)) = 2
    /\ Written(20)
    /\ Statements(20)[1] = <<"define", "ledger">>
    /\ Statements(20)[2] = <<"record", 20>>
  <1>1. Migrations[20] = <<<<"define", "ledger">>>>
    BY DEF Migrations, Latest, V19toV21
  <1>2. Statements(20) = Append(Migrations[20], <<"record", 20>>)
    BY DEF Statements, Recorded, Latest
  <1> QED BY <1>1, <1>2 DEF Written

LEMMA Script21 ==
    /\ Len(Statements(21)) = 2
    /\ Written(21)
    /\ Statements(21)[1] = <<"define", "journal">>
    /\ Statements(21)[2] = <<"record", 21>>
  <1>1. Migrations[21] = <<<<"define", "journal">>>>
    BY DEF Migrations, Latest, V19toV21
  <1>2. Statements(21) = Append(Migrations[21], <<"record", 21>>)
    BY DEF Statements, Recorded, Latest
  <1> QED BY <1>1, <1>2 DEF Written

LEMMA Script22 ==
    /\ Len(Statements(22)) = 2
    /\ Written(22)
    /\ Statements(22)[1] = <<"define", "derivations">>
    /\ Statements(22)[2] = <<"record", 22>>
  <1>1. Migrations[22] = <<<<"define", "derivations">>>>
    BY DEF Migrations, Latest, V22
  <1>2. Statements(22) = Append(Migrations[22], <<"record", 22>>)
    BY DEF Statements, Recorded, Latest
  <1> QED BY <1>1, <1>2 DEF Written

LEMMA Script23 ==
    /\ Len(Statements(23)) = 2
    /\ Written(23)
    /\ Statements(23)[1] = <<"define", "evidence">>
    /\ Statements(23)[2] = <<"record", 23>>
  <1>1. Migrations[23] = <<<<"define", "evidence">>>>
    BY DEF Migrations, Latest, V23toV24
  <1>2. Statements(23) = Append(Migrations[23], <<"record", 23>>)
    BY DEF Statements, Recorded, Latest
  <1> QED BY <1>1, <1>2 DEF Written

LEMMA Script24 ==
    /\ Len(Statements(24)) = 2
    /\ Written(24)
    /\ Statements(24)[1] = <<"define", "fulltext">>
    /\ Statements(24)[2] = <<"record", 24>>
  <1>1. Migrations[24] = <<<<"define", "fulltext">>>>
    BY DEF Migrations, Latest, V23toV24
  <1>2. Statements(24) = Append(Migrations[24], <<"record", 24>>)
    BY DEF Statements, Recorded, Latest
  <1> QED BY <1>1, <1>2 DEF Written

LEMMA Script25 ==
    /\ Len(Statements(25)) = 4
    /\ Statements(25)[1] = <<"validate", 0>>
    /\ Statements(25)[2] = <<"clear", 0>>
    /\ Statements(25)[3] = <<"index", 0>>
    /\ Statements(25)[4] = <<"mark", 0>>
  BY DEF Statements, Indexing, Latest

LEMMA AllWritten ==
    ASSUME NEW v \in 1..24
    PROVE  Written(v)
  <1>1. CASE v = 1 BY <1>1, Script1
  <1>2. CASE v = 2 BY <1>2, Script2
  <1>3. CASE v = 3 BY <1>3, Script3
  <1>4. CASE v = 4 BY <1>4, Script4
  <1>5. CASE v = 5 BY <1>5, Script5
  <1>6. CASE v = 6 BY <1>6, Script6
  <1>7. CASE v = 7 BY <1>7, Script7
  <1>8. CASE v = 8 BY <1>8, Script8
  <1>9. CASE v = 9 BY <1>9, Script9
  <1>10. CASE v = 10 BY <1>10, Script10
  <1>11. CASE v = 11 BY <1>11, Script11
  <1>12. CASE v = 12 BY <1>12, Script12
  <1>13. CASE v = 13 BY <1>13, Script13
  <1>14. CASE v = 14 BY <1>14, Script14
  <1>15. CASE v = 15 BY <1>15, Script15
  <1>16. CASE v = 16 BY <1>16, Script16
  <1>17. CASE v = 17 BY <1>17, Script17
  <1>18. CASE v = 18 BY <1>18, Script18
  <1>19. CASE v = 19 BY <1>19, Script19
  <1>20. CASE v = 20 BY <1>20, Script20
  <1>21. CASE v = 21 BY <1>21, Script21
  <1>22. CASE v = 22 BY <1>22, Script22
  <1>23. CASE v = 23 BY <1>23, Script23
  <1>24. CASE v = 24 BY <1>24, Script24
  <1> QED
    BY <1>1, <1>2, <1>3, <1>4, <1>5, <1>6, <1>7, <1>8, <1>9, <1>10, <1>11, <1>12, <1>13, <1>14, <1>15, <1>16, <1>17, <1>18, <1>19, <1>20, <1>21, <1>22, <1>23, <1>24

LEMMA Lengths ==
    ASSUME NEW v \in 1..25
    PROVE  Len(Statements(v)) \in 1..4
  <1>1. CASE v = 1 BY <1>1, Script1
  <1>2. CASE v = 2 BY <1>2, Script2
  <1>3. CASE v = 3 BY <1>3, Script3
  <1>4. CASE v = 4 BY <1>4, Script4
  <1>5. CASE v = 5 BY <1>5, Script5
  <1>6. CASE v = 6 BY <1>6, Script6
  <1>7. CASE v = 7 BY <1>7, Script7
  <1>8. CASE v = 8 BY <1>8, Script8
  <1>9. CASE v = 9 BY <1>9, Script9
  <1>10. CASE v = 10 BY <1>10, Script10
  <1>11. CASE v = 11 BY <1>11, Script11
  <1>12. CASE v = 12 BY <1>12, Script12
  <1>13. CASE v = 13 BY <1>13, Script13
  <1>14. CASE v = 14 BY <1>14, Script14
  <1>15. CASE v = 15 BY <1>15, Script15
  <1>16. CASE v = 16 BY <1>16, Script16
  <1>17. CASE v = 17 BY <1>17, Script17
  <1>18. CASE v = 18 BY <1>18, Script18
  <1>19. CASE v = 19 BY <1>19, Script19
  <1>20. CASE v = 20 BY <1>20, Script20
  <1>21. CASE v = 21 BY <1>21, Script21
  <1>22. CASE v = 22 BY <1>22, Script22
  <1>23. CASE v = 23 BY <1>23, Script23
  <1>24. CASE v = 24 BY <1>24, Script24
  <1>25. CASE v = 25 BY <1>25, Script25
  <1> QED
    BY <1>1, <1>2, <1>3, <1>4, <1>5, <1>6, <1>7, <1>8, <1>9, <1>10, <1>11, <1>12, <1>13, <1>14, <1>15, <1>16, <1>17, <1>18, <1>19, <1>20, <1>21, <1>22, <1>23, <1>24, <1>25

LEMMA KindOfPlace ==
    ASSUME NEW v \in 1..25, NEW k \in 1..Len(Statements(v))
    PROVE  Kind(v, k, Statements(v)[k]) /\ Len(Statements(v)) \in 1..4
  <1>1. CASE v = 1
    <2>1. CASE k = 1
      BY <1>1, <2>1, Script1 DEF Kind
    <2>2. CASE k = 2
      BY <1>1, <2>2, Script1 DEF Kind
    <2> QED BY <1>1, <2>1, <2>2, Script1
  <1>2. CASE v = 2
    <2>1. CASE k = 1
      BY <1>2, <2>1, Script2 DEF Kind
    <2>2. CASE k = 2
      BY <1>2, <2>2, Script2 DEF Kind
    <2> QED BY <1>2, <2>1, <2>2, Script2
  <1>3. CASE v = 3
    <2>1. CASE k = 1
      BY <1>3, <2>1, Script3 DEF Kind
    <2>2. CASE k = 2
      BY <1>3, <2>2, Script3 DEF Kind
    <2>3. CASE k = 3
      BY <1>3, <2>3, Script3 DEF Kind
    <2> QED BY <1>3, <2>1, <2>2, <2>3, Script3
  <1>4. CASE v = 4
    <2>1. CASE k = 1
      BY <1>4, <2>1, Script4 DEF Kind
    <2>2. CASE k = 2
      BY <1>4, <2>2, Script4 DEF Kind
    <2> QED BY <1>4, <2>1, <2>2, Script4
  <1>5. CASE v = 5
    <2>1. CASE k = 1
      BY <1>5, <2>1, Script5 DEF Kind
    <2>2. CASE k = 2
      BY <1>5, <2>2, Script5 DEF Kind
    <2> QED BY <1>5, <2>1, <2>2, Script5
  <1>6. CASE v = 6
    <2>1. CASE k = 1
      BY <1>6, <2>1, Script6 DEF Kind
    <2>2. CASE k = 2
      BY <1>6, <2>2, Script6 DEF Kind
    <2> QED BY <1>6, <2>1, <2>2, Script6
  <1>7. CASE v = 7
    <2>1. CASE k = 1
      BY <1>7, <2>1, Script7 DEF Kind
    <2>2. CASE k = 2
      BY <1>7, <2>2, Script7 DEF Kind
    <2> QED BY <1>7, <2>1, <2>2, Script7
  <1>8. CASE v = 8
    <2>1. CASE k = 1
      BY <1>8, <2>1, Script8 DEF Kind
    <2> QED BY <1>8, <2>1, Script8
  <1>9. CASE v = 9
    <2>1. CASE k = 1
      BY <1>9, <2>1, Script9 DEF Kind
    <2>2. CASE k = 2
      BY <1>9, <2>2, Script9 DEF Kind
    <2> QED BY <1>9, <2>1, <2>2, Script9
  <1>10. CASE v = 10
    <2>1. CASE k = 1
      BY <1>10, <2>1, Script10 DEF Kind
    <2>2. CASE k = 2
      BY <1>10, <2>2, Script10 DEF Kind
    <2> QED BY <1>10, <2>1, <2>2, Script10
  <1>11. CASE v = 11
    <2>1. CASE k = 1
      BY <1>11, <2>1, Script11 DEF Kind
    <2>2. CASE k = 2
      BY <1>11, <2>2, Script11 DEF Kind
    <2>3. CASE k = 3
      BY <1>11, <2>3, Script11 DEF Kind
    <2> QED BY <1>11, <2>1, <2>2, <2>3, Script11
  <1>12. CASE v = 12
    <2>1. CASE k = 1
      BY <1>12, <2>1, Script12 DEF Kind
    <2>2. CASE k = 2
      BY <1>12, <2>2, Script12 DEF Kind
    <2> QED BY <1>12, <2>1, <2>2, Script12
  <1>13. CASE v = 13
    <2>1. CASE k = 1
      BY <1>13, <2>1, Script13 DEF Kind
    <2>2. CASE k = 2
      BY <1>13, <2>2, Script13 DEF Kind
    <2> QED BY <1>13, <2>1, <2>2, Script13
  <1>14. CASE v = 14
    <2>1. CASE k = 1
      BY <1>14, <2>1, Script14 DEF Kind
    <2>2. CASE k = 2
      BY <1>14, <2>2, Script14 DEF Kind
    <2>3. CASE k = 3
      BY <1>14, <2>3, Script14 DEF Kind
    <2> QED BY <1>14, <2>1, <2>2, <2>3, Script14
  <1>15. CASE v = 15
    <2>1. CASE k = 1
      BY <1>15, <2>1, Script15 DEF Kind
    <2>2. CASE k = 2
      BY <1>15, <2>2, Script15 DEF Kind
    <2> QED BY <1>15, <2>1, <2>2, Script15
  <1>16. CASE v = 16
    <2>1. CASE k = 1
      BY <1>16, <2>1, Script16 DEF Kind
    <2>2. CASE k = 2
      BY <1>16, <2>2, Script16 DEF Kind
    <2> QED BY <1>16, <2>1, <2>2, Script16
  <1>17. CASE v = 17
    <2>1. CASE k = 1
      BY <1>17, <2>1, Script17 DEF Kind
    <2>2. CASE k = 2
      BY <1>17, <2>2, Script17 DEF Kind
    <2>3. CASE k = 3
      BY <1>17, <2>3, Script17 DEF Kind
    <2> QED BY <1>17, <2>1, <2>2, <2>3, Script17
  <1>18. CASE v = 18
    <2>1. CASE k = 1
      BY <1>18, <2>1, Script18 DEF Kind
    <2>2. CASE k = 2
      BY <1>18, <2>2, Script18 DEF Kind
    <2>3. CASE k = 3
      BY <1>18, <2>3, Script18 DEF Kind
    <2>4. CASE k = 4
      BY <1>18, <2>4, Script18 DEF Kind
    <2> QED BY <1>18, <2>1, <2>2, <2>3, <2>4, Script18
  <1>19. CASE v = 19
    <2>1. CASE k = 1
      BY <1>19, <2>1, Script19 DEF Kind
    <2>2. CASE k = 2
      BY <1>19, <2>2, Script19 DEF Kind
    <2> QED BY <1>19, <2>1, <2>2, Script19
  <1>20. CASE v = 20
    <2>1. CASE k = 1
      BY <1>20, <2>1, Script20 DEF Kind
    <2>2. CASE k = 2
      BY <1>20, <2>2, Script20 DEF Kind
    <2> QED BY <1>20, <2>1, <2>2, Script20
  <1>21. CASE v = 21
    <2>1. CASE k = 1
      BY <1>21, <2>1, Script21 DEF Kind
    <2>2. CASE k = 2
      BY <1>21, <2>2, Script21 DEF Kind
    <2> QED BY <1>21, <2>1, <2>2, Script21
  <1>22. CASE v = 22
    <2>1. CASE k = 1
      BY <1>22, <2>1, Script22 DEF Kind
    <2>2. CASE k = 2
      BY <1>22, <2>2, Script22 DEF Kind
    <2> QED BY <1>22, <2>1, <2>2, Script22
  <1>23. CASE v = 23
    <2>1. CASE k = 1
      BY <1>23, <2>1, Script23 DEF Kind
    <2>2. CASE k = 2
      BY <1>23, <2>2, Script23 DEF Kind
    <2> QED BY <1>23, <2>1, <2>2, Script23
  <1>24. CASE v = 24
    <2>1. CASE k = 1
      BY <1>24, <2>1, Script24 DEF Kind
    <2>2. CASE k = 2
      BY <1>24, <2>2, Script24 DEF Kind
    <2> QED BY <1>24, <2>1, <2>2, Script24
  <1>25. CASE v = 25
    <2>1. CASE k = 1
      BY <1>25, <2>1, Script25 DEF Kind
    <2>2. CASE k = 2
      BY <1>25, <2>2, Script25 DEF Kind
    <2>3. CASE k = 3
      BY <1>25, <2>3, Script25 DEF Kind
    <2>4. CASE k = 4
      BY <1>25, <2>4, Script25 DEF Kind
    <2> QED BY <1>25, <2>1, <2>2, <2>3, <2>4, Script25
  <1> QED
    BY <1>1, <1>2, <1>3, <1>4, <1>5, <1>6, <1>7, <1>8, <1>9, <1>10, <1>11, <1>12, <1>13, <1>14, <1>15, <1>16, <1>17, <1>18, <1>19, <1>20, <1>21, <1>22, <1>23, <1>24, <1>25

-----------------------------------------------------------------------------
(* What a start has done by the time it is at a place, and what it has not *)

\* Statement j of version w comes before statement k of version v.
Earlier(w, j, v, k) == w < v \/ (w = v /\ j < k)

\* It lays something that no later statement takes away for good.
Lays(w, j) == /\ Statements(w)[j][1] \in {"define", "create"}
              /\ Statements(w)[j][2] # "streamName" /\ w \notin {9, 10}

Tables(v, k, schema) ==
    \A w \in 1..24 : \A j \in 1..Len(Statements(w)) :
        Lays(w, j) /\ Earlier(w, j, v, k) => Statements(w)[j][2] \in schema

\* The vector index is the one that the metadata know of.
Agrees(d) == d.meta = 0 \/ d.hnsw \in {0, d.meta}

\* What database d is like before statement k of version v.
Reached(v, k, d, marked) ==
    /\ Tables(v, k, d.schema)
    /\ Earlier(14, 2, v, k) => d.legacy = {}
    /\ Earlier(17, 1, v, k) => Agrees(d) \/ marked
    /\ Earlier(18, 1, v, k) => d.blank
    /\ Earlier(18, 2, v, k) => "streamName" \notin d.schema

Past(s, v, k) == Earlier(v, k, s.version, s.next)

\* A start that no other process has disturbed.
Lone(s, srv) == s.at # None /\ ~srv[s.at].disturbed

\* The new index is there, its dimension is not noted yet.
Marks(s, srv) == Lone(s, srv) /\ ~s.failing /\ s.version = 25 /\ s.next = 4

Marked == \E h \in DOMAIN start : Marks(start[h], server)

\* A start that has read no version runs everything again.
Redone == \E h \in DOMAIN start : Lone(start[h], server) /\ start[h].misread

StartFields  == {"at", "version", "next", "failing", "same", "misread"}
DbFields     == {"version", "hnsw", "schema", "meta", "blank", "shared", "legacy", "unknown", "scar"}
ServerFields == {"dim", "mode", "loopback", "up", "cell", "disturbed"}

FieldsInv ==
    /\ DbFields \subseteq DOMAIN db /\ db.version \in 0..24
    /\ db.schema \subseteq FullSchema \cup {"streamName"}
    /\ DOMAIN server = Processes /\ \A p \in Processes : ServerFields \subseteq DOMAIN server[p]
    /\ \A h \in DOMAIN start : StartFields \subseteq DOMAIN start[h]

\* Who drives a start, and where the process stands meanwhile.
HostsInv ==
    /\ DOMAIN call \cap Processes = {}
    /\ \A c \in DOMAIN call :
         /\ request[c].stage = "new" => request[c].at = None
         /\ request[c].stage \in {"new", "runtime"} => call[c].pc = "start"
         /\ request[c].stage = "runtime" =>
               /\ request[c].at \in Processes /\ server[request[c].at].up = "up"
               /\ call[c].req.op # "repairData"
    /\ \A h \in DOMAIN start :
         /\ h \in Processes => start[h].at = h /\ server[h].up = "starting"
         /\ h \notin Processes =>
               /\ h \in DOMAIN call /\ request[h].stage = "starting"
               /\ start[h].at = request[h].at
               /\ call[h].req.op = "repairData" <=> start[h].at = None
               /\ start[h].at # None => server[start[h].at].up = "up"
         /\ start[h].at # None => /\ start[h].at \in Processes
                                  /\ server[start[h].at].cell = "starting"
    /\ \A h, g \in DOMAIN start : start[h].at # None /\ start[h].at = start[g].at => h = g
    /\ \A p \in Processes : /\ server[p].up = "down" => server[p].cell = "empty"
                            /\ server[p].cell = "ready" => server[p].up = "up"

Place(s) ==
    /\ \/ s.version \in 1..25 /\ s.next \in 1..Len(Statements(s.version))
       \/ s.version = 26 /\ s.next = 1
    /\ s.failing => s.next > 1 /\ ~(s.version = 25 /\ s.next = 3)
    /\ s.at = None => s.version = 14

PlacesInv == \A h \in DOMAIN start : Place(start[h])

LoneInv == \A h, g \in DOMAIN start : Lone(start[h], server) /\ Lone(start[g], server) => h = g

\* The version that is recorded tells what is there.
VersionInv == ~db.scar /\ ~Redone => Reached(db.version + 1, 1, db, Marked)

\* A start that has not failed has got what it has done so far.
StartedInv ==
    \A h \in DOMAIN start :
        /\ start[h].at # None /\ ~start[h].failing /\ ~db.scar
        /\ Lone(start[h], server) \/ ~Redone
        => Reached(start[h].version, start[h].next, db, Marked)

\* A start that takes the nodes away is not behind another.
BehindInv ==
    \A h \in DOMAIN start :
        /\ Lone(start[h], server) /\ ~start[h].misread /\ ~db.scar
        /\ ~Past(start[h], 11, 2)
        => /\ db.version <= 10
           /\ \A g \in DOMAIN start :
                start[g].at # None /\ ~start[g].failing => ~Past(start[g], 11, 2)

Indexed(s, dim, d) ==
    /\ Past(s, 25, 1) => dim # 0 /\ (s.same => d.meta = dim)
    /\ s.version = 25 /\ s.next = 3 => d.hnsw \in {0, dim}
    /\ Past(s, 25, 3) => d.hnsw = dim
    /\ Past(s, 25, 4) => d.meta = dim

IndexInv ==
    \A h \in DOMAIN start :
        Lone(start[h], server) /\ ~start[h].failing /\ ~db.scar =>
            Indexed(start[h], Dimension(h), db)

\* A process that no other one has disturbed serves the whole schema.
ServesAlone ==
    \A p \in Processes :
        server[p].cell = "ready" /\ ~server[p].disturbed /\ ~db.scar =>
            /\ db.schema = FullSchema /\ db.blank /\ db.legacy = {}
            /\ db.hnsw = server[p].dim

SInv == /\ FieldsInv /\ HostsInv /\ PlacesInv /\ LoneInv /\ VersionInv /\ StartedInv
        /\ BehindInv /\ IndexInv /\ ServesAlone

-----------------------------------------------------------------------------
(* Places *)

\* Where h has gone from its place.
MovesOn(v, k, w, j) == IF k < Len(Statements(v)) THEN w = v /\ j = k + 1 ELSE w = v + 1 /\ j = 1

LEMMA PlaceNext ==
    ASSUME NEW v \in 1..25, NEW k \in 1..Len(Statements(v)), NEW w, NEW j, MovesOn(v, k, w, j)
    PROVE  /\ w \in 1..26 /\ j \in 1..4 /\ (w = 26 => j = 1)
           /\ w \in 1..25 => j \in 1..Len(Statements(w))
  <1> DEFINE n == Len(Statements(v))
  <1>1. n \in 1..4 /\ k \in 1..n
    BY KindOfPlace
  <1>2. CASE k < n
    <2>1. w = v /\ j = k + 1
      BY <1>2 DEF MovesOn
    <2> HIDE DEF n
    <2>2. j \in 1..n /\ j \in 1..4
      BY <1>1, <1>2, <2>1
    <2>3. j \in 1..Len(Statements(w))
      BY <2>1, <2>2 DEF n
    <2> QED BY <2>1, <2>2, <2>3
  <1>3. CASE ~(k < n)
    <2>1. w = v + 1 /\ j = 1
      BY <1>3 DEF MovesOn
    <2>2. ASSUME w \in 1..25 PROVE 1 \in 1..Len(Statements(w))
      <3>1. Len(Statements(w)) \in 1..4
        BY <2>2, Lengths
      <3> QED BY <3>1
    <2> QED BY <2>1, <2>2
  <1> QED BY <1>2, <1>3

LEMMA EarlierNext ==
    ASSUME NEW v, NEW k, v \in 1..25 /\ k \in 1..Len(Statements(v)), NEW w, NEW j, MovesOn(v, k, w, j),
           NEW a \in 1..25, NEW b \in 1..Len(Statements(a))
    PROVE  Earlier(a, b, w, j) <=> Earlier(a, b, v, k) \/ (a = v /\ b = k)
  <1> DEFINE n == Len(Statements(v))
  <1>1. n \in 1..4 /\ k \in 1..n
    BY KindOfPlace
  <1>2. b \in Int /\ b >= 1 /\ (a = v => b \in 1..n)
    OBVIOUS
  <1>3. IF k < n THEN w = v /\ j = k + 1 ELSE w = v + 1 /\ j = 1
    BY DEF MovesOn
  <1> HIDE DEF n
  <1> QED BY <1>1, <1>2, <1>3 DEF Earlier

LEMMA ReachedEarlier ==
    ASSUME NEW v \in Nat, NEW k \in Nat, NEW w \in Nat, NEW j \in Nat, NEW d, NEW m,
           Reached(v, k, d, m), w < v \/ (w = v /\ j <= k)
    PROVE  Reached(w, j, d, m)
  <1>1. ASSUME NEW a \in 1..25, NEW b \in Int, Earlier(a, b, w, j)
        PROVE  Earlier(a, b, v, k)
    BY <1>1 DEF Earlier
  <1>2. Tables(w, j, d.schema)
    <2> SUFFICES ASSUME NEW a \in 1..24, NEW b \in 1..Len(Statements(a)), Lays(a, b), Earlier(a, b, w, j)
                 PROVE  Statements(a)[b][2] \in d.schema
      BY DEF Tables
    <2>1. a \in 1..25 /\ b \in Int
      OBVIOUS
    <2>2. Earlier(a, b, v, k)
      BY <1>1, <2>1
    <2> QED BY <2>2 DEF Reached, Tables
  <1> QED BY <1>1, <1>2 DEF Reached

LEMMA NothingBefore == \A d, m : Reached(1, 1, d, m)
  BY Script14, Script17, Script18 DEF Reached, Tables, Earlier
-----------------------------------------------------------------------------
(* A statement *)

\* The start h goes on to its next place; the others stay where they are.
Goes(h) ==
    /\ DOMAIN start' = DOMAIN start
    /\ \A g \in DOMAIN start \ {h} : start'[g] = start[g]
    /\ StartFields \subseteq DOMAIN start'[h]
    /\ start'[h].at = start[h].at /\ start'[h].misread = start[h].misread
    /\ MovesOn(start[h].version, start[h].next, start'[h].version, start'[h].next)

\* Nothing but the schema may change, and who is disturbed by that.
Disturbs(h) ==
    /\ DOMAIN server' = Processes
    /\ \A p \in Processes :
         /\ ServerFields \subseteq DOMAIN server'[p]
         /\ server'[p].up = server[p].up /\ server'[p].cell = server[p].cell
         /\ server'[p].dim = server[p].dim
         /\ server'[p].disturbed <=>
               \/ server[p].disturbed
               \/ p # start[h].at /\ ~(db'.schema = db.schema /\ db'.hnsw = db.hnsw)

LEMMA OnwardGoes ==
    ASSUME FieldsInv, NEW h \in DOMAIN start, NEW f, NEW g,
           \/ Moves(h, Onward(h))
           \/ Moves(h, [Onward(h) EXCEPT !.failing = f])
           \/ Moves(h, [Onward(h) EXCEPT !.same = g, !.failing = f])
    PROVE  /\ Goes(h)
           /\ \/ start'[h].failing = start[h].failing /\ start'[h].same = start[h].same
              \/ start'[h].failing = f /\ start'[h].same = start[h].same
              \/ start'[h].failing = f /\ start'[h].same = g
  <1>1. StartFields \subseteq DOMAIN start[h]
    BY DEF FieldsInv
  <1>2. CASE start[h].next < Len(Statements(start[h].version))
    BY <1>1, <1>2 DEF Moves, Onward, Goes, MovesOn, StartFields
  <1>3. CASE ~(start[h].next < Len(Statements(start[h].version)))
    BY <1>1, <1>3 DEF Moves, Onward, Goes, MovesOn, StartFields
  <1> QED BY <1>2, <1>3

\* What a statement that is not refused does to the database.
Effect(h, s, d) ==
    /\ db'.schema = IF s[1] \in {"define", "create"} THEN db.schema \cup {s[2]}
                    ELSE IF s[1] = "remove" THEN db.schema \ Within(s[2]) ELSE db.schema
    /\ db'.hnsw = IF s[1] \in {"dropVector", "clear"} THEN 0
                  ELSE IF s[1] = "vector" /\ db.hnsw = 0 THEN s[2]
                  ELSE IF s[1] = "index" /\ db.hnsw = 0 THEN d ELSE db.hnsw
    /\ db'.meta = IF s[1] = "mark" THEN d ELSE db.meta
    /\ db'.blank = IF s[1] = "backfill" THEN TRUE ELSE db.blank
    /\ ~db'.scar =>
         /\ ~db.scar
         /\ \/ ~server[start[h].at].disturbed
            \/ db'.schema = db.schema /\ db'.hnsw = db.hnsw /\ db'.meta = db.meta

Runs == {"define", "create", "remove", "vector", "dropVector", "backfill", "clear", "index", "mark"}

LEMMA AfterEffect ==
    ASSUME FieldsInv, NEW h \in DOMAIN start, NEW s, NEW d, s[1] \in Runs,
           db' = [After(s, d) EXCEPT !.scar = @ \/ Clashes(h, After(s, d))]
    PROVE  /\ DbFields \subseteq DOMAIN db'
           /\ db'.version = db.version /\ db'.legacy = db.legacy
           /\ Effect(h, s, d)
  <1>1. DbFields \subseteq DOMAIN db
    BY DEF FieldsInv
  <1>2. CASE s[1] \in {"define", "create"}
    BY <1>1, <1>2 DEF After, Effect, Clashes, DbFields
  <1>3. CASE s[1] = "remove"
    BY <1>1, <1>3 DEF After, Effect, Clashes, DbFields
  <1>4. CASE s[1] = "vector"
    BY <1>1, <1>4 DEF After, Effect, Clashes, DbFields
  <1>8. CASE s[1] = "index"
    BY <1>1, <1>8 DEF After, Effect, Clashes, DbFields
  <1>5. CASE s[1] \in {"dropVector", "clear"}
    BY <1>1, <1>5 DEF After, Effect, Clashes, DbFields
  <1>6. CASE s[1] = "backfill"
    BY <1>1, <1>6 DEF After, Effect, Clashes, DbFields
  <1>7. CASE s[1] = "mark"
    BY <1>1, <1>7 DEF After, Effect, Clashes, DbFields
  <1> QED BY <1>2, <1>3, <1>4, <1>5, <1>6, <1>7, <1>8 DEF Runs

\* Where a start is that has not finished.
LEMMA AtPlace ==
    ASSUME PlacesInv, NEW h, h \in DOMAIN start, ~Finished(h)
    PROVE  /\ start[h].version \in 1..25
           /\ start[h].next \in 1..Len(Statements(start[h].version))
           /\ Kind(start[h].version, start[h].next, Doing(h))
  <1>1. start[h].version \in 1..25 /\ start[h].next \in 1..Len(Statements(start[h].version))
    BY DEF PlacesInv, Place, Finished, Latest
  <1> QED BY <1>1, KindOfPlace DEF Doing

LEMMA StatementEffect ==
    ASSUME FieldsInv, PlacesInv, HostsInv, NEW h \in DOMAIN start, Statement(h)
    PROVE  /\ start[h].at \in Processes /\ ~Finished(h) /\ Doing(h)[1] \in Runs
           /\ Doing(h)[1] \in {"clear", "mark"} => ~start[h].failing
           /\ Goes(h) /\ start'[h].same = start[h].same
           /\ start[h].failing => start'[h].failing
           /\ Doing(h)[1] = "create" /\ Doing(h)[2] \in db.schema => start'[h].failing
           /\ start'[h].failing =>
                start[h].failing \/ Doing(h)[1] \in {"create", "define", "vector", "index"}
           /\ Disturbs(h)
           /\ request' = request /\ call' = call
           /\ \/ db' = db /\ start'[h].failing
              \/ db' = db /\ start[h].same /\ Doing(h)[1] \in {"clear", "mark"}
              \/ /\ DbFields \subseteq DOMAIN db'
                 /\ db'.version = db.version /\ db'.legacy = db.legacy
                 /\ start'[h].failing <=> start[h].failing
                 /\ \E d : /\ Doing(h)[1] # "vector" => d = Dimension(h)
                           /\ Effect(h, Doing(h), d)
  <1> DEFINE s == Doing(h)
             skipped == start[h].same /\ s[1] \in {"clear", "mark"}
             vector == IF s[1] = "vector" THEN s[2] ELSE Dimension(h)
             refused == Refused(s, vector)
             new == After(s, vector)
             failing == start[h].failing \/ refused
  <1>1. /\ ~Finished(h) /\ s[1] \in Runs
        /\ s[1] \in {"clear", "mark"} => ~start[h].failing
        /\ db' = IF skipped \/ refused THEN db ELSE [new EXCEPT !.scar = @ \/ Clashes(h, new)]
        /\ Moves(h, [Onward(h) EXCEPT !.failing = @ \/ refused])
        /\ server' = Disturbed(h) /\ request' = request /\ call' = call
    BY DEF Statement, Doings, Runs, StorageUnchangedBut
  <1>2. Kind(start[h].version, start[h].next, s)
    BY <1>1, AtPlace
  <1>3. start[h].at \in Processes
    BY <1>1, <1>2 DEF Kind, Runs, PlacesInv, Place, HostsInv
  <1>4. StartFields \subseteq DOMAIN start[h]
    BY DEF FieldsInv
  <1>5. Onward(h).failing = start[h].failing /\ "failing" \in DOMAIN Onward(h)
    BY <1>4 DEF Onward, StartFields
  <1> HIDE DEF s, skipped, vector, refused, new
  <1>6. Moves(h, [Onward(h) EXCEPT !.failing = failing])
    BY <1>1, <1>5
  <1> HIDE DEF failing
  <1>7. Goes(h) /\ start'[h].same = start[h].same /\ start'[h].failing = failing
    BY <1>4, <1>5, <1>6, OnwardGoes DEF Moves, Onward, StartFields
  <1>8. Disturbs(h)
    BY <1>1, <1>3 DEF Disturbed, Disturbs, FieldsInv, ServerFields
  <1>9. /\ start[h].failing => start'[h].failing
        /\ refused => start'[h].failing
        /\ start'[h].failing => start[h].failing \/ s[1] \in {"create", "define", "vector", "index"}
        /\ ~refused => (start'[h].failing <=> start[h].failing)
        /\ s[1] = "create" /\ s[2] \in db.schema => start'[h].failing
    BY <1>7 DEF failing, refused, Refused
  <1>10. CASE ~skipped /\ ~refused
    <2>1. db' = [new EXCEPT !.scar = @ \/ Clashes(h, new)]
      BY <1>1, <1>10
    <2>2. /\ DbFields \subseteq DOMAIN db'
          /\ db'.version = db.version /\ db'.legacy = db.legacy
          /\ Effect(h, s, vector)
      BY <1>1, <2>1, AfterEffect DEF new
    <2>3. s[1] # "vector" => vector = Dimension(h)
      BY DEF vector
    <2> QED BY <1>1, <1>3, <1>7, <1>8, <1>9, <2>2, <2>3 DEF s
  <1>11. CASE skipped \/ refused
    BY <1>1, <1>3, <1>7, <1>8, <1>9, <1>11 DEF s, skipped
  <1> QED BY <1>10, <1>11

LEMMA LoneSame ==
    ASSUME FieldsInv, PlacesInv, HostsInv, LoneInv, NEW h \in DOMAIN start, Statement(h), ~db'.scar
    PROVE  /\ ~db.scar
           /\ \/ Lone(start[h], server)
              \/ db'.schema = db.schema /\ db'.hnsw = db.hnsw /\ db'.meta = db.meta
           /\ \A g \in DOMAIN start : Lone(start'[g], server') <=> Lone(start[g], server)
           /\ Redone' <=> Redone
  <1>1. /\ Goes(h) /\ Disturbs(h) /\ start[h].at \in Processes
        /\ \/ db' = db
           \/ \E d : Effect(h, Doing(h), d)
    BY StatementEffect
  <1>2. /\ ~db.scar
        /\ \/ ~server[start[h].at].disturbed
           \/ db'.schema = db.schema /\ db'.hnsw = db.hnsw /\ db'.meta = db.meta
    BY <1>1 DEF Effect
  <1>3. start[h].at # None
    BY <1>1, NameAssumption
  <1>4. \A g \in DOMAIN start : start'[g].at = start[g].at /\ start'[g].misread = start[g].misread
    BY <1>1 DEF Goes
  <1>5. \A g \in DOMAIN start : start[g].at # None => start[g].at \in Processes
    BY DEF HostsInv
  <1>6. ASSUME NEW g \in DOMAIN start
        PROVE  Lone(start'[g], server') <=> Lone(start[g], server)
    <2>1. CASE db'.schema = db.schema /\ db'.hnsw = db.hnsw
      BY <1>1, <1>4, <1>5, <2>1 DEF Lone, Disturbs
    <2>2. CASE ~(db'.schema = db.schema /\ db'.hnsw = db.hnsw)
      <3>1. Lone(start[h], server)
        BY <1>2, <1>3, <2>2 DEF Lone
      <3>2. g # h => ~Lone(start[g], server)
        BY <3>1 DEF LoneInv
      <3> QED BY <1>1, <1>4, <1>5, <3>1, <3>2 DEF Lone, Disturbs
    <2> QED BY <2>1, <2>2
  <1>7. Redone' <=> Redone
    BY <1>1, <1>4, <1>6 DEF Redone, Goes
  <1> QED BY <1>2, <1>3, <1>6, <1>7 DEF Lone

\* The agreement of index and metadata survives every statement but the first one
\* on the index, which no start is at any more when it matters.
LEMMA MarkedStays ==
    ASSUME FieldsInv, PlacesInv, HostsInv, LoneInv, IndexInv, NEW h \in DOMAIN start,
           Statement(h), ~db'.scar, Lone(start[h], server) => start[h].version # 5,
           Agrees(db) \/ Marked
    PROVE  Agrees(db') \/ Marked'
  <1> DEFINE s == Doing(h)
  <1>1. /\ Goes(h) /\ Disturbs(h) /\ start[h].at \in Processes /\ ~Finished(h) /\ s[1] \in Runs
        /\ s[1] \in {"clear", "mark"} => ~start[h].failing
        /\ start'[h].failing =>
             start[h].failing \/ s[1] \in {"create", "define", "vector", "index"}
        /\ \/ db' = db /\ start'[h].failing
           \/ db' = db /\ start[h].same /\ s[1] \in {"clear", "mark"}
           \/ /\ start'[h].failing <=> start[h].failing
              /\ \E d : (s[1] # "vector" => d = Dimension(h)) /\ Effect(h, s, d)
    BY StatementEffect
  <1>2. /\ ~db.scar
        /\ \/ Lone(start[h], server)
           \/ db'.schema = db.schema /\ db'.hnsw = db.hnsw /\ db'.meta = db.meta
        /\ \A g \in DOMAIN start : Lone(start'[g], server') <=> Lone(start[g], server)
    BY LoneSame
  <1>3. Kind(start[h].version, start[h].next, s)
    BY <1>1, AtPlace
  <1>4. CASE ~Lone(start[h], server)
    <2>1. db'.hnsw = db.hnsw /\ db'.meta = db.meta
      BY <1>2, <1>4
    <2>2. Agrees(db) => Agrees(db')
      BY <2>1 DEF Agrees
    <2>3. Marked => Marked'
      <3>1. ASSUME NEW g \in DOMAIN start, Marks(start[g], server)
            PROVE  g \in DOMAIN start' /\ Marks(start'[g], server')
        <4>1. g # h
          BY <1>4, <3>1 DEF Marks
        <4> QED BY <1>1, <1>2, <3>1, <4>1 DEF Goes, Marks
      <3> QED BY <3>1 DEF Marked
    <2> QED BY <2>2, <2>3
  <1>5. CASE Lone(start[h], server)
    <2>1. s[1] # "vector"
      BY <1>3, <1>5 DEF Kind
    <2>2. ~start[h].failing => Indexed(start[h], Dimension(h), db)
      BY <1>2, <1>5 DEF IndexInv
    <2>3. CASE s[1] = "mark"
      <3>1. start[h].version = 25 /\ start[h].next = 4 /\ ~start[h].failing
        BY <1>1, <1>3, <2>3 DEF Kind
      <3>2. db.hnsw = Dimension(h) /\ (start[h].same => db.meta = Dimension(h))
        BY <2>2, <3>1 DEF Indexed, Past, Earlier
      <3>3. db'.hnsw = Dimension(h) /\ db'.meta = Dimension(h)
        BY <1>1, <2>3, <3>1, <3>2 DEF Effect
      <3> QED BY <3>3 DEF Agrees
    <2>4. CASE s[1] # "mark"
      <3>1. Agrees(db)
        <4>1. ~Marks(start[h], server)
          BY <1>3, <2>4 DEF Marks, Kind
        <4>2. ~Marked
          BY <1>5, <4>1 DEF Marked, Marks, LoneInv
        <4> QED BY <4>2
      <3>2. CASE db' = db
        BY <3>1, <3>2
      <3>3. CASE s[1] = "index" /\ db' # db
        <4>1. start[h].version = 25 /\ start[h].next = 3
          BY <1>3, <3>3 DEF Kind
        <4>2. ~start[h].failing
          BY <4>1 DEF PlacesInv, Place
        <4>3. start'[h].version = 25 /\ start'[h].next = 4
          BY <1>1, <4>1, Script25 DEF Goes, MovesOn
        <4>4. ~start'[h].failing
          BY <1>1, <3>3, <4>2
        <4>5. Marks(start'[h], server')
          BY <1>2, <1>5, <4>3, <4>4 DEF Marks
        <4> QED BY <1>1, <4>5 DEF Marked, Goes
      <3>4. CASE s[1] \notin {"index", "mark"} /\ db' # db
        <4>1. PICK d : Effect(h, s, d)
          BY <1>1, <3>4
        <4>2. db'.meta = db.meta /\ db'.hnsw \in {0, db.hnsw}
          BY <2>1, <3>4, <4>1 DEF Effect
        <4> QED BY <3>1, <4>2 DEF Agrees
      <3> QED BY <2>4, <3>2, <3>3, <3>4
    <2> QED BY <2>3, <2>4
  <1> QED BY <1>4, <1>5

\* What is there for place (w, j) stays, unless the nodes are about to go.
LEMMA ReachedStays ==
    ASSUME FieldsInv, PlacesInv, HostsInv, LoneInv, IndexInv, NEW h \in DOMAIN start,
           Statement(h), ~db'.scar, NEW w \in 1..26, NEW j \in 1..4,
           Reached(w, j, db, Marked),
           Lone(start[h], server) => Past(start[h], 11, 2) \/ ~Earlier(11, 2, w, j)
    PROVE  Reached(w, j, db', Marked')
  <1> DEFINE s == Doing(h)
             v == start[h].version
             k == start[h].next
  <1>1. /\ ~Finished(h) /\ s[1] \in Runs
        /\ \/ db' = db
           \/ db'.legacy = db.legacy /\ \E d : Effect(h, s, d)
    BY StatementEffect
  <1>2. \/ Lone(start[h], server)
        \/ db'.schema = db.schema /\ db'.hnsw = db.hnsw /\ db'.meta = db.meta
    BY LoneSame
  <1>3. /\ Kind(v, k, s) /\ v \in 1..25 /\ k \in Int
    BY <1>1, AtPlace
  <1>4. Lone(start[h], server) => Earlier(11, 2, v, k) \/ ~Earlier(11, 2, w, j)
    BY DEF Past
  <1> HIDE DEF s, v, k
  <1>5. Tables(w, j, db'.schema)
    <2> SUFFICES ASSUME NEW a \in 1..24, NEW b \in 1..Len(Statements(a)), Lays(a, b), Earlier(a, b, w, j)
                 PROVE  Statements(a)[b][2] \in db'.schema
      BY DEF Tables
    <2>1. Statements(a)[b][2] \in db.schema
      BY DEF Reached, Tables
    <2>2. CASE s[1] = "remove" /\ Lone(start[h], server) /\ db' # db
      <3>0. a \in 1..25
        OBVIOUS
      <3>1. Kind(a, b, Statements(a)[b])
        BY <3>0, KindOfPlace
      <3>2. db'.schema = db.schema \ Within(s[2])
        BY <1>1, <2>2 DEF Effect
      <3>3. CASE s[2] = "streamName"
        BY <2>1, <3>2, <3>3 DEF Lays, Within
      <3>4. CASE s[2] = "nodes"
        <4>1. ~Earlier(11, 2, w, j)
          BY <1>3, <1>4, <2>2, <3>4 DEF Kind, Earlier
        <4>2. a < 11 \/ (a = 11 /\ b < 2)
          BY <4>1 DEF Earlier
        <4>3. Statements(a)[b][2] \notin {"nodes", "nodeFields", "edgeFields"}
          BY <3>1, <4>2 DEF Kind, Lays
        <4> QED BY <2>1, <3>2, <3>4, <4>3 DEF Within
      <3> QED BY <1>3, <2>2, <3>3, <3>4 DEF Kind
    <2>3. CASE ~(s[1] = "remove" /\ Lone(start[h], server) /\ db' # db)
      BY <1>1, <1>2, <2>1, <2>3 DEF Effect
    <2> QED BY <2>2, <2>3
  <1>6. Earlier(14, 2, w, j) => db'.legacy = {}
    BY <1>1 DEF Reached
  <1>7. Earlier(17, 1, w, j) => Agrees(db') \/ Marked'
    <2> SUFFICES ASSUME Earlier(17, 1, w, j) PROVE Agrees(db') \/ Marked'
      OBVIOUS
    <2>1. Agrees(db) \/ Marked
      BY DEF Reached
    <2>2. Lone(start[h], server) => v # 5
      BY <1>3, <1>4 DEF Earlier
    <2> QED BY <2>1, <2>2, MarkedStays DEF v
  <1>8. Earlier(18, 1, w, j) => db'.blank
    BY <1>1 DEF Reached, Effect
  <1>9. Earlier(18, 2, w, j) => "streamName" \notin db'.schema
    <2> SUFFICES ASSUME Earlier(18, 2, w, j) PROVE "streamName" \notin db'.schema
      OBVIOUS
    <2>1. "streamName" \notin db.schema
      BY DEF Reached
    <2>2. Lone(start[h], server) => v # 3
      BY <1>3, <1>4 DEF Earlier
    <2>3. CASE Lone(start[h], server)
      BY <1>1, <1>3, <2>1, <2>2, <2>3 DEF Effect, Kind
    <2> QED BY <1>2, <2>1, <2>3
  <1> QED BY <1>5, <1>6, <1>7, <1>8, <1>9 DEF Reached

\* A start has at its next place what it had, and what it has just laid.
LEMMA ReachedNext ==
    ASSUME FieldsInv, PlacesInv, HostsInv, LoneInv, IndexInv, NEW h \in DOMAIN start,
           Statement(h), ~db'.scar, ~start'[h].failing,
           Reached(start[h].version, start[h].next, db, Marked)
    PROVE  Reached(start'[h].version, start'[h].next, db', Marked')
  <1> DEFINE s == Doing(h)
             v == start[h].version
             k == start[h].next
             w == start'[h].version
             j == start'[h].next
             there == /\ db'.schema = IF s[1] \in {"define", "create"} THEN db.schema \cup {s[2]}
                                      ELSE IF s[1] = "remove" THEN db.schema \ Within(s[2])
                                      ELSE db.schema
                      /\ db'.blank = IF s[1] = "backfill" THEN TRUE ELSE db.blank
                      /\ db'.legacy = db.legacy
  <1>1. /\ ~Finished(h) /\ Goes(h) /\ s[1] \in Runs /\ there
        /\ s[1] = "dropVector" => db'.hnsw = 0
    <2>1. /\ ~Finished(h) /\ Goes(h) /\ s[1] \in Runs
          /\ \/ db' = db /\ start[h].same /\ s[1] \in {"clear", "mark"}
             \/ db'.legacy = db.legacy /\ \E d : Effect(h, s, d)
      BY StatementEffect
    <2>2. CASE db' = db /\ s[1] \in {"clear", "mark"}
      BY <2>1, <2>2
    <2>3. CASE db'.legacy = db.legacy /\ \E d : Effect(h, s, d)
      BY <2>1, <2>3 DEF Effect
    <2> QED BY <2>1, <2>2, <2>3
  <1>2. Kind(v, k, s) /\ v \in 1..25 /\ k \in 1..Len(Statements(v)) /\ s = Statements(v)[k]
    BY <1>1, AtPlace DEF Doing
  <1>3. MovesOn(v, k, w, j)
    BY <1>1 DEF Goes
  <1> HIDE DEF s, v, k, w, j, there
  <1>4. \A a \in 1..25 : \A b \in 1..Len(Statements(a)) :
           Earlier(a, b, w, j) <=> Earlier(a, b, v, k) \/ (a = v /\ b = k)
    <2>1. v \in 1..25 /\ k \in 1..Len(Statements(v))
      BY <1>2
    <2> QED BY <1>3, <2>1, EarlierNext
  <1>5. Reached(v, k, db, Marked)
    BY DEF v, k
  <1>6. /\ Earlier(14, 2, w, j) <=> Earlier(14, 2, v, k) \/ (v = 14 /\ k = 2)
        /\ Earlier(17, 1, w, j) <=> Earlier(17, 1, v, k) \/ (v = 17 /\ k = 1)
        /\ Earlier(18, 1, w, j) <=> Earlier(18, 1, v, k) \/ (v = 18 /\ k = 1)
        /\ Earlier(18, 2, w, j) <=> Earlier(18, 2, v, k) \/ (v = 18 /\ k = 2)
    <2>1. 2 \in 1..Len(Statements(14)) /\ 1 \in 1..Len(Statements(17))
      BY Script14, Script17
    <2>2. 1 \in 1..Len(Statements(18)) /\ 2 \in 1..Len(Statements(18))
      BY Script18
    <2> QED BY <1>4, <2>1, <2>2
  <1>7. Tables(w, j, db'.schema)
    <2> SUFFICES ASSUME NEW a \in 1..24, NEW b \in 1..Len(Statements(a)), Lays(a, b), Earlier(a, b, w, j)
                 PROVE  Statements(a)[b][2] \in db'.schema
      BY DEF Tables
    <2>0. a \in 1..25
      OBVIOUS
    <2>1. Earlier(a, b, v, k) \/ (a = v /\ b = k)
      BY <1>4, <2>0
    <2>2. CASE a = v /\ b = k
      <3>1. s[1] \in {"define", "create"} /\ s[2] = Statements(a)[b][2]
        BY <1>2, <2>2 DEF Lays
      <3> QED BY <1>1, <3>1 DEF there
    <2>3. CASE Earlier(a, b, v, k)
      <3>1. Statements(a)[b][2] \in db.schema
        BY <1>5, <2>3 DEF Reached, Tables
      <3>2. CASE s[1] = "remove" /\ s[2] = "nodes"
        <4>0. a \in 1..25
          OBVIOUS
        <4>1. Kind(a, b, Statements(a)[b])
          BY <4>0, KindOfPlace
        <4>2. a < 11 \/ (a = 11 /\ b < 1)
          BY <1>2, <2>3, <3>2 DEF Kind, Earlier
        <4>3. Statements(a)[b][2] \notin {"nodes", "nodeFields", "edgeFields"}
          BY <4>1, <4>2 DEF Kind, Lays
        <4> QED BY <1>1, <3>1, <3>2, <4>3 DEF there, Within
      <3>3. CASE s[1] = "remove" /\ s[2] = "streamName"
        BY <1>1, <3>1, <3>3 DEF there, Within, Lays
      <3>4. CASE s[1] # "remove"
        BY <1>1, <3>1, <3>4 DEF there
      <3> QED BY <1>2, <3>2, <3>3, <3>4 DEF Kind
    <2> QED BY <2>1, <2>2, <2>3
  <1>8. Earlier(14, 2, w, j) => db'.legacy = {}
    <2>1. ~(v = 14 /\ k = 2)
      BY <1>1, <1>2 DEF Kind, Runs
    <2> QED BY <1>1, <1>5, <1>6, <2>1 DEF Reached, there
  <1>9. Earlier(17, 1, w, j) => Agrees(db') \/ Marked'
    <2>1. CASE v = 17 /\ k = 1
      BY <1>1, <1>2, <2>1 DEF Kind, Agrees
    <2>2. CASE Earlier(17, 1, v, k)
      <3>1. v # 5 /\ (Agrees(db) \/ Marked)
        BY <1>2, <1>5, <2>2 DEF Reached, Earlier
      <3> QED BY <3>1, MarkedStays DEF v
    <2> QED BY <1>6, <2>1, <2>2
  <1>10. Earlier(18, 1, w, j) => db'.blank
    BY <1>1, <1>2, <1>5, <1>6 DEF Reached, there, Kind
  <1>11. Earlier(18, 2, w, j) => "streamName" \notin db'.schema
    <2>1. CASE v = 18 /\ k = 2
      BY <1>1, <1>2, <2>1 DEF Kind, there, Within
    <2>2. CASE Earlier(18, 2, v, k)
      <3>1. v # 3 /\ "streamName" \notin db.schema
        BY <1>2, <1>5, <2>2 DEF Reached, Earlier
      <3> QED BY <1>1, <1>2, <3>1 DEF there, Kind
    <2> QED BY <1>6, <2>1, <2>2
  <1> QED BY <1>7, <1>8, <1>9, <1>10, <1>11 DEF Reached, w, j

\* A table that a version defines is in the schema of every later one.
LEMMA InSchema ==
    ASSUME NEW n \in 1..24, NEW v \in 1..24, v <= n, NEW k \in 1..Len(Statements(v)),
           Statements(v)[k][1] = "define"
    PROVE  Statements(v)[k][2] \in SchemaOf(n)
  <1>1. Len(Statements(v)) \in 1..4
    <2>1. v \in 1..25
      OBVIOUS
    <2> QED BY <2>1, Lengths
  <1>2. Kind(v, k, Statements(v)[k])
    <2>1. v \in 1..25
      OBVIOUS
    <2> QED BY <2>1, KindOfPlace
  <1>3. k \in 1..(Len(Statements(v)) - 1)
    BY <1>1, <1>2 DEF Kind
  <1>4. k \in DOMAIN Migrations[v] /\ Migrations[v][k] = Statements(v)[k]
    BY <1>3, AllWritten DEF Written
  <1>5. Statements(v)[k] \in Range(Migrations[v])
    BY <1>4 DEF Range
  <1> QED BY <1>2, <1>5 DEF SchemaOf

LEMMA LaidIsFull ==
    ASSUME NEW v \in 1..25, NEW k \in 1..Len(Statements(v)),
           Statements(v)[k][1] \in {"define", "create"}
    PROVE  Statements(v)[k][2] \in FullSchema \cup {"streamName"}
  <1>1. Kind(v, k, Statements(v)[k])
    BY KindOfPlace
  <1>2. v \in 1..24
    BY <1>1 DEF Kind
  <1>3. CASE Statements(v)[k][1] = "define"
    <2>1. v <= 24 /\ 24 \in 1..24
      BY <1>2
    <2> QED BY <1>2, <1>3, <2>1, InSchema DEF FullSchema, Latest
  <1>4. CASE Statements(v)[k][1] = "create"
    <2>1. Statements(v)[k][2] = Statements(9)[1][2]
      BY <1>1, <1>4, Script9 DEF Kind
    <2>2. 9 \in 1..24 /\ 24 \in 1..24 /\ 9 <= 24 /\ 1 \in 1..Len(Statements(9))
      BY Script9
    <2>3. Statements(9)[1][2] \in SchemaOf(24)
      BY <2>2, Script9, InSchema
    <2> QED BY <2>1, <2>3 DEF FullSchema, Latest
  <1> QED BY <1>3, <1>4

LEMMA HostsKept ==
    ASSUME HostsInv, DOMAIN call' = DOMAIN call, DOMAIN start' \subseteq DOMAIN start,
           \A g \in DOMAIN start' : start'[g].at = start[g].at,
           \A g \in DOMAIN start' \cap DOMAIN call :
              /\ request'[g].stage = request[g].stage /\ request'[g].at = request[g].at
              /\ call'[g].req.op = call[g].req.op,
           \A c \in DOMAIN call :
              /\ request'[c].stage = "new" => request'[c].at = None
              /\ request'[c].stage \in {"new", "runtime"} => call'[c].pc = "start",
           \A c \in DOMAIN call : request'[c].stage = "runtime" =>
              /\ request'[c].at \in Processes /\ server'[request'[c].at].up = "up"
              /\ call'[c].req.op # "repairData",
           \A g \in DOMAIN start' : start[g].at # None =>
              /\ server'[start[g].at].cell = server[start[g].at].cell
              /\ server'[start[g].at].up = server[start[g].at].up,
           \A p \in Processes : /\ server'[p].up = "down" => server'[p].cell = "empty"
                                /\ server'[p].cell = "ready" => server'[p].up = "up"
    PROVE  HostsInv'
  <1>1. \A g \in DOMAIN start' : g \in DOMAIN start
    OBVIOUS
  <1>2. DOMAIN call' \cap Processes = {}
    BY DEF HostsInv
  <1>3. ASSUME NEW h \in DOMAIN start'
        PROVE  /\ h \in Processes => start'[h].at = h /\ server'[h].up = "starting"
               /\ h \notin Processes =>
                     /\ h \in DOMAIN call' /\ request'[h].stage = "starting"
                     /\ start'[h].at = request'[h].at
                     /\ call'[h].req.op = "repairData" <=> start'[h].at = None
                     /\ start'[h].at # None => server'[start'[h].at].up = "up"
               /\ start'[h].at # None => /\ start'[h].at \in Processes
                                         /\ server'[start'[h].at].cell = "starting"
    BY <1>1, <1>3, NameAssumption DEF HostsInv
  <1>4. \A h, g \in DOMAIN start' : start'[h].at # None /\ start'[h].at = start'[g].at => h = g
    BY <1>1 DEF HostsInv
  <1> QED BY <1>2, <1>3, <1>4 DEF HostsInv

LEMMA StatementPlaces ==
    ASSUME FieldsInv, PlacesInv, HostsInv, NEW h \in DOMAIN start, Statement(h)
    PROVE  FieldsInv' /\ HostsInv' /\ PlacesInv'
  <1> DEFINE s == Doing(h)
             v == start[h].version
             k == start[h].next
  <1>1. /\ Goes(h) /\ Disturbs(h) /\ start[h].at \in Processes /\ ~Finished(h) /\ s[1] \in Runs
        /\ s[1] \in {"clear", "mark"} => ~start[h].failing
        /\ start'[h].failing =>
             start[h].failing \/ s[1] \in {"create", "define", "vector", "index"}
        /\ request' = request /\ call' = call
        /\ \/ db' = db
           \/ /\ DbFields \subseteq DOMAIN db' /\ db'.version = db.version
              /\ \E d : Effect(h, s, d)
    BY StatementEffect
  <1>2. Kind(v, k, s) /\ v \in 1..25 /\ k \in 1..Len(Statements(v)) /\ s = Statements(v)[k]
    BY <1>1, AtPlace DEF Doing
  <1>3. FieldsInv'
    <2>1. DbFields \subseteq DOMAIN db' /\ db'.version \in 0..24
      BY <1>1 DEF FieldsInv
    <2>2. db'.schema \subseteq FullSchema \cup {"streamName"}
      <3>1. s[1] \in {"define", "create"} => s[2] \in FullSchema \cup {"streamName"}
        BY <1>2, LaidIsFull
      <3>2. db'.schema \subseteq db.schema \/ (s[1] \in {"define", "create"} /\ db'.schema = db.schema \cup {s[2]})
        BY <1>1 DEF Effect
      <3> QED BY <3>1, <3>2 DEF FieldsInv
    <2>3. \A g \in DOMAIN start' : StartFields \subseteq DOMAIN start'[g]
      BY <1>1 DEF Goes, FieldsInv
    <2> QED BY <1>1, <2>1, <2>2, <2>3 DEF FieldsInv, Disturbs
  <1>4. HostsInv'
    <2>1. \A g \in DOMAIN start' : g \in DOMAIN start /\ start'[g].at = start[g].at
      BY <1>1 DEF Goes
    <2>2. \A p \in Processes : server'[p].up = server[p].up /\ server'[p].cell = server[p].cell
      BY <1>1 DEF Disturbs
    <2> QED BY <1>1, <2>1, <2>2, HostsKept DEF HostsInv
  <1>5. PlacesInv'
    <2>1. ASSUME NEW g \in DOMAIN start, g # h PROVE Place(start'[g])
      BY <1>1, <2>1 DEF Goes, PlacesInv
    <2>2. Place(start'[h])
      <3>1. MovesOn(v, k, start'[h].version, start'[h].next)
        BY <1>1 DEF Goes
      <3>2. /\ start'[h].version \in 1..26 /\ start'[h].next \in 1..4
            /\ start'[h].version = 26 => start'[h].next = 1
            /\ start'[h].version \in 1..25 => start'[h].next \in 1..Len(Statements(start'[h].version))
        BY <1>2, <3>1, PlaceNext
      <3>3. start'[h].at # None
        BY <1>1, NameAssumption DEF Goes
      <3>4. ASSUME start'[h].failing
            PROVE  start'[h].next > 1 /\ ~(start'[h].version = 25 /\ start'[h].next = 3)
        <4>1. k \in Int /\ k >= 1
          BY <1>2
        <4>2. k < Len(Statements(v))
          <5>1. Len(Statements(v)) \in 1..4
            BY <1>2, Lengths
          <5>2. s[1] # "record" /\ s[1] # "mark"
            BY <1>1, <1>2, <3>4 DEF Kind, Runs, PlacesInv, Place
          <5>3. ~(v <= 24 /\ k = Len(Statements(v)))
            BY <1>2, <5>2 DEF Kind
          <5>4. v = 25 => k # Len(Statements(v))
            BY <1>2, <5>2, Script25 DEF Kind
          <5>5. k # Len(Statements(v))
            <6>1. v \in 1..25
              BY <1>2
            <6>2. v <= 24 \/ v = 25
              <7> HIDE DEF v
              <7> QED BY <6>1
            <6> QED BY <5>3, <5>4, <6>2
          <5>6. k \in 1..Len(Statements(v))
            BY <1>2
          <5> HIDE DEF k, v
          <5> QED BY <5>1, <5>5, <5>6
        <4>3. start'[h].version = v /\ start'[h].next = k + 1
          BY <3>1, <4>2 DEF MovesOn
        <4>4. ~(v = 25 /\ k = 2)
          BY <1>1, <1>2, <3>4 DEF Kind
        <4> QED BY <4>1, <4>3, <4>4
      <3>5. \/ start'[h].version \in 1..25 /\ start'[h].next \in 1..Len(Statements(start'[h].version))
            \/ start'[h].version = 26 /\ start'[h].next = 1
        BY <3>2
      <3> QED BY <3>3, <3>4, <3>5 DEF Place
    <2> QED BY <1>1, <2>1, <2>2 DEF PlacesInv, Goes
  <1> QED BY <1>3, <1>4, <1>5

\* A start that an undisturbed one is not behind, and what is recorded, are safe
\* from the statement that takes the nodes away.
LEMMA NotAhead ==
    ASSUME BehindInv, ~db.scar, NEW h \in DOMAIN start, Lone(start[h], server), ~start[h].misread
    PROVE  /\ Past(start[h], 11, 2) \/ db.version <= 10
           /\ \A g \in DOMAIN start :
                start[g].at # None /\ ~start[g].failing =>
                   Past(start[h], 11, 2) \/ ~Past(start[g], 11, 2)
  BY DEF BehindInv

LEMMA PlaceAtMost ==
    ASSUME NEW v \in 1..25, NEW k \in 1..Len(Statements(v))
    PROVE  k \in 1..4
  <1> DEFINE n == Len(Statements(v))
  <1>1. n \in 1..4 /\ k \in 1..n
    BY Lengths
  <1> HIDE DEF n
  <1> QED BY <1>1

LEMMA PlaceIs ==
    ASSUME PlacesInv, NEW h \in DOMAIN start
    PROVE  start[h].version \in 1..26 /\ start[h].next \in 1..4
  <1>1. Place(start[h])
    BY DEF PlacesInv
  <1>2. CASE start[h].version \in 1..25 /\ start[h].next \in 1..Len(Statements(start[h].version))
    <2> DEFINE v == start[h].version
               k == start[h].next
    <2>1. v \in 1..25 /\ k \in 1..Len(Statements(v))
      BY <1>2
    <2> HIDE DEF v, k
    <2>2. k \in 1..4
      BY <2>1, PlaceAtMost
    <2>3. v \in 1..26
      BY <2>1
    <2> QED BY <2>2, <2>3 DEF v, k
  <1>3. CASE start[h].version = 26 /\ start[h].next = 1
    BY <1>3
  <1> QED BY <1>1, <1>2, <1>3 DEF Place

LEMMA StatementReached ==
    ASSUME SInv, NEW h \in DOMAIN start, Statement(h), ~db'.scar
    PROVE  VersionInv' /\ StartedInv'
  <1> USE DEF SInv
  <1>1. /\ Goes(h) /\ db'.version = db.version
        /\ start[h].failing => start'[h].failing
    <2>1. Goes(h) /\ (start[h].failing => start'[h].failing)
      BY StatementEffect
    <2>2. db' = db \/ db'.version = db.version
      BY StatementEffect
    <2> QED BY <2>1, <2>2
  <1>2. /\ ~db.scar
        /\ \A g \in DOMAIN start : Lone(start'[g], server') <=> Lone(start[g], server)
        /\ Redone' <=> Redone
    BY LoneSame
  <1>3. ASSUME ~Redone'
        PROVE  Reached(db'.version + 1, 1, db', Marked')
    <2>1. Reached(db.version + 1, 1, db, Marked)
      BY <1>2, <1>3 DEF VersionInv
    <2>2. db.version + 1 \in 1..26 /\ 1 \in 1..4
      BY DEF FieldsInv
    <2>3. ASSUME Lone(start[h], server)
          PROVE  Past(start[h], 11, 2) \/ ~Earlier(11, 2, db.version + 1, 1)
      <3>1. ~start[h].misread
        BY <1>2, <1>3, <2>3 DEF Redone
      <3>2. Past(start[h], 11, 2) \/ db.version <= 10
        BY <1>2, <2>3, <3>1, NotAhead
      <3> QED BY <2>2, <3>2 DEF Earlier, FieldsInv
    <2>4. Reached(db.version + 1, 1, db', Marked')
      BY <1>2, <2>1, <2>2, <2>3, ReachedStays
    <2> QED BY <1>1, <2>4
  <1>4. ASSUME NEW g \in DOMAIN start', start'[g].at # None, ~start'[g].failing,
               Lone(start'[g], server') \/ ~Redone'
        PROVE  Reached(start'[g].version, start'[g].next, db', Marked')
    <2>1. g \in DOMAIN start /\ start[g].at # None /\ ~start[g].failing
          /\ (Lone(start[g], server) \/ ~Redone)
      BY <1>1, <1>2, <1>4 DEF Goes
    <2>2. Reached(start[g].version, start[g].next, db, Marked)
      BY <1>2, <2>1 DEF StartedInv
    <2>3. CASE g = h
      BY <1>4, <2>2, <2>3, ReachedNext
    <2>4. CASE g # h
      <3>1. start'[g] = start[g]
        BY <1>1, <2>1, <2>4 DEF Goes
      <3>2. ASSUME Lone(start[h], server)
            PROVE  Past(start[h], 11, 2) \/ ~Earlier(11, 2, start[g].version, start[g].next)
        <4>1. ~Lone(start[g], server)
          BY <2>1, <2>4, <3>2 DEF LoneInv
        <4>2. ~start[h].misread
          BY <2>1, <3>2, <4>1 DEF Redone
        <4> QED BY <1>2, <2>1, <3>2, <4>2, NotAhead DEF Past
      <3>3. start[g].version \in 1..26 /\ start[g].next \in 1..4
        BY <2>1, PlaceIs
      <3>4. Reached(start[g].version, start[g].next, db', Marked')
        BY <2>2, <3>2, <3>3, ReachedStays
      <3> QED BY <3>1, <3>4
    <2> QED BY <2>3, <2>4
  <1> QED BY <1>3, <1>4 DEF VersionInv, StartedInv

LEMMA StatementBehind ==
    ASSUME SInv, NEW h \in DOMAIN start, Statement(h), ~db'.scar
    PROVE  BehindInv'
  <1> USE DEF SInv
  <1> DEFINE s == Doing(h)
  <1>1. /\ Goes(h) /\ ~Finished(h) /\ start[h].at # None
        /\ start[h].failing => start'[h].failing
        /\ s[1] \in Runs
        /\ s[1] = "create" /\ s[2] \in db.schema => start'[h].failing
        /\ \/ db' = db /\ start'[h].failing
           \/ db' = db /\ s[1] \in {"clear", "mark"}
           \/ db'.version = db.version /\ \E d : Effect(h, s, d)
    BY StatementEffect, NameAssumption
  <1>2. /\ ~db.scar
        /\ \/ Lone(start[h], server) \/ db'.schema = db.schema
        /\ \A g \in DOMAIN start : Lone(start'[g], server') <=> Lone(start[g], server)
    BY LoneSame
  <1>3. Kind(start[h].version, start[h].next, s)
        /\ start[h].version \in 1..25 /\ start[h].next \in 1..Len(Statements(start[h].version))
    BY <1>1, AtPlace
  <1>4. Past(start'[h], 11, 2) <=> Past(start[h], 11, 2) \/ (start[h].version = 11 /\ start[h].next = 2)
    <2> DEFINE v == start[h].version
               k == start[h].next
               w == start'[h].version
               j == start'[h].next
    <2>1. MovesOn(v, k, w, j)
      BY <1>1 DEF Goes
    <2>2. v \in 1..25 /\ k \in 1..Len(Statements(v))
      BY <1>3
    <2>3. 11 \in 1..25
      OBVIOUS
    <2>4. 2 \in 1..Len(Statements(11))
      BY Script11
    <2> HIDE DEF v, k, w, j
    <2>5. \A a \in 1..25 : \A b \in 1..Len(Statements(a)) :
             Earlier(a, b, w, j) <=> Earlier(a, b, v, k) \/ (a = v /\ b = k)
      BY <2>1, <2>2, EarlierNext
    <2>6. Earlier(11, 2, w, j) <=> Earlier(11, 2, v, k) \/ (11 = v /\ 2 = k)
      BY <2>3, <2>4, <2>5
    <2> QED BY <2>6 DEF Past, v, k, w, j
  <1>5. SUFFICES ASSUME NEW g \in DOMAIN start', Lone(start'[g], server'), ~start'[g].misread,
                        ~Past(start'[g], 11, 2)
                 PROVE  /\ db'.version <= 10
                        /\ \A f \in DOMAIN start' :
                             start'[f].at # None /\ ~start'[f].failing => ~Past(start'[f], 11, 2)
    BY DEF BehindInv
  <1>6. g \in DOMAIN start /\ Lone(start[g], server) /\ ~start[g].misread /\ ~Past(start[g], 11, 2)
    BY <1>1, <1>2, <1>4, <1>5 DEF Goes
  <1>7. /\ db.version <= 10
        /\ \A f \in DOMAIN start : start[f].at # None /\ ~start[f].failing => ~Past(start[f], 11, 2)
    BY <1>2, <1>6 DEF BehindInv
  <1>8. db'.version <= 10
    BY <1>1, <1>7
  <1>9. ASSUME NEW f \in DOMAIN start', start'[f].at # None, ~start'[f].failing
        PROVE  ~Past(start'[f], 11, 2)
    <2>1. CASE f # h
      BY <1>1, <1>7, <1>9, <2>1 DEF Goes
    <2>2. CASE f = h
      <3>1. ~Past(start[h], 11, 2)
        BY <1>1, <1>7, <1>9, <2>2
      <3>2. ASSUME start[h].version = 11, start[h].next = 2 PROVE FALSE
        <4>1. g # h
          BY <1>4, <1>5, <3>2
        <4>2. ~Lone(start[h], server)
          BY <1>6, <4>1 DEF LoneInv
        <4>3. s[1] = "create" /\ s[2] = "nodes"
          BY <1>1, <1>3, <3>2, Script11 DEF Doing
        <4>4. "nodes" \notin db.schema
          BY <1>1, <1>9, <2>2, <4>3
        <4>5. "nodes" \in db'.schema
          BY <1>1, <1>9, <2>2, <4>3 DEF Effect
        <4> QED BY <1>2, <4>2, <4>4, <4>5
      <3> QED BY <1>4, <2>2, <3>1, <3>2
    <2> QED BY <2>1, <2>2
  <1> QED BY <1>8, <1>9

LEMMA StatementIndex ==
    ASSUME SInv, NEW h \in DOMAIN start, Statement(h), ~db'.scar
    PROVE  IndexInv'
  <1> USE DEF SInv
  <1> DEFINE s == Doing(h)
             dim == Dimension(h)
  <1>1. /\ Goes(h) /\ Disturbs(h) /\ ~Finished(h) /\ start[h].at \in Processes /\ s[1] \in Runs
        /\ start[h].failing => start'[h].failing
        /\ start'[h].same = start[h].same
        /\ \/ db' = db /\ start'[h].failing
           \/ db' = db /\ start[h].same /\ s[1] \in {"clear", "mark"}
           \/ \E d : (s[1] # "vector" => d = dim) /\ Effect(h, s, d)
    BY StatementEffect
  <1>2. /\ ~db.scar
        /\ \/ Lone(start[h], server)
           \/ db'.hnsw = db.hnsw /\ db'.meta = db.meta
        /\ \A g \in DOMAIN start : Lone(start'[g], server') <=> Lone(start[g], server)
    BY LoneSame
  <1>3. Kind(start[h].version, start[h].next, s)
        /\ start[h].version \in 1..25 /\ start[h].next \in 1..Len(Statements(start[h].version))
    BY <1>1, AtPlace
  <1>4. \A g \in DOMAIN start : start[g].at # None =>
           start'[g].at = start[g].at /\ server'[start'[g].at].dim = server[start[g].at].dim
    BY <1>1 DEF Goes, Disturbs, HostsInv
  <1>5. SUFFICES ASSUME NEW g \in DOMAIN start', Lone(start'[g], server'), ~start'[g].failing
                 PROVE  Indexed(start'[g], server'[start'[g].at].dim, db')
    BY DEF IndexInv, Dimension
  <1>6. g \in DOMAIN start /\ Lone(start[g], server) /\ ~start[g].failing
    BY <1>1, <1>2, <1>5 DEF Goes
  <1>7. Indexed(start[g], server[start[g].at].dim, db)
    BY <1>2, <1>6 DEF IndexInv, Dimension
  <1>8. server'[start'[g].at].dim = server[start[g].at].dim
    BY <1>4, <1>6 DEF Lone
  <1>9. CASE g # h
    <2>1. start'[g] = start[g]
      BY <1>1, <1>6, <1>9 DEF Goes
    <2>2. db'.hnsw = db.hnsw /\ db'.meta = db.meta
      BY <1>2, <1>6, <1>9 DEF LoneInv
    <2> QED BY <1>7, <1>8, <2>1, <2>2 DEF Indexed
  <1>10. CASE g = h
    <2>1. Indexed(start[h], dim, db) /\ server'[start'[h].at].dim = dim
      BY <1>7, <1>8, <1>10 DEF Dimension
    <2>2. MovesOn(start[h].version, start[h].next, start'[h].version, start'[h].next)
      BY <1>1 DEF Goes
    <2>3. CASE start[h].version # 25
      <3>1. \/ start'[h].version \in 1..24
            \/ start'[h].version = 25 /\ start'[h].next = 1
        <4>1. start[h].version \in 1..24
          BY <1>3, <2>3
        <4>2. \/ start'[h].version = start[h].version
              \/ start'[h].version = start[h].version + 1 /\ start'[h].next = 1
          BY <2>2 DEF MovesOn
        <4> QED BY <4>1, <4>2
      <3> QED BY <1>10, <2>1, <3>1 DEF Indexed, Past, Earlier
    <2>4. CASE start[h].version = 25
      <3>1. s[1] \in {"clear", "index", "mark"} /\ start[h].next \in {2, 3, 4}
        <4>1. start[h].next \in 1..4 /\ s = Statements(25)[start[h].next]
          BY <1>3, <2>4, PlaceAtMost DEF Doing
        <4> QED BY <1>1, <4>1, Script25 DEF Runs
      <3>2. dim # 0 /\ (start[h].same => db.meta = dim)
        BY <2>1, <2>4, <3>1 DEF Indexed, Past, Earlier
      <3>3. CASE s[1] = "clear"
        <4>1. start[h].next = 2
          BY <1>3, <2>4, <3>3 DEF Kind
        <4>2. start'[h].version = 25 /\ start'[h].next = 3
          BY <2>2, <2>4, <4>1, Script25 DEF MovesOn
        <4>3. db'.hnsw \in {0, dim} /\ (start[h].same => db'.meta = dim)
          <5>1. CASE db' = db /\ start[h].same
            <6>1. Reached(25, 2, db, Marked)
              BY <1>2, <1>6, <1>10, <2>4, <4>1 DEF StartedInv, Lone
            <6>2. ~Marked
              BY <1>6, <1>10, <4>1 DEF Marked, Marks, LoneInv
            <6>3. Agrees(db)
              BY <6>1, <6>2 DEF Reached, Earlier
            <6> QED BY <3>2, <5>1, <6>3 DEF Agrees
          <5>2. CASE Effect(h, s, dim)
            BY <3>2, <3>3, <5>2 DEF Effect
          <5> QED BY <1>1, <1>5, <1>10, <3>3, <5>1, <5>2
        <4> QED BY <1>1, <1>10, <2>1, <3>2, <4>2, <4>3 DEF Indexed, Past, Earlier
      <3>4. CASE s[1] = "index"
        <4>1. start[h].next = 3
          BY <1>3, <2>4, <3>4 DEF Kind
        <4>2. start'[h].version = 25 /\ start'[h].next = 4
          BY <2>2, <2>4, <4>1, Script25 DEF MovesOn
        <4>3. db.hnsw \in {0, dim}
          BY <2>1, <2>4, <4>1 DEF Indexed
        <4>4. db'.hnsw = dim /\ db'.meta = db.meta
          BY <1>1, <1>5, <1>10, <3>4, <4>3 DEF Effect
        <4> QED BY <1>1, <1>10, <2>1, <3>2, <4>2, <4>4 DEF Indexed, Past, Earlier
      <3>5. CASE s[1] = "mark"
        <4>1. start[h].next = 4
          BY <1>3, <2>4, <3>5 DEF Kind
        <4>2. start'[h].version = 26 /\ start'[h].next = 1
          <5> DEFINE n == Len(Statements(25))
          <5>1. n = 4
            BY Script25
          <5>2. IF 4 < n THEN start'[h].version = 25 /\ start'[h].next = 4 + 1
                         ELSE start'[h].version = 25 + 1 /\ start'[h].next = 1
            BY <2>2, <2>4, <4>1 DEF MovesOn
          <5> HIDE DEF n
          <5> QED BY <5>1, <5>2
        <4>3. db.hnsw = dim
          BY <2>1, <2>4, <4>1 DEF Indexed, Past, Earlier
        <4>4. db'.hnsw = dim /\ db'.meta = dim
          BY <1>1, <1>5, <1>10, <3>2, <3>5, <4>3 DEF Effect
        <4> QED BY <1>1, <1>10, <2>1, <3>2, <4>2, <4>4 DEF Indexed, Past, Earlier
      <3> QED BY <3>1, <3>3, <3>4, <3>5
    <2> QED BY <2>3, <2>4
  <1> QED BY <1>9, <1>10

\* A process that serves is disturbed by every change of the schema.
LEMMA StatementServes ==
    ASSUME SInv, NEW h \in DOMAIN start, Statement(h)
    PROVE  ServesAlone' /\ LoneInv'
  <1> USE DEF SInv
  <1>1. /\ Goes(h) /\ Disturbs(h) /\ start[h].at \in Processes
        /\ \/ db' = db
           \/ db'.legacy = db.legacy /\ \E d : Effect(h, Doing(h), d)
    BY StatementEffect
  <1>2. ServesAlone'
    <2> SUFFICES ASSUME NEW p \in Processes, server'[p].cell = "ready", ~server'[p].disturbed, ~db'.scar
                 PROVE  /\ db'.schema = FullSchema /\ db'.blank /\ db'.legacy = {}
                        /\ db'.hnsw = server'[p].dim
      BY DEF ServesAlone
    <2>1. server[p].cell = "ready" /\ ~server[p].disturbed /\ server'[p].dim = server[p].dim
      BY <1>1 DEF Disturbs
    <2>2. p # start[h].at
      <3>1. start[h].at # None
        BY <1>1, NameAssumption
      <3> QED BY <2>1, <3>1 DEF HostsInv
    <2>3. db'.schema = db.schema /\ db'.hnsw = db.hnsw
      BY <1>1, <2>2 DEF Disturbs
    <2>4. ~db.scar /\ (db.blank => db'.blank) /\ db'.legacy = db.legacy
      BY <1>1 DEF Effect
    <2> QED BY <2>1, <2>3, <2>4 DEF ServesAlone
  <1>3. \A g \in DOMAIN start' : /\ g \in DOMAIN start
                                 /\ Lone(start'[g], server') => Lone(start[g], server)
    BY <1>1 DEF Goes, Disturbs, Lone, HostsInv
  <1> QED BY <1>2, <1>3 DEF LoneInv

LEMMA StatementStart ==
    ASSUME SInv, NEW h \in DOMAIN start, Statement(h)
    PROVE  SInv'
  <1>1. FieldsInv' /\ HostsInv' /\ PlacesInv'
    BY StatementPlaces DEF SInv
  <1>2. ServesAlone' /\ LoneInv'
    BY StatementServes
  <1>3. CASE ~db'.scar
    BY <1>1, <1>2, <1>3, StatementReached, StatementBehind, StatementIndex DEF SInv
  <1>4. CASE db'.scar
    BY <1>1, <1>2, <1>4 DEF SInv, VersionInv, StartedInv, BehindInv, IndexInv
  <1> QED BY <1>3, <1>4

-----------------------------------------------------------------------------
(* The steps of a start that write no schema *)

Looks == {"inspect", "normalise", "record", "validate"}

\* The start h goes on, and the tables are as they were.
Walks(h) ==
    /\ server' = server /\ request' = request /\ call' = call
    /\ h \in DOMAIN start /\ ~Finished(h) /\ Doing(h)[1] \in Looks /\ Goes(h)
    /\ DbFields \subseteq DOMAIN db'
    /\ db'.schema = db.schema /\ db'.hnsw = db.hnsw /\ db'.meta = db.meta
    /\ db'.blank = db.blank /\ db'.legacy = db.legacy /\ db'.scar = db.scar
    /\ Doing(h)[1] = "normalise" => db.legacy = {}
    /\ ~start[h].failing
    /\ start'[h].failing => Doing(h)[1] \in {"inspect", "validate"}
    /\ \/ db'.version = db.version
       \/ Doing(h)[1] = "record" /\ db'.version = start[h].version
    /\ Doing(h)[1] = "validate" /\ ~start'[h].failing =>
         Dimension(h) # 0 /\ (start'[h].same => db.meta = Dimension(h))

LEMMA WalkPlace ==
    ASSUME SInv, NEW h \in DOMAIN start, Walks(h)
    PROVE  /\ Kind(start[h].version, start[h].next, Doing(h))
           /\ start[h].version \in 1..25
           /\ start[h].next \in 1..Len(Statements(start[h].version))
           /\ Doing(h) = Statements(start[h].version)[start[h].next]
           /\ MovesOn(start[h].version, start[h].next, start'[h].version, start'[h].next)
           /\ Doing(h)[1] = "record" => /\ start[h].at # None
                                        /\ start'[h].version = start[h].version + 1
                                        /\ start'[h].next = 1
           /\ (Marked' <=> Marked)
           /\ \A g \in DOMAIN start : Lone(start'[g], server') <=> Lone(start[g], server)
           /\ (Redone' <=> Redone)
  <1> USE DEF SInv
  <1>1. /\ server' = server /\ ~Finished(h) /\ Doing(h)[1] \in Looks /\ Goes(h)
    BY DEF Walks
  <1>2. /\ Kind(start[h].version, start[h].next, Doing(h)) /\ start[h].version \in 1..25
        /\ start[h].next \in 1..Len(Statements(start[h].version))
        /\ Doing(h) = Statements(start[h].version)[start[h].next]
    BY <1>1, AtPlace DEF Doing
  <1>3. MovesOn(start[h].version, start[h].next, start'[h].version, start'[h].next)
    BY <1>1 DEF Goes
  <1>4. ASSUME Doing(h)[1] = "record"
        PROVE  start[h].at # None /\ start'[h].version = start[h].version + 1 /\ start'[h].next = 1
    <2>1. start[h].next = Len(Statements(start[h].version))
      BY <1>2, <1>4 DEF Kind
    <2>2. start'[h].version = start[h].version + 1 /\ start'[h].next = 1
      <3> DEFINE n == Len(Statements(start[h].version))
      <3>1. IF start[h].next < n THEN start'[h].version = start[h].version /\ start'[h].next = start[h].next + 1
                                 ELSE start'[h].version = start[h].version + 1 /\ start'[h].next = 1
        BY <1>3 DEF MovesOn
      <3>2. start[h].next = n /\ n \in 1..4
        BY <1>2, <2>1, Lengths
      <3> HIDE DEF n
      <3> QED BY <3>1, <3>2
    <2>3. ~IsRepair(h)
      BY <1>1, <1>4 DEF Finished
    <2> QED BY <2>2, <2>3, NameAssumption DEF HostsInv, IsRepair, Op, Req
  <1>5. \A g \in DOMAIN start : Lone(start'[g], server') <=> Lone(start[g], server)
    BY <1>1 DEF Goes, Lone
  <1>6. Redone' <=> Redone
    BY <1>1, <1>5 DEF Redone, Goes
  <1>7. ~(start[h].version = 25 /\ start[h].next \in {3, 4})
    BY <1>1, <1>2 DEF Kind, Looks
  <1>8. ~(start'[h].version = 25 /\ start'[h].next = 4)
    <2> DEFINE v == start[h].version
               k == start[h].next
               n == Len(Statements(v))
    <2>1. IF k < n THEN start'[h].version = v /\ start'[h].next = k + 1
                   ELSE start'[h].version = v + 1 /\ start'[h].next = 1
      BY <1>3 DEF MovesOn
    <2>2. v \in 1..25 /\ k \in 1..4
      BY <1>2, PlaceAtMost
    <2> HIDE DEF v, k, n
    <2> QED BY <1>7, <2>1, <2>2 DEF v, k
  <1>9. Marked' <=> Marked
    <2>1. ASSUME NEW g \in DOMAIN start
          PROVE  Marks(start'[g], server') <=> Marks(start[g], server)
      <3>1. CASE g = h
        BY <1>7, <1>8, <3>1 DEF Marks
      <3>2. CASE g # h
        BY <1>1, <3>2 DEF Goes
      <3> QED BY <3>1, <3>2
    <2> QED BY <1>1, <2>1 DEF Marked, Goes
  <1> QED BY <1>2, <1>3, <1>4, <1>5, <1>6, <1>9

LEMMA WalkReached ==
    ASSUME SInv, NEW h \in DOMAIN start, Walks(h),
           Reached(start[h].version, start[h].next, db, Marked)
    PROVE  Reached(start'[h].version, start'[h].next, db', Marked')
  <1> DEFINE v == start[h].version
             k == start[h].next
             w == start'[h].version
             j == start'[h].next
             s == Doing(h)
  <1>1. /\ db'.schema = db.schema /\ Agrees(db') = Agrees(db) /\ db'.blank = db.blank
        /\ db'.legacy = db.legacy /\ s[1] \in Looks
        /\ s[1] = "normalise" => db.legacy = {}
    BY DEF Walks, Agrees
  <1>2. Kind(v, k, s) /\ v \in 1..25 /\ k \in 1..Len(Statements(v)) /\ s = Statements(v)[k]
    BY WalkPlace
  <1>3. MovesOn(v, k, w, j) /\ (Marked' <=> Marked)
    BY WalkPlace
  <1>4. Reached(v, k, db, Marked)
    OBVIOUS
  <1> HIDE DEF v, k, w, j, s
  <1>5. \A a \in 1..25 : \A b \in 1..Len(Statements(a)) :
           Earlier(a, b, w, j) <=> Earlier(a, b, v, k) \/ (a = v /\ b = k)
    <2>1. v \in 1..25 /\ k \in 1..Len(Statements(v))
      BY <1>2
    <2> QED BY <1>3, <2>1, EarlierNext
  <1>6. Tables(w, j, db'.schema)
    <2> SUFFICES ASSUME NEW a \in 1..24, NEW b \in 1..Len(Statements(a)), Lays(a, b), Earlier(a, b, w, j)
                 PROVE  Statements(a)[b][2] \in db'.schema
      BY DEF Tables
    <2>0. a \in 1..25
      OBVIOUS
    <2>1. Earlier(a, b, v, k) \/ (a = v /\ b = k)
      BY <1>5, <2>0
    <2>2. ~(a = v /\ b = k)
      BY <1>1, <1>2 DEF Lays, Looks
    <2> QED BY <1>1, <1>4, <2>1, <2>2 DEF Reached, Tables
  <1>7. /\ Earlier(14, 2, w, j) <=> Earlier(14, 2, v, k) \/ (v = 14 /\ k = 2)
        /\ Earlier(17, 1, w, j) <=> Earlier(17, 1, v, k) \/ (v = 17 /\ k = 1)
        /\ Earlier(18, 1, w, j) <=> Earlier(18, 1, v, k) \/ (v = 18 /\ k = 1)
        /\ Earlier(18, 2, w, j) <=> Earlier(18, 2, v, k) \/ (v = 18 /\ k = 2)
    <2>1. 2 \in 1..Len(Statements(14)) /\ 1 \in 1..Len(Statements(17))
      BY Script14, Script17
    <2>2. 1 \in 1..Len(Statements(18)) /\ 2 \in 1..Len(Statements(18))
      BY Script18
    <2> QED BY <1>5, <2>1, <2>2
  <1>8. /\ ~(v = 17 /\ k = 1) /\ ~(v = 18 /\ k = 1) /\ ~(v = 18 /\ k = 2)
        /\ v = 14 /\ k = 2 => db.legacy = {}
    BY <1>1, <1>2 DEF Kind, Looks
  <1> QED BY <1>1, <1>3, <1>4, <1>6, <1>7, <1>8 DEF Reached, w, j

LEMMA WalkPlaces ==
    ASSUME SInv, NEW h \in DOMAIN start, Walks(h)
    PROVE  FieldsInv' /\ HostsInv' /\ PlacesInv' /\ LoneInv' /\ ServesAlone'
  <1> USE DEF SInv
  <1> DEFINE v == start[h].version
             k == start[h].next
             w == start'[h].version
             j == start'[h].next
             s == Doing(h)
  <1>1. /\ server' = server /\ request' = request /\ call' = call /\ Goes(h)
        /\ s[1] \in Looks /\ (start'[h].failing => s[1] \in {"inspect", "validate"})
    BY DEF Walks
  <1>2. /\ Kind(v, k, s) /\ v \in 1..25 /\ k \in 1..Len(Statements(v)) /\ MovesOn(v, k, w, j)
        /\ s[1] = "record" => start[h].at # None
        /\ \A g \in DOMAIN start : Lone(start'[g], server') <=> Lone(start[g], server)
    BY WalkPlace
  <1>3. FieldsInv'
    <2>1. DbFields \subseteq DOMAIN db' /\ db'.schema = db.schema /\ db'.version \in 0..24
      <3>1. s[1] = "record" => v \in 1..24
        BY <1>2 DEF Kind
      <3> QED BY <3>1 DEF Walks, FieldsInv
    <2> QED BY <1>1, <2>1 DEF FieldsInv, Goes
  <1>4. HostsInv'
    <2>1. \A g \in DOMAIN start' : g \in DOMAIN start /\ start'[g].at = start[g].at
      BY <1>1 DEF Goes
    <2> QED BY <1>1, <2>1, HostsKept DEF HostsInv
  <1>5. PlacesInv'
    <2>1. ASSUME NEW g \in DOMAIN start, g # h PROVE Place(start'[g])
      BY <1>1, <2>1 DEF Goes, PlacesInv
    <2>2. Place(start'[h])
      <3>1. /\ w = 26 => j = 1
            /\ w \in 1..26
            /\ w \in 1..25 => j \in 1..Len(Statements(w))
        BY <1>2, PlaceNext
      <3>2. ASSUME s[1] \in {"inspect", "normalise"} PROVE w = 14 /\ j \in {2, 3}
        <4>1. v = 14 /\ k \in {1, 2}
          BY <1>2, <3>2 DEF Kind
        <4>2. Len(Statements(14)) = 3
          BY Script14
        <4>3. k < Len(Statements(v))
          BY <4>1, <4>2
        <4> QED BY <1>2, <4>1, <4>3 DEF MovesOn
      <3>3. ASSUME s[1] = "validate" PROVE w = 25 /\ j = 2
        <4>1. v = 25 /\ k = 1
          BY <1>2, <3>3 DEF Kind
        <4>2. k < Len(Statements(v))
          BY <4>1, Script25
        <4> QED BY <1>2, <4>1, <4>2 DEF MovesOn
      <3>4. ASSUME start'[h].at = None PROVE w = 14
        <4>1. start[h].at = None /\ v = 14
          BY <1>1, <3>4 DEF Goes, PlacesInv, Place
        <4>2. s[1] \in {"inspect", "normalise"}
          BY <1>1, <1>2, <4>1 DEF Kind, Looks
        <4> QED BY <3>2, <4>2
      <3>5. start'[h].failing => j > 1 /\ ~(w = 25 /\ j = 3)
        BY <1>1, <3>2, <3>3
      <3>6. \/ w \in 1..25 /\ j \in 1..Len(Statements(w))
            \/ w = 26 /\ j = 1
        BY <3>1
      <3> QED BY <3>4, <3>5, <3>6 DEF Place
    <2> QED BY <1>1, <2>1, <2>2 DEF PlacesInv, Goes
  <1>6. LoneInv'
    BY <1>1, <1>2 DEF LoneInv, Goes
  <1>7. ServesAlone'
    BY DEF Walks, ServesAlone
  <1> QED BY <1>3, <1>4, <1>5, <1>6, <1>7

LEMMA WalkStart ==
    ASSUME SInv, NEW h \in DOMAIN start, Walks(h)
    PROVE  SInv'
  <1> USE DEF SInv
  <1> DEFINE v == start[h].version
             k == start[h].next
             s == Doing(h)
  <1>1. /\ server' = server /\ Goes(h) /\ ~start[h].failing
        /\ s[1] \in Looks /\ (start'[h].failing => s[1] \in {"inspect", "validate"})
        /\ db'.schema = db.schema /\ db'.hnsw = db.hnsw /\ db'.meta = db.meta
        /\ db'.blank = db.blank /\ db'.legacy = db.legacy /\ db'.scar = db.scar
        /\ \/ db'.version = db.version
           \/ s[1] = "record" /\ db'.version = v
        /\ s[1] = "validate" /\ ~start'[h].failing =>
             Dimension(h) # 0 /\ (start'[h].same => db.meta = Dimension(h))
    BY DEF Walks
  <1>2. /\ Kind(v, k, s) /\ v \in 1..25 /\ k \in 1..Len(Statements(v))
        /\ MovesOn(v, k, start'[h].version, start'[h].next)
        /\ s[1] = "record" => /\ start[h].at # None
                              /\ start'[h].version = start[h].version + 1 /\ start'[h].next = 1
        /\ (Marked' <=> Marked)
        /\ \A g \in DOMAIN start : Lone(start'[g], server') <=> Lone(start[g], server)
        /\ (Redone' <=> Redone)
    BY WalkPlace
  <1>3. \A a, b : Reached(a, b, db, Marked) => Reached(a, b, db', Marked')
    BY <1>1, <1>2 DEF Reached, Agrees
  <1>4. ASSUME start[h].at # None, ~db.scar, Lone(start[h], server) \/ ~Redone
        PROVE  Reached(start'[h].version, start'[h].next, db', Marked')
    BY <1>1, <1>4, WalkReached DEF StartedInv
  <1>5. VersionInv'
    <2> SUFFICES ASSUME ~db'.scar, ~Redone' PROVE Reached(db'.version + 1, 1, db', Marked')
      BY DEF VersionInv
    <2>1. CASE db'.version = db.version
      BY <1>1, <1>2, <1>3, <2>1 DEF VersionInv
    <2>2. CASE s[1] = "record" /\ db'.version = v
      BY <1>1, <1>2, <1>4, <2>2
    <2> QED BY <1>1, <2>1, <2>2
  <1>6. StartedInv'
    <2> SUFFICES ASSUME NEW g \in DOMAIN start', start'[g].at # None, ~start'[g].failing, ~db'.scar,
                        Lone(start'[g], server') \/ ~Redone'
                 PROVE  Reached(start'[g].version, start'[g].next, db', Marked')
      BY DEF StartedInv
    <2>1. CASE g = h
      BY <1>1, <1>2, <1>4, <2>1 DEF Goes
    <2>2. CASE g # h
      BY <1>1, <1>2, <1>3, <2>2 DEF Goes, StartedInv
    <2> QED BY <2>1, <2>2
  <1>7. ASSUME ~Past(start[h], 11, 2)
        PROVE  ~Past(start'[h], 11, 2) /\ (s[1] = "record" => v <= 10)
    <2>1. ~(v = 11 /\ k = 2)
      BY <1>1, Script11 DEF Doing, Looks
    <2>2. \A a \in 1..25 : \A b \in 1..Len(Statements(a)) :
             Earlier(a, b, start'[h].version, start'[h].next) <=> Earlier(a, b, v, k) \/ (a = v /\ b = k)
      <3> DEFINE w == start'[h].version
                 j == start'[h].next
      <3>1. v \in 1..25 /\ k \in 1..Len(Statements(v))
        BY <1>2
      <3>2. MovesOn(v, k, w, j)
        BY <1>2
      <3> HIDE DEF v, k, w, j
      <3>3. \A a \in 1..25 : \A b \in 1..Len(Statements(a)) :
               Earlier(a, b, w, j) <=> Earlier(a, b, v, k) \/ (a = v /\ b = k)
        BY <3>1, <3>2, EarlierNext
      <3> QED BY <3>3 DEF w, j
    <2>3. 11 \in 1..25 /\ 2 \in 1..Len(Statements(11)) /\ Len(Statements(11)) = 3
      BY Script11
    <2>4. ~Past(start'[h], 11, 2)
      BY <1>7, <2>1, <2>2, <2>3 DEF Past
    <2>5. s[1] = "record" => v <= 10
      <3> SUFFICES ASSUME s[1] = "record" PROVE v <= 10
        OBVIOUS
      <3>1. start'[h].version = v + 1 /\ start'[h].next = 1
        BY <1>2
      <3>2. v \in 1..25
        BY <1>2
      <3>3. ~Earlier(11, 2, v + 1, 1)
        BY <2>4, <3>1 DEF Past
      <3> HIDE DEF v
      <3> QED BY <3>2, <3>3 DEF Earlier
    <2> QED BY <2>4, <2>5
  <1>8. BehindInv'
    <2> SUFFICES ASSUME NEW g \in DOMAIN start', Lone(start'[g], server'), ~start'[g].misread,
                        ~db'.scar, ~Past(start'[g], 11, 2)
                 PROVE  /\ db'.version <= 10
                        /\ \A f \in DOMAIN start' :
                             start'[f].at # None /\ ~start'[f].failing => ~Past(start'[f], 11, 2)
      BY DEF BehindInv
    <2>1. Past(start[h], 11, 2) => Past(start'[h], 11, 2)
      <3> DEFINE w == start'[h].version
                 j == start'[h].next
                 n == Len(Statements(v))
      <3>1. IF k < n THEN w = v /\ j = k + 1 ELSE w = v + 1 /\ j = 1
        BY <1>2 DEF MovesOn
      <3>2. v \in 1..25 /\ k \in 1..4
        BY <1>2, PlaceAtMost
      <3> HIDE DEF v, k, w, j, n
      <3>3. Earlier(11, 2, v, k) => Earlier(11, 2, w, j)
        BY <3>1, <3>2 DEF Earlier
      <3> QED BY <3>3 DEF Past, v, k, w, j
    <2>2. /\ g \in DOMAIN start /\ Lone(start[g], server) /\ ~start[g].misread /\ ~db.scar
          /\ ~Past(start[g], 11, 2)
      BY <1>1, <1>2, <2>1 DEF Goes
    <2>3. /\ db.version <= 10
          /\ \A f \in DOMAIN start : start[f].at # None /\ ~start[f].failing => ~Past(start[f], 11, 2)
      BY <2>2 DEF BehindInv
    <2>4. ASSUME start[h].at # None PROVE ~Past(start[h], 11, 2)
      BY <1>1, <2>3, <2>4
    <2>5. db'.version <= 10
      BY <1>1, <1>2, <1>7, <2>3, <2>4
    <2>6. ASSUME NEW f \in DOMAIN start', start'[f].at # None, ~start'[f].failing
          PROVE  ~Past(start'[f], 11, 2)
      <3>1. CASE f = h
        BY <1>1, <1>7, <2>4, <2>6, <3>1 DEF Goes
      <3>2. CASE f # h
        BY <1>1, <2>3, <2>6, <3>2 DEF Goes
      <3> QED BY <3>1, <3>2
    <2> QED BY <2>5, <2>6
  <1>9. IndexInv'
    <2> SUFFICES ASSUME NEW g \in DOMAIN start', Lone(start'[g], server'), ~start'[g].failing, ~db'.scar
                 PROVE  Indexed(start'[g], server'[start'[g].at].dim, db')
      BY DEF IndexInv, Dimension
    <2>1. g \in DOMAIN start /\ Lone(start[g], server) /\ ~start[g].failing /\ ~db.scar
          /\ start'[g].at = start[g].at
      BY <1>1, <1>2 DEF Goes
    <2>2. Indexed(start[g], server[start[g].at].dim, db)
      BY <2>1 DEF IndexInv, Dimension
    <2>3. CASE g # h
      BY <1>1, <2>1, <2>2, <2>3 DEF Goes, Indexed
    <2>4. CASE g = h
      <3>1. CASE s[1] = "validate"
        <4>1. v = 25 /\ k = 1
          BY <1>2, <3>1 DEF Kind
        <4>2. start'[h].version = 25 /\ start'[h].next = 2
          BY <1>2, <4>1, Script25 DEF MovesOn
        <4> QED BY <1>1, <2>1, <2>4, <3>1, <4>2 DEF Indexed, Past, Earlier, Dimension
      <3>2. CASE s[1] # "validate"
        <4>1. v \in 1..24
          <5>1. s[1] = "record" \/ s[1] \in {"inspect", "normalise"}
            BY <1>1, <3>2 DEF Looks
          <5>2. v = 14 \/ v <= 24
            BY <1>2, <5>1 DEF Kind
          <5>3. v \in 1..25
            BY <1>2
          <5> HIDE DEF v
          <5> QED BY <5>2, <5>3
        <4>2. \/ start'[h].version = v
              \/ start'[h].version = v + 1 /\ start'[h].next = 1
          BY <1>2 DEF MovesOn
        <4>3. \/ start'[h].version \in 1..24
              \/ start'[h].version = 25 /\ start'[h].next = 1
          BY <4>1, <4>2
        <4> QED BY <2>4, <4>3 DEF Indexed, Past, Earlier
      <3> QED BY <3>1, <3>2
    <2> QED BY <2>3, <2>4
  <1> QED BY <1>5, <1>6, <1>8, <1>9, WalkPlaces

LEMMA InspectStart ==
    ASSUME SInv, NEW h \in DOMAIN start, Inspect(h)
    PROVE  SInv' /\ Walks(h)
  <1> DEFINE f == db.unknown
  <1>1. /\ server' = server /\ request' = request /\ call' = call /\ db' = db
        /\ ~Finished(h) /\ Doing(h)[1] = "inspect" /\ Moves(h, [Onward(h) EXCEPT !.failing = f])
    BY DEF Inspect, Doings, StorageUnchangedBut
  <1>2. Goes(h)
    <2> HIDE DEF f
    <2> QED BY <1>1, OnwardGoes DEF SInv
  <1>3. ~start[h].failing
    <2>1. Kind(start[h].version, start[h].next, Doing(h))
      BY <1>1, AtPlace DEF SInv
    <2>2. start[h].next = 1
      BY <1>1, <2>1 DEF Kind
    <2> QED BY <2>2 DEF SInv, PlacesInv, Place
  <1>4. DbFields \subseteq DOMAIN db
    BY DEF SInv, FieldsInv
  <1>5. Walks(h)
    BY <1>1, <1>2, <1>3, <1>4 DEF Walks, Looks
  <1> QED BY <1>5, WalkStart

LEMMA ValidateStart ==
    ASSUME SInv, NEW h \in DOMAIN start, Validate(h)
    PROVE  SInv' /\ Walks(h)
  <1> DEFINE g == (db.meta = Dimension(h))
             f == Dimension(h) = 0 \/ \E m \in DOMAIN dims : dims[m] # Dimension(h)
  <1>1. /\ server' = server /\ request' = request /\ call' = call /\ db' = db
        /\ ~Finished(h) /\ Doing(h)[1] = "validate"
        /\ Moves(h, [Onward(h) EXCEPT !.same = g, !.failing = f])
    BY DEF Validate, Doings, StorageUnchangedBut
  <1>2. (g => db.meta = Dimension(h)) /\ (~f => Dimension(h) # 0)
    OBVIOUS
  <1> HIDE DEF f, g
  <1>3. Goes(h)
    BY <1>1, OnwardGoes DEF SInv
  <1>4. start'[h].failing = f /\ start'[h].same = g
    <2>1. StartFields \subseteq DOMAIN start[h]
      BY DEF SInv, FieldsInv
    <2>2. {"failing", "same"} \subseteq DOMAIN Onward(h)
      BY <2>1 DEF Onward, StartFields
    <2> QED BY <1>1, <2>2 DEF Moves
  <1>5. ~start[h].failing
    <2>1. Kind(start[h].version, start[h].next, Doing(h))
      BY <1>1, AtPlace DEF SInv
    <2>2. start[h].next = 1
      BY <1>1, <2>1 DEF Kind
    <2> QED BY <2>2 DEF SInv, PlacesInv, Place
  <1>6. DbFields \subseteq DOMAIN db
    BY DEF SInv, FieldsInv
  <1>7. Walks(h)
    BY <1>1, <1>2, <1>3, <1>4, <1>5, <1>6 DEF Walks, Looks
  <1> QED BY <1>7, WalkStart

LEMMA RecordStart ==
    ASSUME SInv, NEW h \in DOMAIN start, RecordVersion(h)
    PROVE  SInv' /\ Walks(h)
  <1>1. /\ server' = server /\ request' = request /\ call' = call
        /\ ~Finished(h) /\ Doing(h)[1] = "record" /\ Moves(h, Onward(h)) /\ ~start[h].failing
        /\ db' = db \/ db' = After(Doing(h), 0)
    BY DEF RecordVersion, Doings, StorageUnchangedBut
  <1>2. Goes(h) /\ start'[h].failing = start[h].failing
    <2>1. StartFields \subseteq DOMAIN start[h]
      BY DEF SInv, FieldsInv
    <2>2. start'[h].failing = start[h].failing
      BY <1>1, <2>1 DEF Moves, Onward, StartFields
    <2> QED BY <1>1, <2>2, OnwardGoes DEF SInv
  <1>3. DbFields \subseteq DOMAIN db
    BY DEF SInv, FieldsInv
  <1>4. Doing(h)[2] = start[h].version
    <2>1. Kind(start[h].version, start[h].next, Doing(h))
      BY <1>1, AtPlace DEF SInv
    <2> QED BY <1>1, <2>1 DEF Kind
  <1>5. /\ DbFields \subseteq DOMAIN db'
        /\ db'.schema = db.schema /\ db'.hnsw = db.hnsw /\ db'.meta = db.meta
        /\ db'.blank = db.blank /\ db'.legacy = db.legacy /\ db'.scar = db.scar
        /\ db'.version = db.version \/ db'.version = start[h].version
    <2>1. CASE db' = db
      BY <1>3, <2>1
    <2>2. CASE db' = After(Doing(h), 0)
      <3>1. db' = [db EXCEPT !.version = IF Doing(h)[2] > @ THEN Doing(h)[2] ELSE @]
        BY <1>1, <2>2 DEF After
      <3> QED BY <1>3, <1>4, <3>1 DEF DbFields
    <2> QED BY <1>1, <2>1, <2>2
  <1>6. Walks(h)
    BY <1>1, <1>2, <1>5 DEF Walks, Looks
  <1> QED BY <1>6, WalkStart

\* One row of an older program is put right, the start stays where it is.
LEMMA NormaliseRow ==
    ASSUME SInv, NEW h \in DOMAIN start, NEW r \in db.legacy, ~Finished(h),
           Doing(h)[1] = "normalise", ~start[h].failing,
           db' = [db EXCEPT !.legacy = @ \ {r}],
           UNCHANGED <<start, server, request, call>>
    PROVE  SInv'
  <1> USE DEF SInv
  <1>1. /\ DbFields \subseteq DOMAIN db'
        /\ db'.schema = db.schema /\ db'.hnsw = db.hnsw /\ db'.meta = db.meta
        /\ db'.blank = db.blank /\ db'.scar = db.scar /\ db'.version = db.version
        /\ db'.legacy \subseteq db.legacy
    BY DEF FieldsInv, DbFields
  <1>2. (Marked' <=> Marked) /\ (Redone' <=> Redone)
    BY DEF Marked, Redone
  <1>3. ASSUME NEW v, NEW k, Reached(v, k, db, Marked) PROVE Reached(v, k, db', Marked')
    <2>1. Agrees(db') <=> Agrees(db)
      BY <1>1 DEF Agrees
    <2> QED BY <1>1, <1>2, <1>3, <2>1 DEF Reached
  <1>4. FieldsInv'
    BY <1>1 DEF FieldsInv
  <1>5. HostsInv'
    BY HostsKept DEF HostsInv
  <1>6. PlacesInv' /\ LoneInv'
    BY DEF PlacesInv, LoneInv
  <1>7. VersionInv'
    BY <1>1, <1>2, <1>3 DEF VersionInv
  <1>8. StartedInv'
    BY <1>1, <1>2, <1>3 DEF StartedInv
  <1>9. BehindInv'
    BY <1>1 DEF BehindInv
  <1>10. IndexInv'
    BY <1>1 DEF IndexInv, Indexed, Dimension
  <1>11. ServesAlone'
    BY <1>1 DEF ServesAlone
  <1> QED BY <1>4, <1>5, <1>6, <1>7, <1>8, <1>9, <1>10, <1>11

LEMMA NormaliseStart ==
    ASSUME SInv, NEW h \in DOMAIN start, Normalise(h)
    PROVE  /\ SInv'
           /\ \/ Walks(h)
              \/ \E r \in db.legacy : db' = [db EXCEPT !.legacy = @ \ {r}] /\ start' = start
  <1>1. /\ server' = server /\ request' = request /\ call' = call
        /\ ~Finished(h) /\ Doing(h)[1] = "normalise" /\ ~start[h].failing
        /\ \/ db.legacy = {} /\ Moves(h, Onward(h)) /\ db' = db
           \/ \E r \in db.legacy : db' = [db EXCEPT !.legacy = @ \ {r}] /\ start' = start
    BY DEF Normalise, Doings, StorageUnchangedBut
  <1>2. CASE \E r \in db.legacy : db' = [db EXCEPT !.legacy = @ \ {r}] /\ start' = start
    BY <1>1, <1>2, NormaliseRow
  <1>3. CASE db.legacy = {} /\ Moves(h, Onward(h)) /\ db' = db
    <2>1. StartFields \subseteq DOMAIN start[h] /\ DbFields \subseteq DOMAIN db
      BY DEF SInv, FieldsInv
    <2>2. start'[h].failing = start[h].failing
      BY <1>3, <2>1 DEF Moves, Onward, StartFields
    <2>3. Goes(h)
      BY <1>3, OnwardGoes DEF SInv
    <2>4. Walks(h)
      BY <1>1, <1>3, <2>1, <2>2, <2>3 DEF Walks, Looks
    <2> QED BY <2>4, WalkStart
  <1> QED BY <1>1, <1>2, <1>3

-----------------------------------------------------------------------------
(* How a start ends *)

LEMMA FullIsLaid ==
    ASSUME NEW schema, Tables(26, 1, schema)
    PROVE  FullSchema \subseteq schema
  <1> SUFFICES ASSUME NEW x \in FullSchema PROVE x \in schema
    OBVIOUS
  <1>0. PICK v \in 1..24 : \E i \in DOMAIN Migrations[v] :
          Migrations[v][i][1] = "define" /\ x = Migrations[v][i][2]
    BY DEF FullSchema, SchemaOf, Latest, Range
  <1>1. PICK i \in DOMAIN Migrations[v] :
          Migrations[v][i][1] = "define" /\ x = Migrations[v][i][2]
    BY <1>0
  <1>2. x # "streamName"
    BY DEF FullSchema
  <1>3. i \in 1..Len(Statements(v)) /\ Statements(v)[i] = Migrations[v][i]
    <2>1. Written(v) /\ Len(Statements(v)) \in 1..4
      BY AllWritten, Lengths
    <2> QED BY <2>1 DEF Written
  <1>4. CASE v \notin {9, 10}
    <2>1. Lays(v, i) /\ Earlier(v, i, 26, 1)
      BY <1>1, <1>2, <1>3, <1>4 DEF Lays, Earlier
    <2> QED BY <1>1, <1>3, <2>1 DEF Tables
  <1>5. CASE v \in {9, 10}
    <2>1. x = "nodes"
      BY <1>1, <1>3, <1>5, Script9, Script10
    <2>2. 2 \in 1..Len(Statements(11)) /\ Lays(11, 2) /\ Earlier(11, 2, 26, 1)
      BY Script11 DEF Lays, Earlier
    <2> QED BY <2>1, <2>2, Script11 DEF Tables
  <1> QED BY <1>4, <1>5

\* Nothing but the scar of the database may change, nor what tells the starts apart.
SchemaStays ==
    /\ DbFields \subseteq DOMAIN db'
    /\ db'.schema = db.schema /\ db'.hnsw = db.hnsw /\ db'.meta = db.meta
    /\ db'.blank = db.blank /\ db'.legacy = db.legacy /\ db'.version = db.version
    /\ ~db'.scar => ~db.scar
    /\ DOMAIN server' = Processes
    /\ \A p \in Processes : /\ ServerFields \subseteq DOMAIN server'[p]
                            /\ server'[p].dim = server[p].dim
                            /\ server'[p].disturbed = server[p].disturbed

\* The starts hs end.
Drops(hs) == /\ DOMAIN start' = DOMAIN start \ hs
             /\ \A g \in DOMAIN start' : start'[g] = start[g]

\* A start may end if what has been laid is known to the next one, or a scar tells
\* that it is not.
LEMMA StartsEnd ==
    ASSUME SInv, NEW hs, SchemaStays, Drops(hs), HostsInv', ServesAlone',
           \A h \in DOMAIN start \cap hs :
              ~db'.scar /\ Lone(start[h], server) /\ start[h].misread => Reached(26, 1, db, Marked),
           \A h \in DOMAIN start \cap hs :
              ~db'.scar /\ Marks(start[h], server) => Agrees(db)
    PROVE  SInv'
  <1> USE DEF SInv
  <1>1. \A g \in DOMAIN start' : g \in DOMAIN start /\ start'[g] = start[g]
    BY DEF Drops
  <1>2. \A g \in DOMAIN start' : /\ Lone(start'[g], server') <=> Lone(start[g], server)
                                 /\ Marks(start'[g], server') <=> Marks(start[g], server)
    BY <1>1 DEF Lone, Marks, SchemaStays, HostsInv
  <1>3. FieldsInv'
    BY <1>1 DEF FieldsInv, SchemaStays
  <1>4. PlacesInv' /\ LoneInv'
    BY <1>1, <1>2 DEF PlacesInv, LoneInv
  <1>5. ASSUME ~db'.scar, NEW v, NEW k, Reached(v, k, db, Marked)
        PROVE  Reached(v, k, db', Marked')
    <2>1. Agrees(db') <=> Agrees(db)
      BY DEF Agrees, SchemaStays
    <2>2. Marked => Marked' \/ Agrees(db)
      BY <1>2, <1>5 DEF Marked, Drops
    <2> QED BY <1>5, <2>1, <2>2 DEF Reached, SchemaStays
  <1>6. ASSUME ~db'.scar, ~Redone', Redone PROVE Reached(26, 1, db, Marked)
    <2>1. PICK h \in DOMAIN start : Lone(start[h], server) /\ start[h].misread
      BY <1>6 DEF Redone
    <2>2. h \in hs
      BY <1>1, <1>2, <1>6, <2>1 DEF Redone, Drops
    <2> QED BY <1>6, <2>1, <2>2
  <1>7. VersionInv'
    <2> SUFFICES ASSUME ~db'.scar, ~Redone' PROVE Reached(db'.version + 1, 1, db', Marked')
      BY DEF VersionInv
    <2>1. db'.version = db.version /\ ~db.scar /\ db.version \in 0..24
      BY DEF SchemaStays, FieldsInv
    <2>2. Reached(db.version + 1, 1, db, Marked)
      <3>1. CASE ~Redone
        BY <2>1, <3>1 DEF VersionInv
      <3>2. CASE Redone
        <4>1. Reached(26, 1, db, Marked)
          BY <1>6, <3>2
        <4>2. 26 \in Nat /\ 1 \in Nat /\ db.version + 1 \in Nat /\ db.version + 1 < 26
          BY <2>1
        <4> QED BY <4>1, <4>2, ReachedEarlier
      <3> QED BY <3>1, <3>2
    <2> QED BY <1>5, <2>1, <2>2
  <1>8. StartedInv'
    <2> SUFFICES ASSUME NEW g \in DOMAIN start', start'[g].at # None, ~start'[g].failing, ~db'.scar,
                        Lone(start'[g], server') \/ ~Redone'
                 PROVE  Reached(start'[g].version, start'[g].next, db', Marked')
      BY DEF StartedInv
    <2>1. g \in DOMAIN start /\ start'[g] = start[g] /\ ~db.scar
      BY <1>1 DEF SchemaStays
    <2>2. Reached(start[g].version, start[g].next, db, Marked)
      <3>1. CASE Lone(start[g], server) \/ ~Redone
        BY <2>1, <3>1 DEF StartedInv
      <3>2. CASE ~Lone(start[g], server) /\ Redone
        <4>1. Reached(26, 1, db, Marked)
          BY <1>2, <1>6, <3>2
        <4>2. 26 \in Nat /\ 1 \in Nat /\ start[g].version \in Nat /\ start[g].next \in Nat
          BY <2>1, PlaceIs
        <4>3. start[g].version < 26 \/ (start[g].version = 26 /\ start[g].next <= 1)
          <5>1. \/ start[g].version \in 1..25
                \/ start[g].version = 26 /\ start[g].next = 1
            BY <2>1 DEF PlacesInv, Place
          <5> QED BY <5>1
        <4> QED BY <4>1, <4>2, <4>3, ReachedEarlier
      <3> QED BY <3>1, <3>2
    <2> QED BY <1>5, <2>1, <2>2
  <1>9. BehindInv'
    BY <1>1, <1>2 DEF BehindInv, SchemaStays
  <1>10. IndexInv'
    <2> SUFFICES ASSUME NEW g \in DOMAIN start', Lone(start'[g], server'), ~start'[g].failing, ~db'.scar
                 PROVE  Indexed(start'[g], server'[start'[g].at].dim, db')
      BY DEF IndexInv, Dimension
    <2>1. /\ g \in DOMAIN start /\ start'[g] = start[g] /\ ~db.scar /\ Lone(start[g], server)
          /\ server'[start'[g].at].dim = server[start[g].at].dim
      BY <1>1, <1>2 DEF SchemaStays, HostsInv, Lone
    <2>2. Indexed(start[g], server[start[g].at].dim, db)
      BY <2>1 DEF IndexInv, Dimension
    <2> QED BY <2>1, <2>2 DEF Indexed, SchemaStays
  <1> QED BY <1>3, <1>4, <1>7, <1>8, <1>9, <1>10

\* A start that is cut off.
LEMMA CutOff ==
    ASSUME SInv, NEW hs, hs \subseteq DOMAIN start, Cut(hs), Forget(hs), HostsInv',
           DOMAIN server' = Processes,
           \A p \in Processes : /\ ServerFields \subseteq DOMAIN server'[p]
                                /\ server'[p].dim = server[p].dim
                                /\ server'[p].disturbed = server[p].disturbed
                                /\ server'[p].cell = "ready" => server[p].cell = "ready"
    PROVE  SInv'
  <1> DEFINE marked == \E h \in hs : \/ start[h].misread
                                     \/ Doings(h, {"mark"}) /\ db.meta \notin {0, db.hnsw}
  <1>1. db' = [db EXCEPT !.scar = @ \/ marked]
    BY DEF Cut
  <1>2. DbFields \subseteq DOMAIN db
    BY DEF SInv, FieldsInv
  <1>3. /\ DbFields \subseteq DOMAIN db'
        /\ db'.schema = db.schema /\ db'.hnsw = db.hnsw /\ db'.meta = db.meta
        /\ db'.blank = db.blank /\ db'.legacy = db.legacy /\ db'.version = db.version
        /\ db'.scar <=> db.scar \/ marked
    <2> HIDE DEF marked
    <2> QED BY <1>1, <1>2 DEF DbFields
  <1>4. ~db'.scar => /\ ~db.scar
                     /\ \A h \in hs : /\ ~start[h].misread
                                      /\ Doings(h, {"mark"}) => db.meta \in {0, db.hnsw}
    BY <1>3
  <1> HIDE DEF marked
  <1>5. SchemaStays
    BY <1>3, <1>4 DEF SchemaStays
  <1>6. Drops(hs)
    BY Forgotten DEF Drops
  <1>7. ServesAlone'
    BY <1>3, <1>4 DEF SInv, ServesAlone
  <1>8. ASSUME NEW h \in hs, ~db'.scar, Marks(start[h], server) PROVE Agrees(db)
    <2>1. start[h].version = 25 /\ start[h].next = 4 /\ start[h].at # None
      BY <1>8 DEF Marks, Lone
    <2>2. Doing(h) = <<"mark", 0>>
      BY <2>1, Script25 DEF Doing
    <2>3. ~Finished(h)
      BY <2>1, <2>2 DEF Finished, Latest
    <2>4. Doings(h, {"mark"})
      BY <2>2, <2>3 DEF Doings
    <2> QED BY <1>4, <1>8, <2>4 DEF Agrees
  <1> QED BY <1>4, <1>5, <1>6, <1>7, <1>8, StartsEnd

LEMMA PlaceEnd ==
    ASSUME PlacesInv, NEW h \in DOMAIN start, start[h].version > 25
    PROVE  start[h].version = 26 /\ start[h].next = 1
  <1>1. \/ start[h].version \in 1..25
        \/ start[h].version = 26 /\ start[h].next = 1
    BY DEF PlacesInv, Place
  <1> QED BY <1>1

\* A start that has come to its end leaves the whole schema behind.
LEMMA SuccessServes ==
    ASSUME SInv, NEW h \in DOMAIN start, start[h].version = 26, start[h].at # None,
           ~start[h].failing, ~db.scar, Lone(start[h], server)
    PROVE  /\ Reached(26, 1, db, Marked)
           /\ db.schema = FullSchema /\ db.blank /\ db.legacy = {}
           /\ db.hnsw = server[start[h].at].dim
  <1>1. start[h].next = 1
    BY PlaceEnd DEF SInv
  <1>2. Reached(26, 1, db, Marked)
    BY <1>1 DEF SInv, StartedInv
  <1>3. db.blank /\ db.legacy = {} /\ "streamName" \notin db.schema
    BY <1>2 DEF Reached, Earlier
  <1>4. FullSchema \subseteq db.schema
    BY <1>2, FullIsLaid DEF Reached
  <1>5. db.schema = FullSchema
    BY <1>3, <1>4 DEF SInv, FieldsInv
  <1>6. Indexed(start[h], Dimension(h), db) /\ Past(start[h], 25, 3)
    BY DEF SInv, IndexInv, Past, Earlier
  <1> QED BY <1>2, <1>3, <1>5, <1>6 DEF Indexed, Dimension

LEMMA StartsOf ==
    ASSUME SInv, NEW h \in DOMAIN start, Finished(h), ~IsRepair(h)
    PROVE  start[h].version = 26 /\ start[h].at \in Processes
  <1>1. start[h].version = 26
    <2>1. start[h].version > 25
      BY DEF Finished, Latest
    <2> QED BY <2>1, PlaceEnd DEF SInv
  <1>2. start[h].at # None
    BY <1>1 DEF SInv, PlacesInv, Place
  <1> QED BY <1>1, <1>2 DEF SInv, HostsInv

\* Where the process of a start stands when that has ended.
Frees(p, cell) ==
    /\ DOMAIN server' = Processes
    /\ \A q \in Processes : /\ ServerFields \subseteq DOMAIN server'[q]
                            /\ server'[q].dim = server[q].dim
                            /\ server'[q].disturbed = server[q].disturbed
                            /\ q # p => server'[q] = server[q]
                            /\ q = p => server'[q].cell = cell

LEMMA EndMain ==
    ASSUME SInv, NEW h \in DOMAIN start, h \in Processes, Forget({h}), NEW cell, NEW up,
           up = "up" \/ (up = "down" /\ cell = "empty"), EndOfMain(h, cell, up)
    PROVE  HostsInv' /\ start[h].at = h /\ Frees(h, cell)
  <1> USE DEF SInv
  <1>1. DOMAIN start' = DOMAIN start \ {h} /\ \A g \in DOMAIN start' : start'[g] = start[g]
    BY Forgotten
  <1>2. /\ server' = [server EXCEPT ![h].cell = cell, ![h].up = up]
        /\ request' = request /\ call' = call
    BY DEF EndOfMain, StorageUnchangedBut
  <1>3. start[h].at = h /\ h # None /\ server[h].up = "starting"
    BY NameAssumption DEF HostsInv
  <1>4. Frees(h, cell) /\ server'[h].up = up
    BY <1>2 DEF Frees, FieldsInv, ServerFields
  <1>5. \A g \in DOMAIN start' : start[g].at # None => start[g].at \in Processes \ {h}
    BY <1>1, <1>3 DEF HostsInv
  <1>6. \A c \in DOMAIN call : request[c].stage = "runtime" => request[c].at \in Processes \ {h}
    BY <1>3 DEF HostsInv
  <1>7. \A q \in Processes : /\ server'[q].up = "down" => server'[q].cell = "empty"
                             /\ server'[q].cell = "ready" => server'[q].up = "up"
    BY <1>4 DEF Frees, HostsInv
  <1>8. \A g \in DOMAIN start' : start[g].at # None =>
              /\ server'[start[g].at].cell = server[start[g].at].cell
              /\ server'[start[g].at].up = server[start[g].at].up
    BY <1>4, <1>5 DEF Frees
  <1>9. \A c \in DOMAIN call : request'[c].stage = "runtime" =>
              /\ request'[c].at \in Processes /\ server'[request'[c].at].up = "up"
              /\ call'[c].req.op # "repairData"
    BY <1>2, <1>4, <1>6 DEF Frees, HostsInv
  <1>10. \A c \in DOMAIN call :
              /\ request'[c].stage = "new" => request'[c].at = None
              /\ request'[c].stage \in {"new", "runtime"} => call'[c].pc = "start"
    BY <1>2 DEF HostsInv
  <1>11. HostsInv'
    BY <1>1, <1>2, <1>7, <1>8, <1>9, <1>10, HostsKept
  <1> QED BY <1>3, <1>4, <1>11

LEMMA EndRepair ==
    ASSUME AInv, SInv, NEW c \in DOMAIN call, Forget({c}), NEW answer,
           Stage(c, "done"), OnlyCall(c, End(c, answer)), server' = server
    PROVE  HostsInv'
  <1> USE DEF SInv
  <1>1. DOMAIN start' = DOMAIN start \ {c} /\ \A g \in DOMAIN start' : start'[g] = start[g]
    BY Forgotten
  <1>2. Others(c) /\ request'[c].stage = "done"
    BY Staged, OnlyOne DEF Others
  <1>3. \A d \in DOMAIN call : d # c => request'[d] = request[d] /\ call'[d] = call[d]
    BY <1>2 DEF Others
  <1>4. DOMAIN call' = DOMAIN call
    BY <1>2 DEF Others
  <1>5. \A d \in DOMAIN call :
              /\ request'[d].stage = "new" => request'[d].at = None
              /\ request'[d].stage \in {"new", "runtime"} => call'[d].pc = "start"
              /\ request'[d].stage = "runtime" =>
                    /\ request'[d].at \in Processes /\ server'[request'[d].at].up = "up"
                    /\ call'[d].req.op # "repairData"
    BY <1>2, <1>3 DEF HostsInv
  <1>6. \A g \in DOMAIN start' \cap DOMAIN call :
              /\ request'[g].stage = request[g].stage /\ request'[g].at = request[g].at
              /\ call'[g].req.op = call[g].req.op
    BY <1>1, <1>3
  <1> QED BY <1>1, <1>4, <1>5, <1>6, HostsKept DEF HostsInv

LEMMA EndRequest ==
    ASSUME AInv, SInv, NEW c \in DOMAIN call, c \in DOMAIN start, Forget({c}), NEW rec,
           NEW cell \in {"ready", "empty"}, NEW stage \in {"handler", "done"},
           start[c].at \in Processes, Stage(c, stage), OnlyCall(c, rec),
           server' = [server EXCEPT ![start[c].at].cell = cell]
    PROVE  HostsInv' /\ Frees(start[c].at, cell)
  <1> USE DEF SInv
  <1> DEFINE p == start[c].at
  <1>1. DOMAIN start' = DOMAIN start \ {c} /\ \A g \in DOMAIN start' : start'[g] = start[g]
    BY Forgotten
  <1>2. Others(c) /\ request'[c].stage = stage
    BY Staged, OnlyOne DEF Others
  <1>3. \A d \in DOMAIN call : d # c => request'[d] = request[d] /\ call'[d] = call[d]
    BY <1>2 DEF Others
  <1>4. DOMAIN call' = DOMAIN call
    BY <1>2 DEF Others
  <1>5. Frees(p, cell) /\ \A q \in Processes : server'[q].up = server[q].up
    BY DEF Frees, FieldsInv, ServerFields
  <1>6. p # None /\ server[p].up = "up" /\ c \notin Processes
    BY NameAssumption DEF HostsInv
  <1>7. \A g \in DOMAIN start' : start[g].at # None => start[g].at \in Processes \ {p}
    BY <1>1, <1>6 DEF HostsInv
  <1>8. \A d \in DOMAIN call :
              /\ request'[d].stage = "new" => request'[d].at = None
              /\ request'[d].stage \in {"new", "runtime"} => call'[d].pc = "start"
              /\ request'[d].stage = "runtime" =>
                    /\ request'[d].at \in Processes /\ server'[request'[d].at].up = "up"
                    /\ call'[d].req.op # "repairData"
    BY <1>2, <1>3, <1>5 DEF HostsInv
  <1>9. \A g \in DOMAIN start' \cap DOMAIN call :
              /\ request'[g].stage = request[g].stage /\ request'[g].at = request[g].at
              /\ call'[g].req.op = call[g].req.op
    BY <1>1, <1>3
  <1>10. \A q \in Processes : /\ server'[q].up = "down" => server'[q].cell = "empty"
                              /\ server'[q].cell = "ready" => server'[q].up = "up"
    BY <1>5, <1>6 DEF Frees, HostsInv
  <1>11. \A g \in DOMAIN start' : start[g].at # None =>
              /\ server'[start[g].at].cell = server[start[g].at].cell
              /\ server'[start[g].at].up = server[start[g].at].up
    BY <1>5, <1>7 DEF Frees
  <1>12. HostsInv'
    BY <1>1, <1>4, <1>8, <1>9, <1>10, <1>11, HostsKept
  <1> QED BY <1>5, <1>12

LEMMA SucceedsStart ==
    ASSUME IInv, AInv, SInv, NEW h \in DOMAIN start, Succeeds(h)
    PROVE  SInv'
  <1> USE DEF SInv
  <1>1. db' = db /\ Forget({h}) /\ Finished(h) /\ ~start[h].failing
    BY DEF Succeeds
  <1>2. Drops({h}) /\ DbFields \subseteq DOMAIN db'
    BY <1>1, Forgotten DEF Drops, FieldsInv
  <1>3. CASE IsRepair(h)
    <2>1. h \in DOMAIN call /\ h \notin Processes /\ start[h].at = None
      BY <1>3 DEF IsRepair, HostsInv, Op, Req
    <2>2. Stage(h, "done") /\ OnlyCall(h, End(h, "ok")) /\ server' = server
      BY <1>3, <2>1 DEF Succeeds, EndOfRepair
    <2>3. HostsInv'
      BY <1>1, <2>1, <2>2, EndRepair
    <2>4. SchemaStays /\ ServesAlone'
      BY <1>1, <1>2, <2>2 DEF SchemaStays, FieldsInv, ServesAlone
    <2>5. ~Lone(start[h], server) /\ ~Marks(start[h], server)
      BY <2>1 DEF Lone, Marks
    <2> QED BY <1>2, <2>3, <2>4, <2>5, StartsEnd
  <1>4. CASE ~IsRepair(h)
    <2> DEFINE p == start[h].at
    <2>1. start[h].version = 26 /\ p \in Processes /\ p # None
      BY <1>1, <1>4, StartsOf, NameAssumption
    <2>2. HostsInv' /\ Frees(p, "ready")
      <3>1. CASE h \in Processes
        <4>1. EndOfMain(h, "ready", "up")
          BY <3>1 DEF Succeeds
        <4> QED BY <1>1, <3>1, <4>1, EndMain
      <3>2. CASE h \notin Processes
        <4> DEFINE rec == call[h]
        <4>1. Stage(h, "handler") /\ OnlyCall(h, rec) /\ server' = [server EXCEPT ![p].cell = "ready"]
          BY <1>4, <3>2 DEF Succeeds, EndOfRequest
        <4>2. h \in DOMAIN call
          BY <3>2 DEF HostsInv
        <4> HIDE DEF rec
        <4> QED BY <1>1, <2>1, <4>1, <4>2, EndRequest
      <3> QED BY <3>1, <3>2
    <2>3. ASSUME ~db.scar, Lone(start[h], server)
          PROVE  /\ Reached(26, 1, db, Marked)
                 /\ db.schema = FullSchema /\ db.blank /\ db.legacy = {} /\ db.hnsw = server[p].dim
      BY <1>1, <2>1, <2>3, SuccessServes
    <2>4. ServesAlone'
      <3> SUFFICES ASSUME NEW q \in Processes, server'[q].cell = "ready", ~server'[q].disturbed, ~db'.scar
                   PROVE  /\ db'.schema = FullSchema /\ db'.blank /\ db'.legacy = {}
                          /\ db'.hnsw = server'[q].dim
        BY DEF ServesAlone
      <3>1. CASE q = p
        <4>1. Lone(start[h], server) /\ ~db.scar /\ server'[q].dim = server[p].dim
          BY <1>1, <2>1, <2>2, <3>1 DEF Lone, Frees
        <4> QED BY <1>1, <2>3, <4>1
      <3>2. CASE q # p
        BY <1>1, <2>2, <3>2 DEF Frees, ServesAlone
      <3> QED BY <3>1, <3>2
    <2>5. SchemaStays
      BY <1>1, <1>2, <2>2 DEF SchemaStays, Frees
    <2>6. ~Marks(start[h], server)
      BY <2>1 DEF Marks
    <2>7. ~db'.scar /\ Lone(start[h], server) => Reached(26, 1, db, Marked)
      BY <1>1, <2>3
    <2> QED BY <1>2, <2>2, <2>4, <2>5, <2>6, <2>7, StartsEnd
  <1> QED BY <1>3, <1>4

LEMMA FailsStart ==
    ASSUME IInv, AInv, SInv, NEW h \in DOMAIN start, Fails(h)
    PROVE  SInv'
  <1> USE DEF SInv
  <1>1. Cut({h}) /\ Forget({h})
    BY DEF Fails
  <1>2. CASE h \notin Processes /\ IsRepair(h)
    <2>1. Stage(h, "done") /\ OnlyCall(h, End(h, "error")) /\ server' = server /\ h \in DOMAIN call
      BY <1>2 DEF Fails, EndOfRepair, IsRepair
    <2>2. HostsInv'
      BY <1>1, <2>1, EndRepair
    <2> QED BY <1>1, <2>1, <2>2, CutOff DEF FieldsInv
  <1>3. CASE h \in Processes
    <2>1. EndOfMain(h, "empty", "down")
      BY <1>3 DEF Fails
    <2>2. HostsInv' /\ Frees(h, "empty")
      BY <1>1, <1>3, <2>1, EndMain
    <2> QED BY <1>1, <2>2, CutOff DEF Frees
  <1>4. CASE h \notin Processes /\ ~IsRepair(h)
    <2> DEFINE rec == End(h, "unavailable")
               p == start[h].at
    <2>1. /\ Stage(h, "done") /\ OnlyCall(h, rec) /\ server' = [server EXCEPT ![p].cell = "empty"]
      BY <1>4 DEF Fails, EndOfRequest, CellFreed
    <2>2. h \in DOMAIN call /\ p \in Processes
      BY <1>4 DEF HostsInv, IsRepair, Op, Req
    <2> HIDE DEF rec
    <2>3. HostsInv' /\ Frees(p, "empty")
      BY <1>1, <2>1, <2>2, EndRequest
    <2> QED BY <1>1, <2>3, CutOff DEF Frees
  <1> QED BY <1>2, <1>3, <1>4

LEMMA CrashStart ==
    ASSUME IInv, AInv, SInv, NEW p \in Processes, Crash(p)
    PROVE  SInv'
  <1> USE DEF SInv
  <1> DEFINE lost == {c \in DOMAIN call : Host(c) = p /\ ~At(c, "done")}
             starts == {h \in DOMAIN start : start[h].at = p}
  <1>1. /\ request' = [c \in DOMAIN call |->
                         IF c \in lost THEN [request[c] EXCEPT !.stage = "done"] ELSE request[c]]
        /\ call' = [c \in DOMAIN call |-> IF c \in lost THEN End(c, "dropped") ELSE call[c]]
        /\ server' = [server EXCEPT ![p].up = "down", ![p].cell = "empty"]
        /\ Cut(starts) /\ Forget(starts)
    BY DEF Crash, StorageUnchangedBut
  <1>2. DOMAIN start' = DOMAIN start \ starts /\ \A g \in DOMAIN start' : start'[g] = start[g]
    BY <1>1, Forgotten
  <1>3. Frees(p, "empty") /\ server'[p].up = "down"
    BY <1>1 DEF Frees, FieldsInv, ServerFields
  <1>4. ASSUME NEW c \in DOMAIN call
        PROVE  \/ c \in lost /\ request'[c].stage = "done"
               \/ c \notin lost /\ request'[c] = request[c] /\ call'[c] = call[c]
    <2>1. "stage" \in DOMAIN request[c]
      BY DEF AInv, RequestsInv, ClientFields
    <2> HIDE DEF lost
    <2> QED BY <1>1, <2>1
  <1>5. ASSUME NEW c \in DOMAIN call, request[c].at = p, request[c].stage = "runtime"
        PROVE  c \in lost
    BY <1>5 DEF HostsInv, Host, At
  <1>6. \A g \in DOMAIN start' : start'[g].at # p
    BY <1>2
  <1>7. ASSUME NEW g \in DOMAIN start', g \in DOMAIN call
        PROVE  g \notin lost
    <2>1. g \notin Processes /\ g \in DOMAIN start /\ start[g].at # p
      BY <1>2, <1>7 DEF HostsInv
    <2> QED BY <2>1 DEF HostsInv, Host
  <1>8. DOMAIN call' = DOMAIN call
    BY <1>1
  <1> HIDE DEF lost
  <1>9. \A g \in DOMAIN start' \cap DOMAIN call :
              /\ request'[g].stage = request[g].stage /\ request'[g].at = request[g].at
              /\ call'[g].req.op = call[g].req.op
    BY <1>4, <1>7
  <1>10. \A c \in DOMAIN call :
              /\ request'[c].stage = "new" => request'[c].at = None
              /\ request'[c].stage \in {"new", "runtime"} => call'[c].pc = "start"
    BY <1>4 DEF HostsInv
  <1>11. \A c \in DOMAIN call : request'[c].stage = "runtime" =>
              /\ request'[c].at \in Processes /\ server'[request'[c].at].up = "up"
              /\ call'[c].req.op # "repairData"
    BY <1>3, <1>4, <1>5 DEF HostsInv, Frees
  <1>12. \A g \in DOMAIN start' : start[g].at # None =>
              /\ server'[start[g].at].cell = server[start[g].at].cell
              /\ server'[start[g].at].up = server[start[g].at].up
    BY <1>2, <1>3, <1>6 DEF HostsInv, Frees
  <1>13. \A q \in Processes : /\ server'[q].up = "down" => server'[q].cell = "empty"
                              /\ server'[q].cell = "ready" => server'[q].up = "up"
    BY <1>3 DEF Frees, HostsInv
  <1>14. HostsInv'
    BY <1>2, <1>8, <1>9, <1>10, <1>11, <1>12, <1>13, HostsKept
  <1>15. starts \subseteq DOMAIN start
    OBVIOUS
  <1> HIDE DEF starts
  <1> QED BY <1>1, <1>3, <1>14, <1>15, CutOff DEF Frees

LEMMA DisconnectStart ==
    ASSUME IInv, AInv, SInv, NEW c \in DOMAIN call, Disconnect(c)
    PROVE  SInv'
  <1> USE DEF SInv
  <1> DEFINE rec == End(c, "dropped")
             p == request[c].at
  <1>1. /\ Stage(c, "done") /\ OnlyCall(c, rec) /\ Forget({c}) /\ Cut({c} \cap DOMAIN start)
        /\ server' = [server EXCEPT ![p].cell = IF c \in DOMAIN start THEN "empty" ELSE @]
        /\ p # None
    BY DEF Disconnect, Host, CellFreed
  <1>2. CASE c \in DOMAIN start
    <2>1. start[c].at = p /\ p \in Processes
      BY <1>1, <1>2 DEF HostsInv
    <2>2. server' = [server EXCEPT ![start[c].at].cell = "empty"]
      BY <1>1, <1>2, <2>1
    <2>3. HostsInv' /\ Frees(start[c].at, "empty")
      <3> HIDE DEF rec
      <3> QED BY <1>1, <1>2, <2>1, <2>2, EndRequest
    <2>4. Cut({c}) /\ {c} \subseteq DOMAIN start
      <3>1. {c} \cap DOMAIN start = {c}
        BY <1>2
      <3> QED BY <1>1, <1>2, <3>1
    <2> QED BY <1>1, <2>3, <2>4, CutOff DEF Frees
  <1>3. CASE c \notin DOMAIN start
    <2>1. /\ DOMAIN server' = Processes
          /\ \A q \in Processes : /\ ServerFields \subseteq DOMAIN server'[q]
                                  /\ server'[q].dim = server[q].dim /\ server'[q].up = server[q].up
                                  /\ server'[q].disturbed = server[q].disturbed
                                  /\ server'[q].cell = server[q].cell
      BY <1>1, <1>3 DEF FieldsInv, ServerFields
    <2>2. DOMAIN start' = DOMAIN start /\ \A g \in DOMAIN start' : start'[g] = start[g]
      BY <1>1, <1>3, Forgotten
    <2>3. Others(c) /\ request'[c].stage = "done"
      <3> HIDE DEF rec
      <3> QED BY <1>1, Staged, OnlyOne DEF Others
    <2>4. \A d \in DOMAIN call :
              /\ request'[d].stage = "new" => request'[d].at = None
              /\ request'[d].stage \in {"new", "runtime"} => call'[d].pc = "start"
              /\ request'[d].stage = "runtime" =>
                    /\ request'[d].at \in Processes /\ server'[request'[d].at].up = "up"
                    /\ call'[d].req.op # "repairData"
      BY <2>1, <2>3 DEF HostsInv, Others
    <2>5. \A g \in DOMAIN start' \cap DOMAIN call :
              /\ request'[g].stage = request[g].stage /\ request'[g].at = request[g].at
              /\ call'[g].req.op = call[g].req.op
      BY <1>3, <2>2, <2>3 DEF Others
    <2>6. \A g \in DOMAIN start' : start[g].at # None =>
              /\ server'[start[g].at].cell = server[start[g].at].cell
              /\ server'[start[g].at].up = server[start[g].at].up
      BY <2>1, <2>2 DEF HostsInv
    <2>7. \A q \in Processes : /\ server'[q].up = "down" => server'[q].cell = "empty"
                               /\ server'[q].cell = "ready" => server'[q].up = "up"
      BY <2>1 DEF HostsInv
    <2>8. HostsInv'
      BY <2>2, <2>3, <2>4, <2>5, <2>6, <2>7, HostsKept DEF Others
    <2>9. Cut({}) /\ Forget({})
      <3>1. {c} \cap DOMAIN start = {} /\ DOMAIN start \ {c} = DOMAIN start \ {}
        BY <1>3
      <3> QED BY <1>1, <3>1 DEF Forget
    <2> QED BY <2>1, <2>8, <2>9, CutOff
  <1> QED BY <1>2, <1>3

-----------------------------------------------------------------------------
(* How a start begins *)

\* Process p is at it, the others are as they were.
Takes(p) ==
    /\ DOMAIN server' = Processes
    /\ \A q \in Processes : /\ ServerFields \subseteq DOMAIN server'[q]
                            /\ server'[q].dim = server[q].dim
                            /\ q # p => server'[q] = server[q]
    /\ server'[p].cell = "starting" /\ (server'[p].disturbed <=> Overlaps(p))

LEMMA NewPlace ==
    ASSUME NEW n \in 0..24, NEW p, p # None, NEW misread
    PROVE  /\ Place(NewStart(p, n, misread)) /\ StartFields \subseteq DOMAIN NewStart(p, n, misread)
           /\ NewStart(p, n, misread).at = p /\ NewStart(p, n, misread).misread = misread
           /\ NewStart(p, n, misread).version = n + 1 /\ NewStart(p, n, misread).next = 1
           /\ ~NewStart(p, n, misread).failing
  <1>1. n + 1 \in 1..25
    OBVIOUS
  <1>2. Len(Statements(n + 1)) \in 1..4
    BY <1>1, Lengths
  <1>3. 1 \in 1..Len(Statements(n + 1))
    BY <1>2
  <1> QED BY <1>1, <1>3 DEF Place, NewStart, StartFields

LEMMA Begun ==
    ASSUME SInv, NEW h, h \notin DOMAIN start, NEW p \in Processes, NEW cost, Begin(h, p, cost),
           server[p].cell # "starting", Takes(p), db' = db, HostsInv'
    PROVE  SInv'
  <1> USE DEF SInv
  <1>1. PICK n \in 0..24, misread \in BOOLEAN :
          /\ start' = With(start, h, NewStart(p, n, misread))
          /\ ~misread => n = db.version
          /\ misread => n = 0
    <2>1. PICK r \in VersionRead : start' = With(start, h, NewStart(p, r.v, r.cost = 1))
      BY DEF Begin
    <2>2. r.v \in 0..24 /\ (r.cost # 1 => r.v = db.version) /\ (r.cost = 1 => r.v = 0)
      BY <2>1 DEF VersionRead, FieldsInv
    <2> DEFINE m == (r.cost = 1)
    <2>3. m \in BOOLEAN /\ start' = With(start, h, NewStart(p, r.v, m))
      BY <2>1
    <2> QED BY <2>2, <2>3
  <1>2. p # None
    BY NameAssumption
  <1>3. /\ DOMAIN start' = DOMAIN start \cup {h}
        /\ \A g \in DOMAIN start : start'[g] = start[g]
        /\ start'[h] = NewStart(p, n, misread)
    <2> DEFINE new == NewStart(p, n, misread)
    <2>1. start' = With(start, h, new)
      BY <1>1
    <2> HIDE DEF new
    <2> QED BY <2>1 DEF With, new
  <1>4. /\ Place(start'[h]) /\ StartFields \subseteq DOMAIN start'[h] /\ start'[h].at = p
        /\ start'[h].misread = misread /\ start'[h].version = n + 1 /\ start'[h].next = 1
        /\ ~start'[h].failing
    BY <1>2, <1>3, NewPlace
  <1>5. \A g \in DOMAIN start : start[g].at # p
    BY <1>2 DEF HostsInv
  <1>6. \A g \in DOMAIN start : Lone(start'[g], server') <=> Lone(start[g], server)
    BY <1>3, <1>5 DEF Lone, Takes, HostsInv
  <1>7. Lone(start'[h], server') => \A g \in DOMAIN start : start[g].at = None
    BY <1>4, <1>5 DEF Lone, Takes, Overlaps
  <1>8. Marked' <=> Marked
    <2>1. ~Marks(start'[h], server')
      BY <1>4 DEF Marks
    <2>2. \A g \in DOMAIN start : Marks(start'[g], server') <=> Marks(start[g], server)
      BY <1>3, <1>6 DEF Marks
    <2> QED BY <1>3, <2>1, <2>2 DEF Marked
  <1>9. ~Redone' \/ Lone(start'[h], server') => ~Redone
    BY <1>3, <1>6, <1>7 DEF Redone, Lone
  <1>10. \A v, k : Reached(v, k, db, Marked) => Reached(v, k, db', Marked')
    BY <1>8
  <1>11. FieldsInv'
    BY <1>3, <1>4 DEF FieldsInv, Takes
  <1>12. PlacesInv'
    BY <1>3, <1>4 DEF PlacesInv
  <1>13. LoneInv'
    BY <1>3, <1>6, <1>7 DEF LoneInv, Lone
  <1>14. VersionInv'
    BY <1>9, <1>10 DEF VersionInv
  <1>15. StartedInv'
    <2> SUFFICES ASSUME NEW g \in DOMAIN start', start'[g].at # None, ~start'[g].failing, ~db'.scar,
                        Lone(start'[g], server') \/ ~Redone'
                 PROVE  Reached(start'[g].version, start'[g].next, db', Marked')
      BY DEF StartedInv
    <2>1. CASE g # h
      BY <1>3, <1>6, <1>9, <1>10, <2>1 DEF StartedInv
    <2>2. CASE g = h /\ misread
      <3>1. start'[h].version = 1 /\ start'[h].next = 1
        BY <1>1, <1>4, <2>2
      <3> DEFINE m == Marked'
      <3>2. Reached(1, 1, db', m)
        <4> HIDE DEF m
        <4> QED BY NothingBefore
      <3> QED BY <2>2, <3>1, <3>2
    <2>3. CASE g = h /\ ~misread
      <3>1. ~Redone /\ ~db.scar
        BY <1>9, <2>3
      <3>2. Reached(db.version + 1, 1, db, Marked)
        BY <3>1 DEF VersionInv
      <3> QED BY <1>1, <1>4, <1>10, <2>3, <3>2
    <2> QED BY <2>1, <2>2, <2>3
  <1>16. BehindInv'
    <2> SUFFICES ASSUME NEW g \in DOMAIN start', Lone(start'[g], server'), ~start'[g].misread,
                        ~db'.scar, ~Past(start'[g], 11, 2)
                 PROVE  /\ db'.version <= 10
                        /\ \A f \in DOMAIN start' :
                             start'[f].at # None /\ ~start'[f].failing => ~Past(start'[f], 11, 2)
      BY DEF BehindInv
    <2>1. CASE g # h
      <3>1. /\ db.version <= 10
            /\ \A f \in DOMAIN start :
                 start[f].at # None /\ ~start[f].failing => ~Past(start[f], 11, 2)
        BY <1>3, <1>6, <2>1 DEF BehindInv
      <3>2. n <= 10
        BY <1>1, <3>1
      <3>3. ~Past(start'[h], 11, 2)
        BY <1>4, <3>2 DEF Past, Earlier
      <3> QED BY <1>3, <3>1, <3>3
    <2>2. CASE g = h
      <3>1. ~Past(start'[h], 11, 2) /\ ~misread
        BY <1>4, <2>2
      <3>2. n = db.version /\ n <= 10
        BY <1>1, <1>4, <3>1 DEF Past, Earlier
      <3> QED BY <1>3, <1>7, <2>2, <3>1, <3>2
    <2> QED BY <2>1, <2>2
  <1>17. IndexInv'
    <2> SUFFICES ASSUME NEW g \in DOMAIN start', Lone(start'[g], server'), ~start'[g].failing, ~db'.scar
                 PROVE  Indexed(start'[g], server'[start'[g].at].dim, db')
      BY DEF IndexInv, Dimension
    <2>1. CASE g # h
      <3>1. /\ g \in DOMAIN start /\ start'[g] = start[g] /\ Lone(start[g], server)
            /\ server'[start'[g].at].dim = server[start[g].at].dim
        BY <1>3, <1>6, <2>1 DEF Takes, HostsInv, Lone
      <3> QED BY <3>1 DEF IndexInv, Indexed, Dimension
    <2>2. CASE g = h
      BY <1>4, <2>2 DEF Indexed, Past, Earlier
    <2> QED BY <2>1, <2>2
  <1>18. ServesAlone'
    BY DEF ServesAlone, Takes
  <1> QED BY <1>11, <1>12, <1>13, <1>14, <1>15, <1>16, <1>17, <1>18

\* repair-data has no process, and stays with the statements of version 14.
LEMMA RepairBegun ==
    ASSUME SInv, NEW h, h \notin DOMAIN start, start' = With(start, h, NewStart(None, 13, FALSE)),
           server' = server, db' = db, HostsInv'
    PROVE  SInv'
  <1> USE DEF SInv
  <1> DEFINE new == NewStart(None, 13, FALSE)
  <1>1. /\ StartFields \subseteq DOMAIN new /\ new.at = None /\ ~new.failing /\ Place(new)
    <2>1. 1 \in 1..Len(Statements(14))
      BY Script14
    <2> QED BY <2>1 DEF NewStart, StartFields, Place
  <1>2. /\ DOMAIN start' = DOMAIN start \cup {h}
        /\ \A g \in DOMAIN start : start'[g] = start[g]
        /\ start'[h] = new
    <2>1. start' = With(start, h, new)
      OBVIOUS
    <2> HIDE DEF new
    <2> QED BY <2>1 DEF With
  <1> HIDE DEF new
  <1>3. start'[h].at = None
    BY <1>1, <1>2
  <1>4. ~Lone(start'[h], server') /\ ~Marks(start'[h], server')
    BY <1>3 DEF Lone, Marks
  <1>5. (Marked' <=> Marked) /\ (Redone' <=> Redone)
    BY <1>2, <1>4 DEF Marked, Redone
  <1>6. FieldsInv' /\ PlacesInv' /\ LoneInv'
    BY <1>1, <1>2, <1>4 DEF FieldsInv, PlacesInv, LoneInv
  <1>12. \A v, k : Reached(v, k, db, Marked) => Reached(v, k, db', Marked')
    BY <1>5 DEF Reached
  <1>7. VersionInv'
    BY <1>5, <1>12 DEF VersionInv
  <1>8. StartedInv'
    BY <1>2, <1>3, <1>5, <1>12 DEF StartedInv
  <1>9. BehindInv'
    BY <1>2, <1>3, <1>4 DEF BehindInv
  <1>10. IndexInv'
    <2> SUFFICES ASSUME NEW g \in DOMAIN start', Lone(start'[g], server'), ~start'[g].failing, ~db'.scar
                 PROVE  Indexed(start'[g], server'[start'[g].at].dim, db')
      BY DEF IndexInv, Dimension
    <2>1. g \in DOMAIN start /\ start'[g] = start[g]
      BY <1>2, <1>4
    <2> QED BY <2>1 DEF IndexInv, Dimension
  <1>11. ServesAlone'
    BY DEF ServesAlone
  <1> QED BY <1>6, <1>7, <1>8, <1>9, <1>10, <1>11

\* No start begins, ends or goes on.
LEMMA StartsStay ==
    ASSUME SInv, start' = start, db' = db, HostsInv', DOMAIN server' = Processes,
           \A q \in Processes : /\ ServerFields \subseteq DOMAIN server'[q]
                                /\ server'[q].dim = server[q].dim
                                /\ server'[q].disturbed = server[q].disturbed
                                /\ server'[q].cell = "ready" => server[q].cell = "ready"
    PROVE  SInv'
  <1>1. SchemaStays /\ Drops({})
    BY DEF SInv, FieldsInv, SchemaStays, Drops
  <1>2. ServesAlone'
    BY DEF SInv, ServesAlone
  <1> QED BY <1>1, <1>2, StartsEnd

LEMMA BootStart ==
    ASSUME SInv, NEW p \in Processes, Boot(p)
    PROVE  SInv'
  <1> USE DEF SInv
  <1>1. /\ server[p].up = "down" /\ request' = request /\ call' = call /\ db' = db
        /\ \/ Begin(p, p, 1) /\ server' = [server EXCEPT ![p].up = "starting", ![p].cell = "starting",
                                                         ![p].disturbed = Overlaps(p)]
           \/ start' = start /\ server' = [server EXCEPT ![p].up = "up"]
    BY DEF Boot, StorageUnchangedBut
  <1>2. server[p].cell = "empty" /\ p \notin DOMAIN call /\ p # None
    BY <1>1, NameAssumption DEF HostsInv
  <1>3. \A g \in DOMAIN start : start[g].at # p
    BY <1>2 DEF HostsInv
  <1>4. p \notin DOMAIN start
    BY <1>3 DEF HostsInv
  <1>5. \A c \in DOMAIN call :
              request[c].stage = "runtime" => request[c].at \in Processes \ {p}
    BY <1>1 DEF HostsInv
  <1>6. CASE start' = start /\ server' = [server EXCEPT ![p].up = "up"]
    <2>1. /\ DOMAIN server' = Processes
          /\ \A q \in Processes : /\ ServerFields \subseteq DOMAIN server'[q]
                                  /\ server'[q].dim = server[q].dim
                                  /\ server'[q].disturbed = server[q].disturbed
                                  /\ server'[q].cell = server[q].cell
                                  /\ q # p => server'[q] = server[q]
                                  /\ q = p => server'[q].up = "up"
      BY <1>6 DEF FieldsInv, ServerFields
    <2>2. HostsInv'
      <3>1. \A c \in DOMAIN call : request'[c].stage = "runtime" =>
              /\ request'[c].at \in Processes /\ server'[request'[c].at].up = "up"
              /\ call'[c].req.op # "repairData"
        BY <1>1, <1>5, <2>1 DEF HostsInv
      <3>2. \A g \in DOMAIN start' : start[g].at # None =>
              /\ server'[start[g].at].cell = server[start[g].at].cell
              /\ server'[start[g].at].up = server[start[g].at].up
        BY <1>3, <1>6, <2>1 DEF HostsInv
      <3>3. \A q \in Processes : /\ server'[q].up = "down" => server'[q].cell = "empty"
                                 /\ server'[q].cell = "ready" => server'[q].up = "up"
        BY <2>1 DEF HostsInv
      <3>4. \A c \in DOMAIN call :
              /\ request'[c].stage = "new" => request'[c].at = None
              /\ request'[c].stage \in {"new", "runtime"} => call'[c].pc = "start"
        BY <1>1 DEF HostsInv
      <3> QED BY <1>1, <1>6, <3>1, <3>2, <3>3, <3>4, HostsKept
    <2> QED BY <1>1, <1>6, <2>1, <2>2, StartsStay
  <1>7. CASE /\ Begin(p, p, 1)
             /\ server' = [server EXCEPT ![p].up = "starting", ![p].cell = "starting",
                                         ![p].disturbed = Overlaps(p)]
    <2> DEFINE o == Overlaps(p)
    <2>1. Takes(p) /\ server'[p].up = "starting"
      <3>1. server' = [server EXCEPT ![p].up = "starting", ![p].cell = "starting", ![p].disturbed = o]
        BY <1>7
      <3> HIDE DEF o
      <3>2. /\ DOMAIN server' = Processes
            /\ \A q \in Processes : /\ ServerFields \subseteq DOMAIN server'[q]
                                    /\ server'[q].dim = server[q].dim
                                    /\ q # p => server'[q] = server[q]
            /\ server'[p].cell = "starting" /\ server'[p].disturbed = o /\ server'[p].up = "starting"
        BY <3>1 DEF FieldsInv, ServerFields
      <3> QED BY <3>2 DEF Takes, o
    <2>2. /\ DOMAIN start' = DOMAIN start \cup {p}
          /\ \A g \in DOMAIN start : start'[g] = start[g]
          /\ start'[p].at = p
      BY <1>4, <1>7 DEF Begin, With, NewStart
    <2>3. HostsInv'
      <3>1. DOMAIN call' \cap Processes = {}
        BY <1>1 DEF HostsInv
      <3>2. ASSUME NEW c \in DOMAIN call'
            PROVE  /\ request'[c].stage = "new" => request'[c].at = None
                   /\ request'[c].stage \in {"new", "runtime"} => call'[c].pc = "start"
                   /\ request'[c].stage = "runtime" =>
                         /\ request'[c].at \in Processes /\ server'[request'[c].at].up = "up"
                         /\ call'[c].req.op # "repairData"
        BY <1>1, <1>5, <2>1 DEF HostsInv, Takes
      <3>3. ASSUME NEW h \in DOMAIN start', h # p
            PROVE  /\ h \in Processes => start'[h].at = h /\ server'[h].up = "starting"
                   /\ h \notin Processes =>
                         /\ h \in DOMAIN call' /\ request'[h].stage = "starting"
                         /\ start'[h].at = request'[h].at
                         /\ call'[h].req.op = "repairData" <=> start'[h].at = None
                         /\ start'[h].at # None => server'[start'[h].at].up = "up"
                   /\ start'[h].at # None => /\ start'[h].at \in Processes
                                             /\ server'[start'[h].at].cell = "starting"
        <4>1. h \in DOMAIN start /\ start'[h] = start[h] /\ start[h].at # p
          BY <1>3, <2>2, <3>3
        <4> QED BY <1>1, <2>1, <3>3, <4>1 DEF HostsInv, Takes
      <3>4. \A h, g \in DOMAIN start' : start'[h].at # None /\ start'[h].at = start'[g].at => h = g
        BY <1>3, <2>2 DEF HostsInv
      <3>5. \A q \in Processes : /\ server'[q].up = "down" => server'[q].cell = "empty"
                                 /\ server'[q].cell = "ready" => server'[q].up = "up"
        BY <2>1 DEF HostsInv, Takes
      <3>6. start'[p].at = p /\ server'[p].up = "starting" /\ server'[p].cell = "starting"
        BY <2>1, <2>2 DEF Takes
      <3> QED BY <3>1, <3>2, <3>3, <3>4, <3>5, <3>6 DEF HostsInv
    <2> QED BY <1>1, <1>2, <1>4, <1>7, <2>1, <2>3, Begun
  <1> QED BY <1>1, <1>6, <1>7

LEMMA InitialiseStart ==
    ASSUME AInv, SInv, NEW c \in DOMAIN call, Initialise(c)
    PROVE  SInv'
  <1> USE DEF SInv
  <1> DEFINE p == request[c].at
             o == Overlaps(p)
  <1>1. /\ request[c].stage = "runtime" /\ server[p].cell = "empty" /\ db' = db /\ call' = call
        /\ server' = [server EXCEPT ![p].cell = "starting", ![p].disturbed = o]
        /\ Begin(c, p, 0) /\ Stage(c, "starting")
    BY DEF Initialise, InStage, Host, StorageUnchangedBut
  <1>2. /\ p \in Processes /\ p # None /\ server[p].up = "up" /\ call[c].req.op # "repairData"
        /\ c \notin Processes
    BY <1>1, NameAssumption DEF HostsInv
  <1>3. c \notin DOMAIN start
    BY <1>1, <1>2 DEF HostsInv
  <1>4. \A g \in DOMAIN start : start[g].at # p
    BY <1>1, <1>2 DEF HostsInv
  <1>5. Takes(p) /\ \A q \in Processes : server'[q].up = server[q].up
    <2> HIDE DEF o
    <2>1. /\ DOMAIN server' = Processes
          /\ \A q \in Processes : /\ ServerFields \subseteq DOMAIN server'[q]
                                  /\ server'[q].dim = server[q].dim /\ server'[q].up = server[q].up
                                  /\ q # p => server'[q] = server[q]
          /\ server'[p].cell = "starting" /\ server'[p].disturbed = o
      BY <1>1, <1>2 DEF FieldsInv, ServerFields
    <2> QED BY <2>1 DEF Takes, o
  <1>6. /\ DOMAIN start' = DOMAIN start \cup {c}
        /\ \A g \in DOMAIN start : start'[g] = start[g]
        /\ start'[c].at = p
    BY <1>1, <1>3 DEF Begin, With, NewStart
  <1>7. /\ \A d \in DOMAIN call \ {c} : request'[d] = request[d]
        /\ request'[c].stage = "starting" /\ request'[c].at = p
    BY <1>1, Staged
  <1>8. HostsInv'
    <2>1. DOMAIN call' \cap Processes = {}
      BY <1>1 DEF HostsInv
    <2>2. ASSUME NEW d \in DOMAIN call'
          PROVE  /\ request'[d].stage = "new" => request'[d].at = None
                 /\ request'[d].stage \in {"new", "runtime"} => call'[d].pc = "start"
                 /\ request'[d].stage = "runtime" =>
                       /\ request'[d].at \in Processes /\ server'[request'[d].at].up = "up"
                       /\ call'[d].req.op # "repairData"
      <3>1. CASE d = c
        BY <1>7, <3>1
      <3>2. CASE d # c
        <4>1. request'[d] = request[d] /\ call'[d] = call[d] /\ d \in DOMAIN call
          BY <1>1, <1>7, <3>2
        <4> QED BY <1>5, <4>1 DEF HostsInv
      <3> QED BY <3>1, <3>2
    <2>3. ASSUME NEW h \in DOMAIN start', h # c
          PROVE  /\ h \in Processes => start'[h].at = h /\ server'[h].up = "starting"
                 /\ h \notin Processes =>
                       /\ h \in DOMAIN call' /\ request'[h].stage = "starting"
                       /\ start'[h].at = request'[h].at
                       /\ call'[h].req.op = "repairData" <=> start'[h].at = None
                       /\ start'[h].at # None => server'[start'[h].at].up = "up"
                 /\ start'[h].at # None => /\ start'[h].at \in Processes
                                           /\ server'[start'[h].at].cell = "starting"
      <3>1. h \in DOMAIN start /\ start'[h] = start[h] /\ start[h].at # p
        BY <1>4, <1>6, <2>3
      <3> QED BY <1>1, <1>5, <1>7, <2>3, <3>1 DEF HostsInv, Takes
    <2>4. \A h, g \in DOMAIN start' : start'[h].at # None /\ start'[h].at = start'[g].at => h = g
      BY <1>4, <1>6 DEF HostsInv
    <2>5. \A q \in Processes : /\ server'[q].up = "down" => server'[q].cell = "empty"
                               /\ server'[q].cell = "ready" => server'[q].up = "up"
      BY <1>2, <1>5 DEF HostsInv, Takes
    <2>6. /\ start'[c].at = p /\ request'[c].stage = "starting" /\ request'[c].at = p
          /\ call'[c].req.op # "repairData" /\ server'[p].up = "up" /\ server'[p].cell = "starting"
          /\ c \in DOMAIN call'
      BY <1>1, <1>2, <1>5, <1>6, <1>7 DEF Takes
    <2> QED BY <1>2, <2>1, <2>2, <2>3, <2>4, <2>5, <2>6 DEF HostsInv
  <1> HIDE DEF p
  <1> QED BY <1>1, <1>2, <1>3, <1>5, <1>8, Begun

LEMMA RepairStart ==
    ASSUME AInv, SInv, NEW c \in DOMAIN call, StartRepair(c)
    PROVE  SInv'
  <1> USE DEF SInv
  <1>1. /\ request[c].stage = "new" /\ call[c].req.op = "repairData" /\ Stage(c, "starting")
        /\ start' = With(start, c, NewStart(None, 13, FALSE))
        /\ server' = server /\ db' = db /\ call' = call
    BY DEF StartRepair, InStage, Op, StorageUnchangedBut
  <1>2. c \notin Processes /\ c \notin DOMAIN start /\ request[c].at = None
    BY <1>1 DEF HostsInv
  <1>3. /\ DOMAIN start' = DOMAIN start \cup {c}
        /\ \A g \in DOMAIN start : start'[g] = start[g]
        /\ start'[c].at = None
    BY <1>1, <1>2 DEF With, NewStart
  <1>4. /\ \A d \in DOMAIN call \ {c} : request'[d] = request[d]
        /\ request'[c].stage = "starting" /\ request'[c].at = None
    BY <1>1, <1>2, Staged
  <1>5. HostsInv'
    <2>1. ASSUME NEW d \in DOMAIN call'
          PROVE  /\ request'[d].stage = "new" => request'[d].at = None
                 /\ request'[d].stage \in {"new", "runtime"} => call'[d].pc = "start"
                 /\ request'[d].stage = "runtime" =>
                       /\ request'[d].at \in Processes /\ server'[request'[d].at].up = "up"
                       /\ call'[d].req.op # "repairData"
      BY <1>1, <1>4 DEF HostsInv
    <2>2. ASSUME NEW h \in DOMAIN start', h # c
          PROVE  /\ h \in Processes => start'[h].at = h /\ server'[h].up = "starting"
                 /\ h \notin Processes =>
                       /\ h \in DOMAIN call' /\ request'[h].stage = "starting"
                       /\ start'[h].at = request'[h].at
                       /\ call'[h].req.op = "repairData" <=> start'[h].at = None
                       /\ start'[h].at # None => server'[start'[h].at].up = "up"
                 /\ start'[h].at # None => /\ start'[h].at \in Processes
                                           /\ server'[start'[h].at].cell = "starting"
      <3>1. h \in DOMAIN start /\ start'[h] = start[h]
        BY <1>3, <2>2
      <3>2. ASSUME h \notin Processes
            PROVE  h \in DOMAIN call /\ request'[h] = request[h]
        BY <1>4, <2>2, <3>1, <3>2 DEF HostsInv
      <3>3. h \in Processes => start[h].at = h /\ server[h].up = "starting"
        BY <3>1 DEF HostsInv
      <3>4. h \notin Processes =>
                       /\ h \in DOMAIN call /\ request[h].stage = "starting"
                       /\ start[h].at = request[h].at
                       /\ call[h].req.op = "repairData" <=> start[h].at = None
                       /\ start[h].at # None => server[start[h].at].up = "up"
        BY <3>1 DEF HostsInv
      <3>5. start[h].at # None => start[h].at \in Processes /\ server[start[h].at].cell = "starting"
        BY <3>1 DEF HostsInv
      <3> QED BY <1>1, <3>1, <3>2, <3>3, <3>4, <3>5
    <2>3. \A h, g \in DOMAIN start' : start'[h].at # None /\ start'[h].at = start'[g].at => h = g
      BY <1>3 DEF HostsInv
    <2>4. DOMAIN call' \cap Processes = {} /\ c \in DOMAIN call'
      BY <1>1 DEF HostsInv
    <2>5. \A q \in Processes : /\ server'[q].up = "down" => server'[q].cell = "empty"
                               /\ server'[q].cell = "ready" => server'[q].up = "up"
      BY <1>1 DEF HostsInv
    <2>6. start'[c].at = request'[c].at /\ call'[c].req.op = "repairData"
      BY <1>1, <1>3, <1>4
    <2> QED BY <1>2, <1>3, <1>4, <2>1, <2>2, <2>3, <2>4, <2>5, <2>6 DEF HostsInv
  <1> QED BY <1>1, <1>2, <1>5, RepairBegun

-----------------------------------------------------------------------------
(* Requests, which start nothing *)

LEMMA Requested ==
    ASSUME AInv, SInv, NEW c \in DOMAIN call, request[c].stage # "starting", Others(c),
           start' = start, server' = server, db' = db,
           request'[c].stage = "runtime" =>
              /\ request'[c].at \in Processes /\ server[request'[c].at].up = "up"
              /\ call'[c].req.op # "repairData" /\ call'[c].pc = "start",
           request'[c].stage # "new"
    PROVE  SInv'
  <1> USE DEF SInv
  <1>1. c \notin DOMAIN start
    BY DEF HostsInv
  <1>2. /\ DOMAIN call' = DOMAIN call
        /\ \A d \in DOMAIN call : d # c => request'[d] = request[d] /\ call'[d] = call[d]
    BY DEF Others
  <1>3. \A g \in DOMAIN start' \cap DOMAIN call :
              /\ request'[g].stage = request[g].stage /\ request'[g].at = request[g].at
              /\ call'[g].req.op = call[g].req.op
    BY <1>1, <1>2
  <1>4. \A d \in DOMAIN call :
              /\ request'[d].stage = "new" => request'[d].at = None
              /\ request'[d].stage \in {"new", "runtime"} => call'[d].pc = "start"
              /\ request'[d].stage = "runtime" =>
                    /\ request'[d].at \in Processes /\ server'[request'[d].at].up = "up"
                    /\ call'[d].req.op # "repairData"
    BY <1>2 DEF HostsInv
  <1>5. HostsInv'
    BY <1>2, <1>3, <1>4, HostsKept DEF HostsInv
  <1> QED BY <1>5, StartsStay DEF FieldsInv

LEMMA AuthenticateStart ==
    ASSUME IInv, AInv, SInv, NEW c \in DOMAIN call, Authenticate(c)
    PROVE  SInv'
  <1>0. PICK p \in Processes : \E user, pass :
          /\ server[p].up = "up"
          /\ request' = [request EXCEPT ![c].at = p, ![c].user = user,
                                        ![c].stage = IF pass THEN "runtime" ELSE "done"]
          /\ OnlyCall(c, IF pass THEN call[c] ELSE End(c, "refused"))
    BY DEF Authenticate
  <1>1. PICK user, pass :
          /\ server[p].up = "up"
          /\ request' = [request EXCEPT ![c].at = p, ![c].user = user,
                                        ![c].stage = IF pass THEN "runtime" ELSE "done"]
          /\ OnlyCall(c, IF pass THEN call[c] ELSE End(c, "refused"))
    BY <1>0
  <1>2. /\ request[c].stage = "new" /\ start' = start /\ server' = server /\ db' = db
        /\ call[c].req.op # "repairData"
    BY DEF Authenticate, InStage, Op
  <1>3. /\ DOMAIN request' = DOMAIN request
        /\ \A d \in DOMAIN call \ {c} : request'[d] = request[d]
        /\ request'[c].stage = (IF pass THEN "runtime" ELSE "done") /\ request'[c].at = p
    BY <1>1 DEF AInv, RequestsInv, ClientFields
  <1> DEFINE rec == IF pass THEN call[c] ELSE End(c, "refused")
  <1>4. /\ DOMAIN call' = DOMAIN call /\ call'[c] = rec
        /\ \A d \in DOMAIN call \ {c} : call'[d] = call[d]
    <2>1. OnlyCall(c, rec)
      BY <1>1
    <2> HIDE DEF rec
    <2> QED BY <2>1, OnlyOne
  <1>5. Others(c)
    BY <1>3, <1>4 DEF Others
  <1>6. request'[c].stage = "runtime" => call'[c] = call[c] /\ call[c].pc = "start"
    BY <1>2, <1>3, <1>4 DEF SInv, HostsInv
  <1>7. request'[c].stage # "new" /\ server[request'[c].at].up = "up" /\ request'[c].at \in Processes
    BY <1>1, <1>3
  <1>8. request'[c].stage = "runtime" => call'[c].req.op # "repairData" /\ call'[c].pc = "start"
    BY <1>2, <1>6
  <1>9. request[c].stage # "starting"
    BY <1>2
  <1> QED BY <1>2, <1>5, <1>7, <1>8, <1>9, Requested

LEMMA RequestStart ==
    ASSUME IInv, AInv, SInv, NEW c \in DOMAIN call, Resolve(c) \/ Handle(c) \/ BeginSweep(c)
    PROVE  SInv'
  <1>1. CASE Resolve(c)
    <2>1. /\ request[c].stage = "runtime" /\ Stage(c, "handler") /\ call' = call
          /\ start' = start /\ server' = server /\ db' = db
      BY <1>1 DEF Resolve, InStage, StorageUnchangedBut
    <2>2. Others(c) /\ request'[c].stage = "handler"
      BY <2>1, Staged DEF Others
    <2> QED BY <2>1, <2>2, Requested
  <1>2. CASE Handle(c)
    <2>0. PICK s \in {"done", "in"} : \E rec : Stage(c, s) /\ OnlyCall(c, rec)
      BY <1>2 DEF Handle
    <2>1. PICK rec : Stage(c, s) /\ OnlyCall(c, rec)
      BY <2>0
    <2>2. request[c].stage = "handler" /\ start' = start /\ server' = server /\ db' = db
      BY <1>2 DEF Handle, InStage
    <2>3. Others(c) /\ request'[c].stage = s
      BY <2>1, Staged, OnlyOne DEF Others
    <2> QED BY <2>1, <2>2, <2>3, Requested
  <1>3. CASE BeginSweep(c)
    <2>1. /\ request[c].stage = "new" /\ call' = call
          /\ start' = start /\ server' = server /\ db' = db
          /\ \E p : request' = [request EXCEPT ![c].at = p, ![c].stage = "in"]
      BY <1>3 DEF BeginSweep, InStage, StorageUnchangedBut
    <2>2. Others(c) /\ request'[c].stage = "in"
      BY <2>1 DEF Others, AInv, RequestsInv, ClientFields
    <2> QED BY <2>1, <2>2, Requested
  <1> QED BY <1>1, <1>2, <1>3

LEMMA ServeStart ==
    ASSUME IInv, AInv, SInv, NEW c \in DOMAIN call, Serve(c) \/ IndexRefuses(c)
    PROVE  SInv'
  <1>1. /\ request[c].stage = "in" /\ request' = request
        /\ start' = start /\ server' = server /\ db' = db
    BY DEF Serve, IndexRefuses, InStage, serverVars
  <1>2. Others(c)
    <2>1. CASE Serve(c)
      BY <1>1, <2>1, SetsSome, SetsOne DEF Others, Serve
    <2>2. CASE IndexRefuses(c)
      <3>1. PICK rec : OnlyCall(c, rec)
        BY <2>2 DEF IndexRefuses
      <3> QED BY <1>1, <3>1, OnlyOne DEF Others
    <2> QED BY <2>1, <2>2
  <1> QED BY <1>1, <1>2, Requested

-----------------------------------------------------------------------------
(* The theorems *)

LEMMA StartsStep ==
    ASSUME IInv, AInv, SInv, [Next]_vars
    PROVE  SInv'
  <1>1. ASSUME NEW c \in DOMAIN call,
               \/ Serve(c) \/ IndexRefuses(c) \/ Authenticate(c) \/ RequestStep(c)
               \/ Disconnect(c) \/ BeginSweep(c) \/ StartRepair(c)
        PROVE  SInv'
    <2>1. CASE Serve(c) \/ IndexRefuses(c)
      BY <2>1, ServeStart
    <2>2. CASE Authenticate(c)
      BY <2>2, AuthenticateStart
    <2>3. CASE RequestStep(c) \/ BeginSweep(c)
      BY <2>3, InitialiseStart, RequestStart DEF RequestStep
    <2>4. CASE Disconnect(c)
      BY <2>4, DisconnectStart
    <2>5. CASE StartRepair(c)
      BY <2>5, RepairStart
    <2> QED BY <1>1, <2>1, <2>2, <2>3, <2>4, <2>5
  <1>2. ASSUME NEW h \in DOMAIN start, StartStep(h) PROVE SInv'
    BY <1>2, StatementStart, InspectStart, NormaliseStart, RecordStart, ValidateStart,
       SucceedsStart, FailsStart DEF StartStep
  <1>3. ASSUME NEW p \in Processes, Boot(p) \/ Crash(p) PROVE SInv'
    BY <1>3, BootStart, CrashStart
  <1>4. CASE (Tick /\ UNCHANGED <<derivations, docVars, serverVars>>) \/ UNCHANGED vars
    <2>1. start' = start /\ server' = server /\ db' = db /\ request' = request /\ call' = call
      BY <1>4 DEF Tick, vars, storageVars, storeVars, serverVars
    <2>2. HostsInv'
      BY <2>1, HostsKept DEF SInv, HostsInv
    <2> QED BY <2>1, <2>2, StartsStay DEF SInv, FieldsInv
  <1> QED BY <1>1, <1>2, <1>3, <1>4 DEF Next

\* What a database at version n has.
LEMMA SchemaBegins ==
    ASSUME NEW n \in 0..24, NEW schema,
           schema = IF n >= 18 THEN SchemaOf(n) \ {"streamName"} ELSE SchemaOf(n)
    PROVE  /\ schema \subseteq FullSchema \cup {"streamName"}
           /\ Tables(n + 1, 1, schema)
           /\ n >= 18 => "streamName" \notin schema
           /\ n = 24 => schema = FullSchema
  <1>1. SchemaOf(n) \subseteq SchemaOf(24)
    <2>1. \A v \in 1..n : v \in 1..24
      OBVIOUS
    <2> QED BY <2>1 DEF SchemaOf
  <1>2. schema \subseteq FullSchema \cup {"streamName"}
    BY <1>1 DEF FullSchema, Latest
  <1>3. Tables(n + 1, 1, schema)
    <2> SUFFICES ASSUME NEW w \in 1..24, NEW j \in 1..Len(Statements(w)), Lays(w, j),
                        Earlier(w, j, n + 1, 1)
                 PROVE  Statements(w)[j][2] \in schema
      BY DEF Tables
    <2>1. w <= n /\ n \in 1..24 /\ j \in Int /\ j >= 1
      <3>1. j \in Int /\ j >= 1
        OBVIOUS
      <3> QED BY <3>1 DEF Earlier
    <2>2. Kind(w, j, Statements(w)[j])
      <3>1. w \in 1..25
        OBVIOUS
      <3> QED BY <3>1, KindOfPlace
    <2>3. Statements(w)[j][2] \in SchemaOf(n)
      <3>1. CASE Statements(w)[j][1] = "define"
        BY <2>1, <3>1, InSchema
      <3>2. CASE Statements(w)[j][1] = "create"
        <4>1. w = 11 /\ Statements(w)[j][2] = "nodes"
          BY <2>2, <3>2 DEF Kind
        <4>2. 9 \in 1..24 /\ 9 <= n /\ 1 \in 1..Len(Statements(9))
          BY <2>1, <4>1, Script9
        <4>3. Statements(9)[1][2] \in SchemaOf(n)
          <5>1. Statements(9)[1][1] = "define"
            BY Script9
          <5> QED BY <2>1, <4>2, <5>1, InSchema
        <4> QED BY <4>1, <4>3, Script9
      <3> QED BY <3>1, <3>2 DEF Lays
    <2> QED BY <2>3 DEF Lays
  <1> QED BY <1>2, <1>3 DEF FullSchema, Latest

LEMMA StartsBegin == Init => SInv
  <1> SUFFICES ASSUME Init PROVE SInv
    OBVIOUS
  <1>1. PICK w \in Workloads :
          /\ call = [c \in DOMAIN w.calls |-> NewCall(w.calls[c])]
          /\ server = [p \in Processes |-> w.server[p]]
          /\ request = [c \in DOMAIN w.calls |-> w.clients[c]]
          /\ start = << >> /\ db = w.db
    BY DEF Init, InitStorage, InitStore
  <1> DEFINE n == db.version
             dim == db.hnsw
             d == Database(n, dim)
  <1>2. /\ n \in 0..24
        /\ db = [d EXCEPT !.shared = db.shared, !.legacy = db.legacy, !.unknown = db.unknown]
        /\ n >= 14 => db.legacy = {}
    BY <1>1, DatabaseAssumption DEF Latest
  <1>3. /\ DbFields \subseteq DOMAIN d
        /\ d.hnsw = IF n >= 17 THEN dim ELSE IF n >= 5 THEN 1536 ELSE 0
        /\ d.schema = IF n >= 18 THEN SchemaOf(n) \ {"streamName"} ELSE SchemaOf(n)
        /\ d.meta = IF n >= 17 THEN dim ELSE 0
        /\ d.blank = (n >= 18 \/ n < 3)
    BY DEF Database, DbFields
  <1>4. /\ DbFields \subseteq DOMAIN db
        /\ db.schema = d.schema /\ db.meta = d.meta /\ db.blank = d.blank
    <2> HIDE DEF d, n, dim
    <2> QED BY <1>2, <1>3 DEF DbFields
  <1>5. start = << >> /\ DOMAIN start = {}
    BY <1>1
  <1>6. /\ DOMAIN server = Processes
        /\ \A p \in Processes : /\ ServerFields \subseteq DOMAIN server[p]
                                /\ server[p].cell \in {"empty", "ready"} /\ server[p].up \in {"down", "up"}
                                /\ server[p].cell = "ready" =>
                                     /\ server[p].up = "up"
                                     /\ server[p].disturbed \/ (n = 24 /\ db.hnsw = server[p].dim)
    BY <1>1, ProcessAssumption DEF ServerFields, Latest
  <1>7. /\ db.schema \subseteq FullSchema \cup {"streamName"}
        /\ Tables(n + 1, 1, db.schema)
        /\ n >= 18 => "streamName" \notin db.schema
        /\ n = 24 => db.schema = FullSchema
    <2> DEFINE schema == db.schema
    <2>1. schema = IF n >= 18 THEN SchemaOf(n) \ {"streamName"} ELSE SchemaOf(n)
      BY <1>3, <1>4
    <2> HIDE DEF schema, n
    <2> QED BY <1>2, <2>1, SchemaBegins DEF schema
  <1>8. FieldsInv
    BY <1>2, <1>4, <1>5, <1>6, <1>7 DEF FieldsInv
  <1>9. HostsInv
    <2>1. \A c \in DOMAIN call : /\ c \in DOMAIN w.calls /\ call[c].pc = "start"
                                 /\ request[c].stage = "new" => request[c].at = None
                                 /\ request[c].stage # "runtime"
      BY <1>1, ClientAssumption DEF NewCall
    <2>2. DOMAIN call \cap Processes = {}
      BY <1>1, NameAssumption
    <2> QED BY <1>5, <1>6, <2>1, <2>2 DEF HostsInv
  <1>10. PlacesInv /\ LoneInv /\ StartedInv /\ BehindInv /\ IndexInv
    BY <1>5 DEF PlacesInv, LoneInv, StartedInv, BehindInv, IndexInv
  <1>11. VersionInv
    <2>1. Earlier(14, 2, n + 1, 1) => db.legacy = {}
      BY <1>2 DEF Earlier
    <2>2. Earlier(17, 1, n + 1, 1) => Agrees(db)
      <3>1. n >= 17 => db.meta = db.hnsw
        BY <1>3, <1>4
      <3>2. Earlier(17, 1, n + 1, 1) => n >= 17
        BY <1>2 DEF Earlier
      <3> QED BY <3>1, <3>2 DEF Agrees
    <2>3. Earlier(18, 1, n + 1, 1) \/ Earlier(18, 2, n + 1, 1) => n >= 18
      BY <1>2 DEF Earlier
    <2>4. n >= 18 => db.blank
      BY <1>3, <1>4
    <2> QED BY <1>7, <2>1, <2>2, <2>3, <2>4 DEF VersionInv, Reached
  <1>12. ServesAlone
    <2>1. n >= 18 => db.blank
      BY <1>3, <1>4
    <2>3. n >= 14 => db.legacy = {}
      BY <1>2
    <2>2. n = 24 => db.blank /\ db.legacy = {}
      <3> HIDE DEF n
      <3> QED BY <2>1, <2>3
    <2> QED BY <1>6, <1>7, <2>2 DEF ServesAlone
  <1> QED BY <1>8, <1>9, <1>10, <1>11, <1>12 DEF SInv

\* The invariant the theorem below rests on: whatever starts, statements, failures
\* and crashes of however many processes interleave, the version that is recorded
\* and the statement a start has come to tell what the schema has, unless the scar
\* of the database says so (run_migrations and ensure_embedding_indexes).
THEOREM StartsInductive == Spec => []SInv
  <1>1. Init => SInv
    BY StartsBegin
  <1>2. IInv /\ AInv /\ SInv /\ [Next]_vars => SInv'
    BY StartsStep
  <1>3. Spec => [](IInv /\ AInv)
    BY AccessInductive
  <1> QED BY <1>1, <1>2, <1>3, PTL DEF Spec

-----------------------------------------------------------------------------
(* What no start takes away, nor leaves undone: whoever else is at it *)

\* What database d is certain to have before statement k of version v.
Laid(v, k, d) ==
    /\ Tables(v, k, d.schema \cup Removable)
    /\ Earlier(14, 2, v, k) => d.legacy = {}
    /\ Earlier(18, 1, v, k) => d.blank

LaidInv ==
    /\ Laid(db.version + 1, 1, db)
    /\ \A h \in DOMAIN start :
         start[h].at # None => Laid(start[h].version, start[h].next, db)
    /\ \A p \in Processes : server[p].cell = "ready" => Laid(25, 1, db)

\* What is laid stays, but for what is taken away again.
Grows ==
    /\ db.schema \subseteq db'.schema \cup Removable
    /\ db'.legacy \subseteq db.legacy
    /\ db.blank => db'.blank

\* A process that is ready was so before, or has just been through all of it.
Readies == \A p \in Processes : server'[p].cell = "ready" =>
               server[p].cell = "ready" \/ Laid(25, 1, db')

LEMMA LaidStays ==
    ASSUME NEW v, NEW k, Grows, Laid(v, k, db)
    PROVE  Laid(v, k, db')
  BY DEF Laid, Grows, Tables

\* After the last migration everything is laid.
LEMMA LaidAtLast ==
    ASSUME NEW d
    PROVE  Laid(25, 1, d) <=> Laid(26, 1, d)
  <1>1. \A w \in 1..24, j \in Int : Earlier(w, j, 25, 1) <=> Earlier(w, j, 26, 1)
    BY DEF Earlier
  <1>2. Earlier(14, 2, 25, 1) /\ Earlier(14, 2, 26, 1) /\ Earlier(18, 1, 25, 1) /\ Earlier(18, 1, 26, 1)
    BY DEF Earlier
  <1>3. \A w \in 1..24 : \A j \in 1..Len(Statements(w)) : j \in Int
    OBVIOUS
  <1>4. Tables(25, 1, d.schema \cup Removable) <=> Tables(26, 1, d.schema \cup Removable)
    BY <1>1, <1>3 DEF Tables
  <1> QED BY <1>2, <1>4 DEF Laid

LEMMA LaidMoves ==
    ASSUME LaidInv, Grows, Readies,
           db'.version = db.version \/ Laid(db'.version + 1, 1, db'),
           \A g \in DOMAIN start' :
              \/ start'[g].at = None
              \/ g \in DOMAIN start /\ start'[g] = start[g]
              \/ Laid(start'[g].version, start'[g].next, db')
    PROVE  LaidInv'
  <1>1. Laid(db'.version + 1, 1, db')
    <2>1. Laid(db.version + 1, 1, db')
      BY LaidStays DEF LaidInv
    <2> QED BY <2>1
  <1>2. ASSUME NEW g \in DOMAIN start', start'[g].at # None
        PROVE  Laid(start'[g].version, start'[g].next, db')
    BY <1>2, LaidStays DEF LaidInv
  <1>3. ASSUME NEW p \in Processes, server'[p].cell = "ready"
        PROVE  Laid(25, 1, db')
    BY <1>3, LaidStays DEF LaidInv, Readies
  <1> QED BY <1>1, <1>2, <1>3 DEF LaidInv

\* A start that goes on has done what it was at.
LEMMA LaidNext ==
    ASSUME NEW v \in 1..25, NEW k \in 1..Len(Statements(v)), NEW w, NEW j, MovesOn(v, k, w, j),
           Grows, Laid(v, k, db),
           Lays(v, k) => Statements(v)[k][2] \in db'.schema \cup Removable,
           v = 14 /\ k = 2 => db'.legacy = {},
           v = 18 /\ k = 1 => db'.blank
    PROVE  Laid(w, j, db')
  <1>1. Laid(v, k, db')
    BY LaidStays
  <1>2. \A a \in 1..25 : \A b \in 1..Len(Statements(a)) :
           Earlier(a, b, w, j) <=> Earlier(a, b, v, k) \/ (a = v /\ b = k)
    <2>1. v \in 1..25 /\ k \in 1..Len(Statements(v))
      OBVIOUS
    <2>2. MovesOn(v, k, w, j)
      OBVIOUS
    <2> QED BY <2>1, <2>2, EarlierNext
  <1>3. Tables(w, j, db'.schema \cup Removable)
    <2> SUFFICES ASSUME NEW a \in 1..24, NEW b \in 1..Len(Statements(a)), Lays(a, b), Earlier(a, b, w, j)
                 PROVE  Statements(a)[b][2] \in db'.schema \cup Removable
      BY DEF Tables
    <2>1. a \in 1..25
      OBVIOUS
    <2>2. Earlier(a, b, v, k) \/ (a = v /\ b = k)
      BY <1>2, <2>1
    <2> QED BY <1>1, <2>2 DEF Laid, Tables
  <1>4. Earlier(14, 2, w, j) => db'.legacy = {}
    <2>1. 2 \in 1..Len(Statements(14))
      BY Script14
    <2> QED BY <1>1, <1>2, <2>1 DEF Laid
  <1>5. Earlier(18, 1, w, j) => db'.blank
    <2>1. 1 \in 1..Len(Statements(18))
      BY Script18
    <2> QED BY <1>1, <1>2, <2>1 DEF Laid
  <1> QED BY <1>3, <1>4, <1>5 DEF Laid

\* No definition is refused but that of the name of a stream, and of the nodes that
\* are there; and the owners of the streams are filled in in any case.
LEMMA StatementLays ==
    ASSUME FieldsInv, PlacesInv, HostsInv, NEW h \in DOMAIN start, Statement(h)
    PROVE  /\ Grows
           /\ Lays(start[h].version, start[h].next) =>
                Doing(h)[2] \in db'.schema \cup Removable
           /\ start[h].version = 18 /\ start[h].next = 1 => db'.blank
  <1> DEFINE s == Doing(h)
             skipped == start[h].same /\ s[1] \in {"clear", "mark"}
             vector == IF s[1] = "vector" THEN s[2] ELSE Dimension(h)
             refused == Refused(s, vector)
             new == After(s, vector)
  <1>1. /\ ~Finished(h) /\ s[1] \in Runs
        /\ db' = IF skipped \/ refused THEN db ELSE [new EXCEPT !.scar = @ \/ Clashes(h, new)]
    BY DEF Statement, Doings, Runs
  <1>2. Kind(start[h].version, start[h].next, s)
    BY <1>1, AtPlace
  <1>3. s[1] = "remove" => Within(s[2]) \subseteq Removable
    BY <1>2 DEF Kind, Within, Removable
  <1>4. /\ s[1] = "define" => refused \/ s[2] \in db.schema \/ ~skipped
        /\ s[1] = "define" /\ refused => s[2] = "streamName"
        /\ s[1] = "create" /\ refused => s[2] \in db.schema
        /\ s[1] = "create" => s[2] \in Removable
        /\ s[1] = "backfill" => ~refused /\ ~skipped
        /\ s[1] = "define" => ~skipped
    BY <1>2 DEF Refused, Kind, Within, Removable
  <1>5. CASE skipped \/ refused
    <2>1. db' = db
      BY <1>1, <1>5
    <2>2. "streamName" \in Removable
      BY DEF Removable
    <2>3. start[h].version = 18 /\ start[h].next = 1 => s[1] = "backfill"
      BY <1>2 DEF Kind
    <2>4. Lays(start[h].version, start[h].next) => s[1] \in {"define", "create"}
      BY DEF Lays, Doing
    <2> HIDE DEF s, skipped, refused
    <2> QED BY <1>4, <1>5, <2>1, <2>2, <2>3, <2>4 DEF Grows, s
  <1>6. CASE ~(skipped \/ refused)
    <2>1. db' = [new EXCEPT !.scar = @ \/ Clashes(h, new)]
      BY <1>1, <1>6
    <2>2. db'.legacy = db.legacy /\ Effect(h, s, vector)
      BY <1>1, <2>1, AfterEffect
    <2>3. start[h].version = 18 /\ start[h].next = 1 => s[1] = "backfill"
      BY <1>2 DEF Kind
    <2>4. Lays(start[h].version, start[h].next) => s[1] \in {"define", "create"}
      BY DEF Lays, Doing
    <2> HIDE DEF s, vector
    <2> QED BY <1>3, <2>2, <2>3, <2>4 DEF Effect, Grows, s
  <1> QED BY <1>5, <1>6

LEMMA StatementLaid ==
    ASSUME SInv, LaidInv, NEW h \in DOMAIN start, Statement(h)
    PROVE  LaidInv'
  <1> USE DEF SInv
  <1> DEFINE v == start[h].version
             k == start[h].next
  <1>1. /\ start[h].at \in Processes /\ ~Finished(h) /\ Goes(h) /\ Disturbs(h)
        /\ db'.version = db.version /\ Doing(h)[1] \in Runs
    BY StatementEffect
  <1>2. v \in 1..25 /\ k \in 1..Len(Statements(v)) /\ Kind(v, k, Doing(h))
    BY <1>1, AtPlace
  <1>3. Grows /\ (Lays(v, k) => Doing(h)[2] \in db'.schema \cup Removable)
        /\ (v = 18 /\ k = 1 => db'.blank)
    BY StatementLays
  <1>4. ~(v = 14 /\ k = 2) /\ Doing(h) = Statements(v)[k]
    BY <1>1, <1>2 DEF Kind, Runs, Doing
  <1>5. start[h].at # None
    BY <1>1, NameAssumption
  <1>6. Laid(v, k, db)
    BY <1>5 DEF LaidInv
  <1>7. MovesOn(v, k, start'[h].version, start'[h].next)
    BY <1>1 DEF Goes
  <1> HIDE DEF v, k
  <1>8. Laid(start'[h].version, start'[h].next, db')
    BY <1>2, <1>3, <1>4, <1>6, <1>7, LaidNext
  <1>9. Readies
    BY <1>1 DEF Disturbs, Readies
  <1> QED BY <1>1, <1>3, <1>8, <1>9, LaidMoves DEF Goes

LEMMA WalkLaid ==
    ASSUME SInv, LaidInv, NEW h \in DOMAIN start, Walks(h)
    PROVE  LaidInv'
  <1> DEFINE v == start[h].version
             k == start[h].next
  <1>1. /\ Kind(v, k, Doing(h)) /\ v \in 1..25 /\ k \in 1..Len(Statements(v))
        /\ Doing(h) = Statements(v)[k]
        /\ MovesOn(v, k, start'[h].version, start'[h].next)
        /\ Doing(h)[1] = "record" => /\ start[h].at # None
                                      /\ start'[h].version = v + 1 /\ start'[h].next = 1
    BY WalkPlace
  <1>2. /\ server' = server /\ Goes(h) /\ Doing(h)[1] \in Looks
        /\ db'.schema = db.schema /\ db'.blank = db.blank /\ db'.legacy = db.legacy
        /\ Doing(h)[1] = "normalise" => db.legacy = {}
        /\ \/ db'.version = db.version
           \/ Doing(h)[1] = "record" /\ db'.version = v
    BY DEF Walks
  <1>3. Grows /\ Readies
    BY <1>2 DEF Grows, Readies
  <1>4. ~Lays(v, k) /\ ~(v = 18 /\ k = 1) /\ (v = 14 /\ k = 2 => db'.legacy = {})
    BY <1>1, <1>2 DEF Lays, Looks, Kind
  <1> HIDE DEF v, k
  <1>5. ASSUME start[h].at # None PROVE Laid(start'[h].version, start'[h].next, db')
    <2>1. Laid(v, k, db)
      BY <1>5 DEF LaidInv, v, k
    <2> QED BY <1>1, <1>3, <1>4, <2>1, LaidNext
  <1>6. db'.version = db.version \/ Laid(db'.version + 1, 1, db')
    BY <1>1, <1>2, <1>5
  <1>7. ASSUME NEW g \in DOMAIN start'
        PROVE  \/ start'[g].at = None
               \/ g \in DOMAIN start /\ start'[g] = start[g]
               \/ Laid(start'[g].version, start'[g].next, db')
    BY <1>2, <1>5 DEF Goes
  <1> QED BY <1>3, <1>6, <1>7, LaidMoves

\* A start that is cut off leaves what it has laid.
LEMMA CutLaid ==
    ASSUME SInv, LaidInv, NEW hs, Cut(hs), NEW fs, Forget(fs),
           \A p \in Processes : server'[p].cell = "ready" => server[p].cell = "ready"
    PROVE  LaidInv'
  <1> DEFINE marked == \E h \in hs : \/ start[h].misread
                                     \/ Doings(h, {"mark"}) /\ db.meta \notin {0, db.hnsw}
  <1>1. db' = [db EXCEPT !.scar = @ \/ marked]
    BY DEF Cut
  <1>2. DbFields \subseteq DOMAIN db
    BY DEF SInv, FieldsInv
  <1> HIDE DEF marked
  <1>3. /\ db'.schema = db.schema /\ db'.blank = db.blank /\ db'.legacy = db.legacy
        /\ db'.version = db.version
    BY <1>1, <1>2 DEF DbFields
  <1>4. \A g \in DOMAIN start' : g \in DOMAIN start /\ start'[g] = start[g]
    BY Forgotten
  <1> QED BY <1>3, <1>4, LaidMoves DEF Grows, Readies

\* The database is as it was, and so are the starts but for those that begin or end.
LEMMA LaidUnmoved ==
    ASSUME LaidInv, db' = db, Readies,
           \A g \in DOMAIN start' :
              \/ start'[g].at = None
              \/ g \in DOMAIN start /\ start'[g] = start[g]
              \/ start'[g].version \in {1, db.version + 1} /\ start'[g].next = 1
    PROVE  LaidInv'
  <1>1. Grows
    BY DEF Grows
  <1>2. Laid(1, 1, db') /\ Laid(db.version + 1, 1, db')
    BY Script14, Script18 DEF Laid, LaidInv, Tables, Earlier
  <1> QED BY <1>1, <1>2, LaidMoves

LEMMA BeginLaid ==
    ASSUME SInv, LaidInv, NEW h, h \notin DOMAIN start, NEW p, NEW cost, Begin(h, p, cost), db' = db,
           \A q \in Processes : server'[q].cell = "ready" => server[q].cell = "ready"
    PROVE  LaidInv'
  <1>1. PICK r \in VersionRead : start' = With(start, h, NewStart(p, r.v, r.cost = 1))
    BY DEF Begin
  <1>2. r.v \in {0, db.version} /\ 0 + 1 = 1
    BY <1>1 DEF VersionRead
  <1> DEFINE new == NewStart(p, r.v, r.cost = 1)
  <1>3. new.version = r.v + 1 /\ new.next = 1
    BY DEF NewStart
  <1> HIDE DEF new
  <1>4. /\ DOMAIN start' = DOMAIN start \cup {h} /\ start'[h] = new
        /\ \A g \in DOMAIN start : start'[g] = start[g]
    BY <1>1 DEF With, new
  <1>5. start'[h].version \in {1, db.version + 1} /\ start'[h].next = 1
    BY <1>2, <1>3, <1>4
  <1>6. Readies
    BY DEF Readies
  <1> QED BY <1>4, <1>5, <1>6, LaidUnmoved

LEMMA SucceedsLaid ==
    ASSUME SInv, LaidInv, NEW h \in DOMAIN start, Succeeds(h)
    PROVE  LaidInv'
  <1> USE DEF SInv
  <1>1. db' = db /\ Forget({h}) /\ Finished(h)
    BY DEF Succeeds
  <1>2. \A g \in DOMAIN start' : g \in DOMAIN start /\ start'[g] = start[g]
    BY <1>1, Forgotten
  <1>3. Readies
    <2>1. CASE IsRepair(h)
      <3>1. h \notin Processes
        BY <2>1 DEF IsRepair, HostsInv
      <3> QED BY <2>1, <3>1 DEF Succeeds, EndOfRepair, Readies
    <2>2. CASE ~IsRepair(h)
      <3>1. start[h].version = 26 /\ start[h].at \in Processes /\ start[h].at # None
        BY <1>1, <2>2, StartsOf, NameAssumption
      <3>2. start[h].next = 1
        BY <3>1, PlaceEnd
      <3>3. Laid(25, 1, db')
        BY <1>1, <3>1, <3>2, LaidAtLast DEF LaidInv
      <3> QED BY <3>3 DEF Readies
    <2> QED BY <2>1, <2>2
  <1> QED BY <1>1, <1>2, <1>3, LaidUnmoved

LEMMA FailsLaid ==
    ASSUME SInv, LaidInv, NEW h \in DOMAIN start, Fails(h)
    PROVE  LaidInv'
  <1>1. Cut({h}) /\ Forget({h})
    BY DEF Fails
  <1>2. \A p \in Processes : server'[p].cell = "ready" => server[p].cell = "ready"
    <2>1. \/ server' = [server EXCEPT ![h].cell = "empty", ![h].up = "down"]
          \/ server' = server
          \/ server' = [server EXCEPT ![start[h].at].cell = "empty"]
      BY DEF Fails, EndOfMain, EndOfRepair, EndOfRequest, CellFreed
    <2> QED BY <2>1 DEF SInv, FieldsInv, ServerFields
  <1> QED BY <1>1, <1>2, CutLaid

LEMMA StartLaid ==
    ASSUME SInv, LaidInv, NEW h \in DOMAIN start, StartStep(h)
    PROVE  LaidInv'
  <1>1. CASE Statement(h)
    BY <1>1, StatementLaid
  <1>2. CASE Inspect(h) \/ RecordVersion(h) \/ Validate(h)
    BY <1>2, InspectStart, RecordStart, ValidateStart, WalkLaid
  <1>3. CASE Normalise(h)
    <2>1. CASE Walks(h)
      BY <2>1, WalkLaid
    <2>2. ASSUME NEW r \in db.legacy, db' = [db EXCEPT !.legacy = @ \ {r}], start' = start
          PROVE  LaidInv'
      <3>1. server' = server
        BY <1>3 DEF Normalise
      <3>2. DbFields \subseteq DOMAIN db
        BY DEF SInv, FieldsInv
      <3>3. db'.schema = db.schema /\ db'.blank = db.blank /\ db'.version = db.version
            /\ db'.legacy \subseteq db.legacy
        BY <2>2, <3>2 DEF DbFields
      <3> QED BY <2>2, <3>1, <3>3, LaidMoves DEF Grows, Readies
    <2> QED BY <1>3, <2>1, <2>2, NormaliseStart
  <1>4. CASE Succeeds(h)
    BY <1>4, SucceedsLaid
  <1>5. CASE Fails(h)
    BY <1>5, FailsLaid
  <1> QED BY <1>1, <1>2, <1>3, <1>4, <1>5 DEF StartStep

LEMMA ProcessLaid ==
    ASSUME SInv, LaidInv, NEW p \in Processes, Boot(p) \/ Crash(p)
    PROVE  LaidInv'
  <1> USE DEF SInv
  <1>1. CASE Boot(p)
    <2>1. /\ server[p].up = "down" /\ db' = db
          /\ \/ Begin(p, p, 1) /\ server' = [server EXCEPT ![p].up = "starting", ![p].cell = "starting",
                                                           ![p].disturbed = Overlaps(p)]
             \/ start' = start /\ server' = [server EXCEPT ![p].up = "up"]
      BY <1>1 DEF Boot
    <2> DEFINE o == Overlaps(p)
    <2>2. \/ server' = [server EXCEPT ![p].up = "starting", ![p].cell = "starting", ![p].disturbed = o]
          \/ server' = [server EXCEPT ![p].up = "up"]
      BY <2>1
    <2> HIDE DEF o
    <2>3. \A q \in Processes : server'[q].cell = "ready" => server[q].cell = "ready"
      BY <2>2 DEF FieldsInv, ServerFields
    <2>4. p \notin DOMAIN start
      BY <2>1 DEF HostsInv
    <2> QED BY <2>1, <2>3, <2>4, BeginLaid, LaidUnmoved DEF Readies
  <1>2. CASE Crash(p)
    <2> DEFINE starts == {h \in DOMAIN start : start[h].at = p}
    <2>1. /\ server' = [server EXCEPT ![p].up = "down", ![p].cell = "empty"]
          /\ Cut(starts) /\ Forget(starts)
      BY <1>2 DEF Crash
    <2> HIDE DEF starts
    <2>2. \A q \in Processes : server'[q].cell = "ready" => server[q].cell = "ready"
      BY <2>1 DEF FieldsInv, ServerFields
    <2> QED BY <2>1, <2>2, CutLaid
  <1> QED BY <1>1, <1>2

LEMMA CallLaid ==
    ASSUME SInv, LaidInv, NEW c \in DOMAIN call,
           \/ Serve(c) \/ IndexRefuses(c) \/ Authenticate(c) \/ RequestStep(c)
           \/ Disconnect(c) \/ BeginSweep(c) \/ StartRepair(c)
    PROVE  LaidInv'
  <1> USE DEF SInv
  <1>1. CASE Initialise(c)
    <2> DEFINE p == Host(c)
               o == Overlaps(p)
    <2>1. /\ server' = [server EXCEPT ![p].cell = "starting", ![p].disturbed = o] /\ db' = db
          /\ Begin(c, p, 0) /\ request[c].stage = "runtime"
      BY <1>1 DEF Initialise, InStage
    <2> HIDE DEF o
    <2>2. \A q \in Processes : server'[q].cell = "ready" => server[q].cell = "ready"
      BY <2>1 DEF FieldsInv, ServerFields
    <2>3. c \notin DOMAIN start
      BY <2>1 DEF HostsInv
    <2> QED BY <2>1, <2>2, <2>3, BeginLaid
  <1>2. CASE Disconnect(c)
    <2>1. \A q \in Processes : server'[q].cell = "ready" => server[q].cell = "ready"
      <3>1. \/ server' = [server EXCEPT ![Host(c)].cell = "empty"]
            \/ server' = [server EXCEPT ![Host(c)].cell = @]
        BY <1>2 DEF Disconnect, CellFreed
      <3> QED BY <3>1 DEF FieldsInv, ServerFields
    <2> QED BY <1>2, <2>1, CutLaid DEF Disconnect
  <1>3. CASE StartRepair(c)
    <2>1. start' = With(start, c, NewStart(None, 13, FALSE)) /\ server' = server /\ db' = db
          /\ request[c].stage = "new"
      BY <1>3 DEF StartRepair, InStage
    <2>2. c \notin DOMAIN start
      BY <2>1 DEF HostsInv
    <2>3. /\ DOMAIN start' = DOMAIN start \cup {c} /\ start'[c].at = None
          /\ \A g \in DOMAIN start : start'[g] = start[g]
      BY <2>1, <2>2 DEF With, NewStart
    <2> QED BY <2>1, <2>3, LaidUnmoved DEF Readies
  <1>4. CASE \/ Serve(c) \/ IndexRefuses(c) \/ Authenticate(c) \/ Resolve(c) \/ Handle(c)
             \/ BeginSweep(c)
    <2>1. start' = start /\ server' = server /\ db' = db
      BY <1>4 DEF Serve, IndexRefuses, Authenticate, Resolve, Handle, BeginSweep, serverVars
    <2> QED BY <2>1, LaidUnmoved DEF Readies
  <1> QED BY <1>1, <1>2, <1>3, <1>4 DEF RequestStep

LEMMA LaidBegins == Init => LaidInv
  <1> SUFFICES ASSUME Init PROVE LaidInv
    OBVIOUS
  <1>1. PICK w \in Workloads : /\ server = [p \in Processes |-> w.server[p]]
                               /\ start = << >> /\ db = w.db
    BY DEF Init
  <1> DEFINE n == db.version
  <1>2. /\ n \in 0..24
        /\ db = [Database(n, db.hnsw) EXCEPT
                   !.shared = db.shared, !.legacy = db.legacy, !.unknown = db.unknown]
        /\ n >= 14 => db.legacy = {}
        /\ \A p \in Processes : server[p].cell = "ready" => n = 24
    BY <1>1, DatabaseAssumption, ProcessAssumption DEF Latest
  <1>3. /\ db.schema = IF n >= 18 THEN SchemaOf(n) \ {"streamName"} ELSE SchemaOf(n)
        /\ db.blank = (n >= 18 \/ n < 3)
    <2> DEFINE d == Database(n, db.hnsw)
    <2>1. /\ d.schema = IF n >= 18 THEN SchemaOf(n) \ {"streamName"} ELSE SchemaOf(n)
          /\ d.blank = (n >= 18 \/ n < 3) /\ DbFields \subseteq DOMAIN d
      BY DEF Database, DbFields
    <2>2. db = [d EXCEPT !.shared = db.shared, !.legacy = db.legacy, !.unknown = db.unknown]
      BY <1>2
    <2> HIDE DEF d, n
    <2>3. db.schema = d.schema /\ db.blank = d.blank
      BY <2>1, <2>2 DEF DbFields
    <2> QED BY <2>1, <2>3
  <1> HIDE DEF n
  <1>4. Tables(n + 1, 1, db.schema)
    <2> DEFINE schema == db.schema
    <2>1. schema = IF n >= 18 THEN SchemaOf(n) \ {"streamName"} ELSE SchemaOf(n)
      BY <1>3
    <2> HIDE DEF schema
    <2>2. Tables(n + 1, 1, schema)
      BY <1>2, <2>1, SchemaBegins
    <2> QED BY <2>2 DEF schema
  <1>5. Earlier(14, 2, n + 1, 1) => n >= 14
    BY <1>2 DEF Earlier
  <1>6. Earlier(18, 1, n + 1, 1) => n >= 18
    BY <1>2 DEF Earlier
  <1>7. Laid(n + 1, 1, db)
    BY <1>2, <1>3, <1>4, <1>5, <1>6 DEF Laid, Tables
  <1>8. n = 24 => Laid(25, 1, db)
    BY <1>7
  <1> QED BY <1>1, <1>2, <1>7, <1>8 DEF LaidInv, n

\* The second invariant: a version is recorded, and a runtime is there, only after
\* somebody has been through the statements that lead to it, and no statement of
\* anybody takes away what they lay but the name of a stream and the nodes of a
\* mindmap (run_migrations, apply_migration).
THEOREM LaidInductive == Spec => []LaidInv
  <1>1. Init => LaidInv
    BY LaidBegins
  <1>2. SInv /\ LaidInv /\ [Next]_vars => LaidInv'
    <2> SUFFICES ASSUME SInv, LaidInv, [Next]_vars PROVE LaidInv'
      OBVIOUS
    <2>1. CASE (Tick /\ UNCHANGED <<derivations, docVars, serverVars>>) \/ UNCHANGED vars
      <3>1. start' = start /\ server' = server /\ db' = db
        BY <2>1 DEF vars, serverVars
      <3> QED BY <3>1, LaidUnmoved DEF Readies
    <2> QED BY <2>1, StartLaid, ProcessLaid, CallLaid DEF Next
  <1>3. Spec => []SInv
    BY StartsInductive
  <1> QED BY <1>1, <1>2, <1>3, PTL DEF Spec

\* Whatever database they found, however many processes start at once, wherever
\* starts were cut off and whatever version they read: a process that has a runtime
\* finds every table, field and index that no migration takes away, no row of an
\* older version and no stream without owners.  If nobody else changed the schema
\* since it began, nobody else was at it then, and no start has left a scar, it
\* finds the whole schema with vector indexes of the dimension of its embeddings.
THEOREM FullSchemaServed == Spec => []ServesFullSchema
  <1>1. SInv /\ LaidInv => ServesFullSchema
    <2> SUFFICES ASSUME SInv, LaidInv, NEW p \in Processes, server[p].cell = "ready"
                 PROVE  /\ FullSchema \ Removable \subseteq db.schema /\ db.blank /\ db.legacy = {}
                        /\ ~server[p].disturbed /\ ~db.scar =>
                              db.schema = FullSchema /\ db.hnsw = server[p].dim
      BY DEF ServesFullSchema
    <2>1. Laid(26, 1, db)
      BY LaidAtLast DEF LaidInv
    <2>2. FullSchema \subseteq db.schema \cup Removable
      BY <2>1, FullIsLaid DEF Laid
    <2>3. db.blank /\ db.legacy = {}
      BY <2>1 DEF Laid, Earlier
    <2> QED BY <2>2, <2>3 DEF SInv, ServesAlone
  <1> QED BY <1>1, StartsInductive, LaidInductive, PTL
=============================================================================
