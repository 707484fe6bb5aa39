---------------------------- MODULE SchemaGuard -----------------------------
(***************************************************************************)
(* The upstream contract of a builder: three checks of the files it reads  *)
(* and one of the pack it wrote.  A download is                            *)
(*   structure   the rows of its *_CSV_DATA_STRUCTURE.csv files, or Missing*)
(*   headers     file -> the columns of its header row (files that exist)  *)
(*   values      <<file, column>> -> the non-blank values that occur       *)
(* and a row of a structure file is [file, column, shape]: width, type and *)
(* nullability are one value.                                              *)
(***************************************************************************)
EXTENDS Integers

CONSTANTS
    Missing     \* no structure file in the download, or no snapshot of it

Consumed(contract) == DOMAIN contract.required

\* The rows of the files that the builder reads.
Kept(contract, rows) == {row \in rows : row.file \in Consumed(contract)}

\* Layer 1: the structure is the committed one.
CheckStructure(contract, download) ==
    /\ contract.snapshot # Missing
    /\ download.structure # Missing
    /\ Kept(contract, download.structure) = Kept(contract, contract.snapshot)

\* Layer 2: every column that is read is there.
CheckHeaders(contract, download) ==
    \A file \in Consumed(contract) :
        /\ file \in DOMAIN download.headers
        /\ contract.required[file] \subseteq download.headers[file]

\* Layer 3: a policed column holds only known values.  A column that is not
\* there has none.
CheckEnums(contract, download) ==
    \A fc \in DOMAIN contract.enums :
        /\ fc[1] \in DOMAIN download.headers
        /\ fc[2] \in download.headers[fc[1]] =>
               download.values[fc] \subseteq contract.enums[fc]

\* check_inputs raises at the first layer that does not hold, and this is its
\* number; 0 when it returns.
CheckInputs(contract, download) ==
    IF ~CheckStructure(contract, download) THEN 1
    ELSE IF ~CheckHeaders(contract, download) THEN 2
    ELSE IF DOMAIN contract.enums # {} /\ ~CheckEnums(contract, download) THEN 3
    ELSE 0

\* evaluate_inputs: the same three layers, each with its outcome.
EvaluateInputs(contract, download) ==
    <<CheckStructure(contract, download), CheckHeaders(contract, download),
      CheckEnums(contract, download)>>

\* Layer 4: no table is empty, and each floored one is there and clears its floor.
CheckOutput(contract, tables) ==
    /\ \A t \in DOMAIN tables : tables[t] # 0
    /\ \A t \in DOMAIN contract.floors :
          t \in DOMAIN tables /\ tables[t] >= contract.floors[t]
=============================================================================
