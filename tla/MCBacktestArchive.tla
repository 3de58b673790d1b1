---- MODULE MCBacktestArchive ----
(***************************************************************************)
(* A small instance of BacktestArchive: two refreshes, one simulation and  *)
(* one upload.  Of the files one is a series, one has a gap, one is out of *)
(* order, one is too short and one holds a record that does not parse.     *)
(***************************************************************************)
EXTENDS BacktestArchive

CONSTANTS launch, listing, simulator, upload, first, second

LaunchAndListing == {launch, listing}

Simulator == {simulator}

OneUpload == {upload}

GoodAndBadFiles == {<<1, 2>>, <<1, 3>>, <<2, 1>>, <<2>>, <<0, 1>>}

TwoRuns == {first, second}
====
