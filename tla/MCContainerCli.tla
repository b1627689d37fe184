--------------------------- MODULE MCContainerCli ---------------------------
(***************************************************************************)
(* Constants for model checking ContainerCli: the root, one part that      *)
(* stands alone (/proc, as /sys) and one with a part below it (/dev with   *)
(* /dev/pts, as /dev/shm).                                                 *)
(***************************************************************************)
EXTENDS ContainerCli

MCMountOrder == << <<>>, <<"proc">>, <<"dev">>, <<"dev", "pts">> >>
MCReverseSorted == << <<"proc">>, <<"dev", "pts">>, <<"dev">> >>
MCFailing == ToSet(MCMountOrder)
=============================================================================
