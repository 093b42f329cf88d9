-------------------------------- MODULE MCKAlloc --------------------------------
(***************************************************************************)
(* Small instances of the page allocators.  The machine boots with v2-sort *)
(* (KAlloc) or with one of the first versions (KAllocV1, whose variables   *)
(* are those named ...1, on a machine with one tracked page more); the     *)
(* variables of the other module stay what they are at the start.          *)
(***************************************************************************)
EXTENDS KAlloc

CONSTANT Versions

VARIABLES version, freelist1, pg2pid1, allocated_count1, boot1, pc1, frame1, seen1,
          handed1, fault1, overlap1

V1 == INSTANCE KAllocV1 WITH
        NFRAMES <- 6, MAX_FRAME_NUM <- 4, KINIT2 <- 5,
        freelist <- freelist1, pg2pid <- pg2pid1, allocated_count <- allocated_count1,
        boot <- boot1, pc <- pc1, frame <- frame1, seen <- seen1, handed <- handed1,
        fault <- fault1, overlap <- overlap1

ASSUME FirstVersions == V1!KAllocV1Assumption

vars1 == <<version, freelist1, pg2pid1, allocated_count1, boot1, pc1, frame1, seen1,
           handed1, fault1, overlap1>>

MCInit == Init /\ V1!Init

MCNext ==
  \/ version = "v2-sort" /\ Next /\ UNCHANGED vars1
  \/ V1!Next /\ UNCHANGED vars

MCSpec == MCInit /\ [][MCNext]_<<vars, vars1>>

(* v1a, v1b and v1a-sort keep a page that is neither used nor free below each *)
(* page in use, the list in order, and every page accounted for.             *)
GuardPages == V1!GuardPages
===============================================================================
