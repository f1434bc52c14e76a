------------------------------ MODULE MCFile --------------------------------
(* Constant values for the FileTable configurations. *)
EXTENDS FileTable
\* Two processes: the smallest number that can race on systemFileTable.
MC_NPROC_2 == 2
\* One process: the sequential configurations.
MC_NPROC_1 == 1
\* fds 0-2 are the console, 3 is an ordinary slot, 4 is OPEN_MAX-1.
MC_OPEN_MAX == 5
\* Two system entries, so that one can be reclaimed while another is in use.
MC_SYSTEM_OPEN_MAX_2 == 2
\* One system entry: every two concurrent opens race on it.
MC_SYSTEM_OPEN_MAX_1 == 1
\* Two opens: an entry claimed twice, or an EMFILE after a first open.
MC_MaxOpens == 2
\* count_refs is 32 bits wide; four bits keep decrement-from-zero wrapping
\* to the maximum while no legal count (at most NPROC * OPEN_MAX) reaches it.
MC_CountBits == 4
\* open for writing, or for reading and writing; STDIN is O_RDONLY.
MC_OpenModes == {O_WRONLY, O_RDWR}
\* STDIN and the two descriptors open hands out (3, and OPEN_MAX-1 = 4).
MC_UserFds == {0, 3, 4}
\* "bin" and "testbin" are directories, "a" a file and "x" names nothing.
MC_ChdirPaths == {[len |-> 3, kind |-> "dir"], [len |-> 7, kind |-> "dir"],
                  [len |-> 1, kind |-> "file"], [len |-> 1, kind |-> "none"]}
\* STDIN and descriptor 3, for two processes at once.
MC_UserFds_2 == {0, 3}
=============================================================================
