------------------------------ MODULE MCLockf ------------------------------
(* Instances of Lockf.                                                      *)
EXTENDS Lockf, TLC

CONSTANTS t1, t2, t3, v1, v2

Threads3(k1, k2, k3) ==
    t1 :> [id |-> "a", kind |-> k1] @@ t2 :> [id |-> "b", kind |-> k2]
      @@ t3 :> [id |-> "c", kind |-> k3]

\* Byte 1, bytes 0 and 1, and the bytes from 2 on.
Parts == { <<"SEEK_SET", 1, 1>>, <<"SEEK_SET", 2, -2>>, <<"SEEK_END", 0, 0>> }

\* Two processes with record locks and a flock; flocks only; two processes that
\* may wait for each other, and a lock of an open file; and two files, where one
\* process has two threads.
MCCasts == {
    [who |-> Threads3("POSIX", "POSIX", "FLOCK"), vnodes |-> {v1}, flocks |-> Parts,
     types |-> {"R", "W"}, ops |-> 3],
    [who |-> Threads3("FLOCK", "FLOCK", "FLOCK"), vnodes |-> {v1}, flocks |-> {},
     types |-> {"R", "W"}, ops |-> 4],
    [who |-> Threads3("POSIX", "POSIX", "OFD"), vnodes |-> {v1},
     flocks |-> { <<"SEEK_SET", 1, 1>>, <<"SEEK_END", 0, 0>> }, types |-> {"W"}, ops |-> 4],
    [who |-> [Threads3("POSIX", "POSIX", "POSIX") EXCEPT ![t3].id = "a"], vnodes |-> {v1, v2},
     flocks |-> {Whole}, types |-> {"W"}, ops |-> 5] }

\* A process that names the last offset.
MCLast == {
    [who |-> Threads3("POSIX", "POSIX", "POSIX"), vnodes |-> {v1},
     flocks |-> { <<"SEEK_SET", 1, 0>>, <<"SEEK_SET", 1, 3>> }, types |-> {"W"}, ops |-> 1] }
=============================================================================
