---------------------------- MODULE MCFileSystem ----------------------------
(* Programs of two threads that meet in the file system. *)
EXTENDS FileSystem

open(n, fl)      == [op |-> "open", name |-> n, flags |-> fl]
write(d, b)      == [op |-> "write", fd |-> d, buf |-> b]
pwrite(d, b, o)  == [op |-> "pwrite", fd |-> d, buf |-> b, offset |-> o]
read(d, n)       == [op |-> "read", fd |-> d, n |-> n]
pread(d, n, o)   == [op |-> "pread", fd |-> d, n |-> n, offset |-> o]
lseek(d, o, w)   == [op |-> "lseek", fd |-> d, offset |-> o, whence |-> w]
truncate(n, l)   == [op |-> "truncate", name |-> n, len |-> l]
rename(a, b)     == [op |-> "rename", from |-> a, to |-> b]
link(a, b)       == [op |-> "link", from |-> a, to |-> b]
unlink(a)        == [op |-> "unlink", name |-> a]
fsync(d)         == [op |-> "fsync", fd |-> d]
close(d)         == [op |-> "close", fd |-> d]
sync             == [op |-> "sync"]
pbarrier         == [op |-> "pbarrier"]

RW   == {"r", "w"}
New  == {"r", "w", "creat"}

MCThreads == {1, 2}
MCNames   == {0, 1}
MCModes   == {<<"writeback", FALSE>>, <<"ordered", TRUE>>, <<"ordered", FALSE>>, <<"journal", FALSE>>}

MCPrograms ==
  { \* appends through descriptions of their own, then a read from the start
    <<<<open(0, New \cup {"append"}), write(1, <<1, 2, 3>>)>>,
      <<open(0, New \cup {"append"}), write(2, <<4>>), pread(2, 3, 0)>>>>,
    \* a shared description
    <<<<open(0, New), write(1, <<1, 2>>), lseek(1, 0, "set"), read(1, 2)>>,
      <<write(1, <<3>>), lseek(1, 1, "end"), lseek(1, 1, "cur"), read(1, 1)>>>>,
    \* truncation against writes beyond the end
    <<<<open(0, New), pwrite(1, <<1, 2, 3>>, 0), truncate(0, 1), truncate(0, 3)>>,
      <<pwrite(1, <<4>>, 4), pread(1, 4, 0), truncate(0, 5)>>>>,
    \* a file is replaced while it is looked up
    <<<<open(0, New \cup {"sync"}), write(1, <<1, 2>>), rename(0, 1), unlink(1)>>,
      <<open(1, {"r"}), link(0, 1), read(2, 1), link(1, 0)>>>>,
    \* write, fsync, rename: the usual way to replace a file
    <<<<open(1, New), open(0, New), write(2, <<1, 2, 3>>), fsync(2), rename(0, 1)>>,
      <<pbarrier>>>>,
    <<<<open(0, New), write(1, <<1>>), write(1, <<2, 3>>), truncate(0, 0), pwrite(1, <<4>>, 2), pbarrier>>,
      <<truncate(1, 1), truncate(0, -1)>>>>,
    \* errors
    <<<<open(0, {"invalid"}), open(0, {"r"}), open(0, {"r", "creat"}), write(1, <<1>>), close(1), close(1)>>,
      <<pread(1, 1, -1), fsync(2), unlink(1), rename(1, 0), lseek(1, 0, "bad"), truncate(0, 9), sync>>>>,
    <<<<open(0, {"w", "creat"}), write(1, <<1, 2>>), open(0, RW \cup {"trunc"}), read(1, 1), pwrite(2, <<3, 4>>, 5)>>,
      <<open(0, {"r", "trunc"}), pwrite(1, <<5>>, 6)>>>> }
=============================================================================
