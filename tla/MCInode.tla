-------------------------------- MODULE MCInode --------------------------------
(* A small instance of Inode: two processes, two names, and calls that meet in them. *)
EXTENDS Inode

Call(op, path, arg) == [op |-> op, path |-> path, arg |-> arg]

MCCalls ==
    {Call("mkdir", <<"a">>, <<>>), Call("create", <<"a", "b">>, <<>>), Call("create", <<"b">>, <<>>),
     Call("open", <<"b">>, <<>>), Call("open", <<"a", "b">>, <<>>),
     Call("symlink", <<"b">>, <<"/", "a">>), Call("symlink", <<"a">>, <<"a">>),
     Call("link", <<"b">>, <<"a", "b">>),
     Call("unlink", <<"a">>, <<>>), Call("unlink", <<"b">>, <<>>), Call("unlink", <<"a", "b">>, <<>>),
     Call("unlink", <<>>, <<>>), Call("mknod", <<"a">>, <<>>),
     Call("chdir", <<"a">>, <<>>), Call("chdir", <<"/">>, <<>>)}
===============================================================================
