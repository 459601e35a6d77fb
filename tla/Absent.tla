-------------------------------- MODULE Absent --------------------------------
(* Option::None of the Rust code, where a value may be absent. *)
CONSTANT None
===============================================================================
