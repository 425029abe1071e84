------------------------------ MODULE MCFanTach ------------------------------
(* Two threads that call the thermometers' access functions (read_temp_ds75 *)
(* is left to MCRackTemp), and one that reads the fans, for TLC.            *)
EXTENDS FanTach

CONSTANTS t1, t2, fan

MCThreads == {t1, t2, fan}

CallOf(fn, addr, fields, mode) ==
  [fn |-> fn, addr |-> addr, fields |-> fields, mode |-> mode]

\* Addresses that are masked (9), taken as they are (2), or refused (60).
MCCalls == {
  CallOf("read_temp_ds1621", 9, {}, "r"),
  CallOf("access_ds75_details", 2, {"T_OS", "T_HYST", "cfg"}, "r"),
  CallOf("access_ds1621_details", 60, {}, "w"),
  CallOf("access_ds1621_details", 4, {"T_OS", "cfg"}, "w")}

=============================================================================
