---------------------------- MODULE MCUsbTmcPort ----------------------------
(* A small instance of UsbTmcPort: two bytes per transfer, four tags, and  *)
(* an instrument whose second altsetting is the usable one.                *)
EXTENDS UsbTmcPort

Endpoint(addr, dir, type) == [addr |-> addr, dir |-> dir, type |-> type]

MCConfigs ==
    << << [tmc |-> TRUE,  eps |-> << Endpoint(129, "in", "interrupt"),
                                     Endpoint(130, "in", "bulk") >>],
          [tmc |-> TRUE,  eps |-> << Endpoint(129, "in", "interrupt"),
                                     Endpoint(2, "out", "bulk"),
                                     Endpoint(130, "in", "bulk") >>] >> >>
=============================================================================
