---------------------------- MODULE MCMediaStatus ----------------------------
(* Small instance of MediaStatus: conditions of the module and of two of    *)
(* its channels; a QSFP module has no channel 4.                            *)
EXTENDS MediaStatus

Temp     == <<"TEMP", "HIGH", "ALARM">>
RxLow    == <<"RX_PWR", "LOW", "ALARM">>
BiasHigh == <<"TX_BIAS", "HIGH", "WARNING">>
RxLoss   == <<"RXLOSS", "STATE", "STATE">>

MCConditions == {<<Temp, 0>>, <<RxLow, 1>>, <<BiasHigh, 0>>, <<RxLoss, 0>>}
MCRequested == {Flags, {RxLow}}
MCLeftovers == {{}, {Temp}}
=============================================================================
