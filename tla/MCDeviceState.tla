---------------------------- MODULE MCDeviceState ----------------------------
(* Instances of DeviceState for TLC: a device with the elements of a lamp  *)
(* and those of a DHT sensor, so that one run has all kinds of message.    *)
EXTENDS DeviceState, TLC

MCStateFields == {<<>>, <<"POWER", "Dimmer">>}
MCSampleFields == <<"TEMPERATURE", "HUMIDITY">>
MCShortSample == <<"TEMPERATURE">>

Symmetry == Permutations(Message)
==============================================================================
