-------------------------- MODULE MCDeviceMonitor ---------------------------
(* DeviceMonitor on small instances: each loop, and a host it cannot see.  *)
EXTENDS DeviceMonitor, TLC

On(kind, platform, libraries) == [kind |-> kind, platform |-> platform, libraries |-> libraries]

MCHosts ==
    {On("usb", "Linux", {"pyudev"}), On("usb", "Linux", {}),
     On("usb", "Windows", {"etw"}), On("usb", "Windows", {"wmi", "pythoncom"}),
     On("usb", "Windows", {}), On("usb", "Darwin", {"pyudev"}),
     On("bluetooth", "Linux", {})}
=============================================================================
