---------------------------- MODULE DriverTable ----------------------------
(***************************************************************************)
(* The init and exit functions of the drivers, as data: for each driver    *)
(*   class, kobject  the names it registers ("none" where there is none)   *)
(*   uses            what its interrupt handler relies on                  *)
(*   init            the steps of its init function, in order              *)
(*   undo            what follows the labels of its init function          *)
(*   exit            the releases of its exit function, in order           *)
(* DriverLoad gives the table its meaning.  Printing, the calls that only  *)
(* prepare a structure (cdev_init, mutex_init, timer_setup ...) and the    *)
(* calls that wait for deferred work or free data (tasklet_kill,           *)
(* flush_work, vfree, kfree) are left out.                                 *)
(***************************************************************************)
EXTENDS Sequences

\* A step that registers res and, when it fails, goes to label: a label of
\* undo, "return" (an error return without unwinding), "ignored" (the result
\* is not looked at) or "never" (it cannot fail).
On(res, label) == [get |-> res, err |-> label]

\* alloc_chrdev_region, cdev_add, class_create and device_create, the way most
\* drivers start, and the labels r_class and r_device they share.
Front == << On("region", "return"), On("cdev", "r_class"), On("class", "r_class"),
            On("device", "r_device") >>

\* Mutant: the unwinding forgets the cdev.
r_classWithoutCdev == <<"region">>

\* What follows the label r_class.
r_class == <<"region", "cdev">>

FrontUndo == [r_class |-> r_class, r_device |-> <<"class">>]

\* The end of the exit functions.
FrontExit == <<"device", "class", "cdev", "region">>

\* kobject_create_and_add, whose result is not looked at, and sysfs_create_file.
SysfsFile == << On("kobject", "ignored"), On("sysfs", "r_sysfs") >>
r_sysfs == <<"sysfs", "kobject">> \o r_class

\* A driver of the common shape: the steps after Front, the labels besides
\* r_class and r_device, the releases before FrontExit.
Common(class, kobject, init, undo, exit) ==
    [class |-> class, kobject |-> kobject, uses |-> {},
     init |-> Front \o init, undo |-> undo, exit |-> exit \o FrontExit]

NoLabel == [none |-> <<>>]

-----------------------------------------------------------------------------
(* Labs 03 to 14 *)

device_driver ==
    [class |-> "dev_class", kobject |-> "none", uses |-> {},
     init |-> << On("region", "r_chrdev"), On("class", "r_class"), On("device", "r_device") >>,
     undo |-> [r_device |-> <<"device", "class", "region">>,
               r_class |-> <<"class", "region">>, r_chrdev |-> <<"region">>],
     exit |-> <<"device", "class", "region">>]

ioctl ==
    [class |-> "ioctl_drv", kobject |-> "none", uses |-> {}, init |-> Front,
     undo |-> [r_device |-> <<"class", "region">>, r_class |-> <<"region">>],
     exit |-> <<"device", "class", "region">>]

\* Only the first result is looked at.
Unchecked == << On("region", "return"), On("cdev", "ignored"), On("class", "ignored"),
                On("device", "ignored") >>

kmalloc ==
    [class |-> "kchardev", kobject |-> "none", uses |-> {}, init |-> Unchecked,
     undo |-> NoLabel, exit |-> FrontExit]

vmalloc ==
    [class |-> "myvmallocdev", kobject |-> "none", uses |-> {}, init |-> Unchecked,
     undo |-> NoLabel, exit |-> FrontExit]

sysfs_module ==
    Common("syschardev", "x_sysfs", << On("kobject", "return"), On("sysfs", "r_sysfs") >>,
           [r_sysfs |-> <<"kobject", "sysfs", "class">> \o r_class,
            r_device |-> <<"class">> \o r_class], <<>>)

procfs_module ==
    Common("mychardev", "none", << On("procdir", "return"), On("x_status", "ignored") >>,
           [r_class |-> <<"cdev", "region">>], <<"procdir">>)

custom_slab_cache ==
    [class |-> "mychardev", kobject |-> "none", uses |-> {},
     init |-> << On("region", "return"), On("cdev", "return"), On("class", "ignored"),
                 On("device", "ignored"), On("slab", "ignored") >>,
     undo |-> NoLabel, exit |-> <<"slab">> \o FrontExit]

wait_queue_module ==
    Common("mychardev", "none", << On("thread", "return"), On("wake", "never") >>, NoLabel, <<>>)

kthread_module ==
    Common("mythreadev", "none", << On("thread", "return"), On("wake", "never") >>, NoLabel,
           <<"thread">>)

mutex_module ==
    Common("mychardev", "none", << On("thread1", "return"), On("thread", "return") >>, NoLabel,
           <<"thread", "thread1">>)

without_mutex_module ==
    Common("mychardev", "none", << On("thread1", "return"), On("thread", "return") >>, NoLabel,
           <<"thread", "thread1">>)

temp_watch ==
    Common("mychardev", "none",
           << On("procdir", "return0"), On("wait", "ignored"), On("value", "ignored"),
              On("threshold", "ignored"), On("thread", "r_class") >>,
           [return0 |-> <<>>],
           <<"thread", "wait", "value", "threshold", "procdir">>)

\* Mutant: free_irq is forgotten.
interrupt_moduleKeepsIrq ==
    Common("mychardev", "none", << On("irq", "r_irq") >>, [r_irq |-> <<"irq">> \o r_class], <<>>)

interrupt_module ==
    Common("mychardev", "none", << On("irq", "r_irq") >>, [r_irq |-> <<"irq">> \o r_class],
           <<"irq">>)

-----------------------------------------------------------------------------
(* Labs 15 to 28 *)

\* Mutant: the second thread is not stopped.
spinlock_moduleOneThread ==
    Common("mychardev", "test_file",
           SysfsFile \o << On("thread", "r_thread"), On("thread1", "r_thread") >>,
           [r_thread |-> <<"thread", "thread1">> \o r_sysfs, r_sysfs |-> r_sysfs],
           <<"thread", "sysfs", "kobject">>)

spinlock_module ==
    Common("mychardev", "test_file",
           SysfsFile \o << On("thread", "r_thread"), On("thread1", "r_thread") >>,
           [r_thread |-> <<"thread", "thread1">> \o r_sysfs, r_sysfs |-> r_sysfs],
           <<"thread", "thread1", "sysfs", "kobject">>)

rwspinlock_module ==
    Common("mychardev", "test_file",
           SysfsFile \o << On("thread", "r_thread"), On("thread1", "r_thread1"),
                           On("thread2", "r_thread2") >>,
           [r_thread  |-> <<"thread", "thread1", "thread2">> \o r_sysfs,
            r_thread1 |-> <<"thread1", "thread2">> \o r_sysfs,
            r_thread2 |-> <<"thread2">> \o r_sysfs, r_sysfs |-> r_sysfs],
           <<"thread", "thread1", "thread2", "sysfs", "kobject">>)

spinlock_with_interrupts ==
    Common("mychardev", "test_file",
           SysfsFile \o << On("thread", "r_thread"), On("timer", "never") >>,
           [r_thread |-> <<"thread">> \o r_sysfs, r_sysfs |-> r_sysfs],
           <<"thread", "timer", "sysfs", "kobject">>)

\* The labels of the drivers that have a thread and an interrupt handler.
IrqUndo == [r_irq |-> <<"irq", "thread">> \o r_sysfs, r_thread |-> <<"thread">> \o r_sysfs,
            r_sysfs |-> r_sysfs]

workqueues_module ==
    Common("mychardev", "test_file",
           SysfsFile \o << On("thread", "r_thread"), On("irq", "r_irq") >>, IrqUndo,
           <<"irq", "thread", "sysfs", "kobject">>)

workqueues_on_cpu ==
    Common("mychardev", "test_file",
           SysfsFile \o << On("thread", "r_thread"), On("irq", "r_irq") >>, IrqUndo,
           <<"irq", "thread", "sysfs", "kobject">>)

\* The handler queues work on own_workqueue.
own_workqueues ==
    [Common("mychardev", "test_file",
            SysfsFile \o << On("thread", "r_thread"), On("irq", "r_irq"), On("wq", "return") >>,
            IrqUndo, <<"wq", "irq", "thread", "sysfs", "kobject">>)
     EXCEPT !.uses = {"wq"}]

linked_list ==
    [Common("mychardev", "test_file",
            SysfsFile \o << On("thread", "r_thread"), On("irq", "r_irq"), On("wq", "return") >>,
            IrqUndo, <<"wq", "irq", "thread", "sysfs", "kobject">>)
     EXCEPT !.uses = {"wq"}]

tasklet_module ==
    Common("mychardev", "test_file",
           SysfsFile \o << On("thread", "r_thread"), On("irq", "r_irq") >>, IrqUndo,
           <<"irq", "thread", "sysfs", "kobject">>)

signal_module ==
    Common("mychardev", "test_file", SysfsFile \o << On("irq", "r_irq") >>,
           [r_irq |-> <<"irq">> \o r_sysfs, r_sysfs |-> r_sysfs],
           <<"irq", "sysfs", "kobject">>)

sec_signal_module == Common("mychardev", "none", <<>>, NoLabel, <<>>)

timer_module == Common("mychardev", "none", << On("timer", "never") >>, NoLabel, <<"timer">>)

hrtimer_module == Common("mychardev", "none", << On("timer", "never") >>, NoLabel, <<"timer">>)

completion_module ==
    Common("mychardev", "none", << On("thread", "return"), On("wake", "never") >>, NoLabel, <<>>)

export_symbol == Common("mychardev", "none", <<>>, NoLabel, <<>>)

export_symbol_2 == Common("mychardev2", "none", <<>>, NoLabel, <<>>)

atomic_variable ==
    Common("mythreadev", "none",
           << On("thread", "return"), On("wake", "never"), On("thread1", "ignored") >>, NoLabel,
           <<"thread", "thread1">>)

seqlock_module ==
    Common("mychardev", "test_file",
           SysfsFile \o << On("thread", "r_thread"), On("thread1", "r_thread") >>,
           [r_thread |-> <<"thread", "thread1">> \o r_sysfs, r_sysfs |-> r_sysfs],
           <<"thread", "thread1", "sysfs", "kobject">>)

misc_module ==
    [class |-> "none", kobject |-> "none", uses |-> {},
     init |-> << On("misc", "r_miscdevice") >>,
     undo |-> [r_miscdevice |-> <<"misc">>], exit |-> <<"misc">>]

\* usb.c; a failed usb_register_driver is reported as success.
usb ==
    [class |-> "none", kobject |-> "none", uses |-> {}, init |-> << On("usb", "return0") >>,
     undo |-> [return0 |-> <<>>], exit |-> <<"usb">>]

usbv1 ==
    [class |-> "none", kobject |-> "none", uses |-> {}, init |-> << On("usb", "return") >>,
     undo |-> NoLabel, exit |-> <<"usb">>]

\* gpiod_put and gpio_free both give back the line gpio_request took; "line"
\* stands for gpio_is_valid, gpio_to_desc and gpiod_direction_output.
gpio ==
    LET r_cdev   == <<"cdev", "region">>
        r_dev    == <<"device", "class">> \o r_cdev
        r_gpio   == <<"gpio">> \o r_dev
    IN [class |-> "gpio", kobject |-> "none", uses |-> {},
        init |-> << On("region", "r_unreg"), On("cdev", "r_cdev"), On("class", "r_class"),
                    On("device", "r_device"), On("line", "r_device"), On("gpio", "r_device"),
                    On("line", "r_gpio"), On("line", "r_gpio"), On("export", "ignored") >>,
        undo |-> [r_unreg |-> <<"region">>, r_cdev |-> r_cdev,
                  r_class |-> <<"class">> \o r_cdev, r_device |-> r_dev, r_gpio |-> r_gpio],
        exit |-> <<"export", "gpio", "gpio">> \o r_dev]

-----------------------------------------------------------------------------
Program ==
    [device_driver |-> device_driver, ioctl |-> ioctl, kmalloc |-> kmalloc,
     vmalloc |-> vmalloc, sysfs_module |-> sysfs_module, procfs_module |-> procfs_module,
     custom_slab_cache |-> custom_slab_cache, wait_queue_module |-> wait_queue_module,
     kthread_module |-> kthread_module, mutex_module |-> mutex_module,
     without_mutex_module |-> without_mutex_module, temp_watch |-> temp_watch,
     interrupt_module |-> interrupt_module, spinlock_module |-> spinlock_module,
     rwspinlock_module |-> rwspinlock_module,
     spinlock_with_interrupts |-> spinlock_with_interrupts,
     workqueues_module |-> workqueues_module, workqueues_on_cpu |-> workqueues_on_cpu,
     own_workqueues |-> own_workqueues, linked_list |-> linked_list,
     tasklet_module |-> tasklet_module, signal_module |-> signal_module,
     sec_signal_module |-> sec_signal_module, timer_module |-> timer_module,
     hrtimer_module |-> hrtimer_module, completion_module |-> completion_module,
     export_symbol |-> export_symbol, export_symbol_2 |-> export_symbol_2,
     atomic_variable |-> atomic_variable, seqlock_module |-> seqlock_module,
     misc_module |-> misc_module, usb |-> usb, usbv1 |-> usbv1, gpio |-> gpio]

\* What follows the label of driver d: r_class and r_device are FrontUndo's where
\* the driver gives them no meaning of its own.
Unwinding(d, label) ==
    IF label \in DOMAIN Program[d].undo THEN Program[d].undo[label] ELSE FrontUndo[label]

\* The labels after which the init function does not return an error: 0, or in
\* device_driver.c 1, at which the kernel only warns.
KeepsLoaded ==
    [misc_module |-> {"r_miscdevice"}, temp_watch |-> {"return0"}, usb |-> {"return0"},
     device_driver |-> {"r_chrdev", "r_class", "r_device"}]
=============================================================================
